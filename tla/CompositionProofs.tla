------------------------- MODULE CompositionProofs -------------------------
(***************************************************************************)
(* For every composition document, whatever its files hold: the recorded   *)
(* paths stay index-parallel to the configurations, and what they tell of  *)
(* the runs is what SimulationManager expands; so the labels, the figures  *)
(* and the maps are those of the runs they are told of.                    *)
(***************************************************************************)
EXTENDS Composition, FiniteSetTheorems, TLAPS

(* A sequence, of whatever. *)
IsSequence(s) == Len(s) \in Nat /\ s = [i \in 1 .. Len(s) |-> s[i]]

LEMMA SequencesAreSequences == ASSUME NEW S, NEW s \in Seq(S) PROVE IsSequence(s)
BY DEF IsSequence

LEMMA SequenceOfItsElements ==
  ASSUME NEW s, IsSequence(s), NEW e
  PROVE  s \in Seq({s[i] : i \in 1 .. Len(s)} \cup {e})
BY DEF IsSequence

LEMMA AppendIsSequence ==
  ASSUME NEW s, IsSequence(s), NEW e
  PROVE  IsSequence(Append(s, e))
<1>. PICK S : S = {s[i] : i \in 1 .. Len(s)} \cup {e}
  OBVIOUS
<1>1. s \in Seq(S) /\ e \in S
  BY SequenceOfItsElements
<1>2. Append(s, e) \in Seq(S)
  BY <1>1
<1>3. QED
  BY <1>2, SequencesAreSequences

LEMMA AppendExtends ==
  ASSUME NEW s, IsSequence(s), NEW e
  PROVE  /\ DOMAIN s = 1 .. Len(s) /\ Len(s) \in Nat
         /\ DOMAIN Append(s, e) = 1 .. (Len(s) + 1)
         /\ \A i \in 1 .. Len(s) : Append(s, e)[i] = s[i]
         /\ Append(s, e)[Len(s) + 1] = e
<1>. PICK S : S = {s[i] : i \in 1 .. Len(s)} \cup {e}
  OBVIOUS
<1>1. s \in Seq(S) /\ e \in S
  BY SequenceOfItsElements
<1>2. DOMAIN s = 1 .. Len(s) /\ Len(s) \in Nat
  BY <1>1
<1>3. Append(s, e) \in Seq(S) /\ Len(Append(s, e)) = Len(s) + 1
  BY <1>1
<1>4. DOMAIN Append(s, e) = 1 .. (Len(s) + 1)
  BY <1>3
<1>5. \A i \in 1 .. Len(s) : Append(s, e)[i] = s[i]
  BY <1>1
<1>6. Append(s, e)[Len(s) + 1] = e
  BY <1>1
<1>7. QED
  BY <1>2, <1>4, <1>5, <1>6

LEMMA EmptyIsSequence == IsSequence(<< >>) /\ DOMAIN << >> = {}
BY DEF IsSequence

(* Whatever one turn of a loop appends to both sides keeps them aligned.    *)
LEMMA AppendAligned ==
  ASSUME NEW kind, NEW configs, NEW where, NEW path,
         IsSequence(configs), IsSequence(where), Aligned(kind, configs, where)
  PROVE  Aligned(kind, Append(configs, Config(kind, path)), Append(where, path))
<1>1. DOMAIN configs = DOMAIN where
  BY DEF Aligned
<1>2. Len(configs) = Len(where)
  BY <1>1, AppendExtends
<1>3. DOMAIN Append(configs, Config(kind, path)) = DOMAIN Append(where, path)
  BY <1>2, AppendExtends
<1>4. ASSUME NEW i \in DOMAIN Append(where, path)
      PROVE  Append(configs, Config(kind, path))[i] = Config(kind, Append(where, path)[i])
  <2>1. CASE i \in 1 .. Len(where)
    BY <1>2, <2>1, AppendExtends DEF Aligned, LoadedFrom
  <2>2. CASE i = Len(where) + 1
    BY <1>2, <2>2, AppendExtends
  <2>3. i \in 1 .. Len(where) \/ i = Len(where) + 1
    BY <1>4, AppendExtends
  <2>4. QED
    BY <2>1, <2>2, <2>3
<1>5. QED
  BY <1>3, <1>4 DEF Aligned, LoadedFrom

-----------------------------------------------------------------------------

(* The loader builds sequences, by appending alone.                         *)
ShapeInv ==
  /\ IsSequence(groups)
  /\ paths = [kind \in Kinds |-> paths[kind]]
  /\ \A kind \in Kinds : IsSequence(paths[kind])
  /\ devices = [kind \in Devices |-> devices[kind]]
  /\ \A kind \in Devices : IsSequence(devices[kind])

IInv == ShapeInv /\ PathsStayAligned

LEMMA KindsAreDifferent ==
  /\ Devices \subseteq Kinds
  /\ {"simulation", "mission"} \subseteq Kinds
  /\ "simulation" \notin Devices /\ "mission" \notin Devices
BY DEF Kinds, Devices

LEMMA InitIInv == Init => IInv
BY EmptyIsSequence, KindsAreDifferent
   DEF Init, IInv, ShapeInv, PathsStayAligned, Aligned, Kinds, Devices

(* A turn of the loop over the simulations. *)
LEMMA LoadSimulationIInv == ASSUME IInv, LoadSimulation PROVE IInv'
<1>. PICK entry : entry = Here("simulation")
  OBVIOUS
<1>. PICK group : group = [simulation |-> Config("simulation", entry.path),
                           missions |-> ConfigsAt("mission", entry.missions)]
  OBVIOUS
<1>1. CASE UNCHANGED <<groups, paths>>
  BY <1>1 DEF LoadSimulation, IInv, ShapeInv, PathsStayAligned, running
<1>2. CASE /\ groups' = Append(groups, group)
           /\ paths' = [paths EXCEPT !["simulation"] = Append(@, entry.path),
                                     !["mission"] = Append(@, entry.missions)]
  <2>1. devices' = devices
    BY DEF LoadSimulation
  <2>2. /\ IsSequence(groups) /\ IsSequence(paths["simulation"]) /\ IsSequence(paths["mission"])
        /\ paths = [kind \in Kinds |-> paths[kind]]
    BY KindsAreDifferent DEF IInv, ShapeInv
  <2>3. /\ paths'["simulation"] = Append(paths["simulation"], entry.path)
        /\ paths'["mission"] = Append(paths["mission"], entry.missions)
        /\ \A kind \in Devices : paths'[kind] = paths[kind]
        /\ paths' = [kind \in Kinds |-> paths'[kind]]
    BY <1>2, <2>2, KindsAreDifferent
  <2>4. ShapeInv'
    <3>1. IsSequence(groups') /\ IsSequence(paths'["simulation"]) /\ IsSequence(paths'["mission"])
      <4>1. /\ IsSequence(Append(groups, group))
            /\ IsSequence(Append(paths["simulation"], entry.path))
            /\ IsSequence(Append(paths["mission"], entry.missions))
        BY <2>2, AppendIsSequence
      <4>2. QED
        BY <1>2, <2>3, <4>1
    <3>2. \A kind \in Kinds : IsSequence(paths'[kind])
      BY <2>3, <3>1 DEF IInv, ShapeInv, Kinds, Devices
    <3>3. QED
      BY <2>1, <2>3, <3>1, <3>2 DEF IInv, ShapeInv
  <2>5. /\ DOMAIN groups = 1 .. Len(groups) /\ Len(groups) \in Nat
        /\ DOMAIN paths["simulation"] = 1 .. Len(groups)
        /\ DOMAIN paths["mission"] = 1 .. Len(groups)
        /\ Len(paths["simulation"]) = Len(groups) /\ Len(paths["mission"]) = Len(groups)
    <3>1. /\ DOMAIN groups = DOMAIN paths["simulation"]
          /\ DOMAIN groups = DOMAIN paths["mission"]
      BY DEF IInv, PathsStayAligned, Aligned
    <3>2. QED
      BY <2>2, <3>1, AppendExtends
  <2>6. /\ DOMAIN groups' = 1 .. (Len(groups) + 1)
        /\ DOMAIN paths'["simulation"] = 1 .. (Len(groups) + 1)
        /\ DOMAIN paths'["mission"] = 1 .. (Len(groups) + 1)
    BY <1>2, <2>2, <2>3, <2>5, AppendExtends
  <2>7. ASSUME NEW g \in 1 .. (Len(groups) + 1)
        PROVE  /\ groups'[g].simulation = Config("simulation", paths'["simulation"][g])
               /\ Aligned("mission", groups'[g].missions, paths'["mission"][g])
    <3>1. CASE g \in 1 .. Len(groups)
      <4>1. /\ groups'[g] = groups[g]
            /\ paths'["simulation"][g] = paths["simulation"][g]
            /\ paths'["mission"][g] = paths["mission"][g]
        <5>1. /\ Append(groups, group)[g] = groups[g]
              /\ Append(paths["simulation"], entry.path)[g] = paths["simulation"][g]
              /\ Append(paths["mission"], entry.missions)[g] = paths["mission"][g]
          BY <2>2, <2>5, <3>1, AppendExtends
        <5>2. QED
          BY <1>2, <2>3, <5>1
      <4>2. /\ groups[g].simulation = Config("simulation", paths["simulation"][g])
            /\ Aligned("mission", groups[g].missions, paths["mission"][g])
        BY <2>5, <3>1 DEF IInv, PathsStayAligned, Aligned, LoadedFrom
      <4>3. QED
        BY <4>1, <4>2
    <3>2. CASE g = Len(groups) + 1
      <4>1. /\ groups'[g] = group
            /\ paths'["simulation"][g] = entry.path
            /\ paths'["mission"][g] = entry.missions
        BY <1>2, <2>2, <2>3, <2>5, <3>2, AppendExtends
      <4>2. Aligned("mission", ConfigsAt("mission", entry.missions), entry.missions)
        BY DEF Aligned, ConfigsAt, LoadedFrom
      <4>3. QED
        BY <4>1, <4>2
    <3>3. QED
      BY <2>5, <3>1, <3>2
  <2>8. \A kind \in Devices : Aligned(kind, devices'[kind], paths'[kind])
    BY <2>1, <2>3 DEF IInv, PathsStayAligned
  <2>9. PathsStayAligned'
    BY <2>6, <2>7, <2>8 DEF PathsStayAligned, Aligned, LoadedFrom
  <2>10. QED
    BY <2>4, <2>9 DEF IInv
<1>3. QED
  BY <1>1, <1>2 DEF LoadSimulation

(* A turn of the loop over the drones or the lidars. *)
LEMMA LoadDeviceIInv ==
  ASSUME IInv, NEW kind \in Devices, LoadDevice(kind)
  PROVE  IInv'
<1>. PICK path : path = Here(kind)
  OBVIOUS
<1>1. /\ paths' = [paths EXCEPT ![kind] = Append(@, path)]
      /\ devices' = [devices EXCEPT ![kind] = Append(@, Config(kind, path))]
      /\ groups' = groups
  BY DEF LoadDevice
<1>2. /\ IsSequence(paths[kind]) /\ IsSequence(devices[kind])
      /\ paths = [k \in Kinds |-> paths[k]]
      /\ devices = [k \in Devices |-> devices[k]]
  BY KindsAreDifferent DEF IInv, ShapeInv
<1>3. /\ paths'[kind] = Append(paths[kind], path)
      /\ devices'[kind] = Append(devices[kind], Config(kind, path))
      /\ \A k \in Kinds : k # kind => paths'[k] = paths[k]
      /\ \A k \in Devices : k # kind => devices'[k] = devices[k]
      /\ paths' = [k \in Kinds |-> paths'[k]]
      /\ devices' = [k \in Devices |-> devices'[k]]
  BY <1>1, <1>2, KindsAreDifferent
<1>4. ShapeInv'
  <2>1. IsSequence(paths'[kind]) /\ IsSequence(devices'[kind])
    BY <1>2, <1>3, AppendIsSequence
  <2>2. QED
    BY <1>1, <1>3, <2>1 DEF IInv, ShapeInv
<1>5. Aligned(kind, devices'[kind], paths'[kind])
  <2>1. Aligned(kind, devices[kind], paths[kind])
    BY DEF IInv, PathsStayAligned
  <2>2. Aligned(kind, Append(devices[kind], Config(kind, path)), Append(paths[kind], path))
    BY <1>2, <2>1, AppendAligned
  <2>3. QED
    BY <1>3, <2>2
<1>6. \A k \in Devices : Aligned(k, devices'[k], paths'[k])
  BY <1>3, <1>5, KindsAreDifferent DEF IInv, PathsStayAligned
<1>7. paths'["simulation"] = paths["simulation"] /\ paths'["mission"] = paths["mission"]
  BY <1>3, KindsAreDifferent
<1>8. PathsStayAligned'
  BY <1>1, <1>6, <1>7 DEF IInv, PathsStayAligned
<1>9. QED
  BY <1>4, <1>8 DEF IInv

LEMMA NextIInv == IInv /\ [Next]_vars => IInv'
<1> SUFFICES ASSUME IInv, [Next]_vars
             PROVE  IInv'
  OBVIOUS
<1>1. CASE UNCHANGED <<groups, paths, devices>>
  BY <1>1 DEF IInv, ShapeInv, PathsStayAligned
<1>2. QED
  BY <1>1, LoadSimulationIInv, LoadDeviceIInv
     DEF Next, EndSection, Run, Write, Written, vars, loading

(* The recorded paths are index-parallel to the configurations, whatever    *)
(* was skipped or came out as defaults (CompositionPaths.h).                *)
THEOREM PathsStayAlignedHolds == Spec => []PathsStayAligned
<1>1. IInv => PathsStayAligned
  BY DEF IInv
<1>2. QED
  BY <1>1, InitIInv, NextIInv, PTL DEF Spec

-----------------------------------------------------------------------------
(* An empty log.  What is in force while the sections are still being read: *)
(* as long as nothing was logged, nothing was skipped or left at a default. *)

WholeGroup(group) ==
  /\ WholeConfig(group.simulation)
  /\ \A m \in DOMAIN group.missions : WholeConfig(group.missions[m])

ReadInv ==
  /\ document \in Documents
  /\ phase \in {"simulation", "drone", "lidar", "runs", "written"}
  /\ read = [kind \in Kinds |-> read[kind]]
  /\ read["simulation"] \in Nat
  /\ document["simulation"] # Absent => read["simulation"] <= Len(document["simulation"])

CleanInv ==
  log = {} =>
    /\ Len(groups) = read["simulation"]
    /\ \A g \in DOMAIN groups : WholeGroup(groups[g])
    /\ \A kind \in Devices : \A i \in DOMAIN devices[kind] : WholeConfig(devices[kind][i])
    /\ phase # "simulation" =>
         document["simulation"] # Absent /\ read["simulation"] = Len(document["simulation"])
    /\ phase \notin {"simulation", "drone"} => document["drone"] # Absent
    /\ phase \notin {"simulation", "drone", "lidar"} => document["lidar"] # Absent

(* A configuration nothing was said about is whole. *)
LEMMA NoLinesMeansWhole ==
  ASSUME NEW kind \in Kinds, NEW path \in Paths, Lines(kind, path) = {}
  PROVE  WholeConfig(Config(kind, path))
<1>1. Fields[kind] \subseteq Good(kind, path) \cup Optional(kind, path)
  BY DEF Lines
<1>2. path # Default
  BY CompositionAssumption
<1>3. QED
  BY <1>1, <1>2 DEF WholeConfig, Config, Optional

LEMMA NoLinesMeansWholeAt ==
  ASSUME NEW kind \in Kinds, NEW where \in Seq(Paths), LinesAt(kind, where) = {}
  PROVE  \A i \in DOMAIN ConfigsAt(kind, where) : WholeConfig(ConfigsAt(kind, where)[i])
<1>1. SUFFICES ASSUME NEW i \in DOMAIN where
               PROVE  WholeConfig(Config(kind, where[i]))
  BY DEF ConfigsAt
<1>2. Lines(kind, where[i]) = {}
  BY DEF LinesAt
<1>3. where[i] \in Paths
  OBVIOUS
<1>4. QED
  BY <1>2, <1>3, NoLinesMeansWhole

LEMMA ElementOfSequence ==
  ASSUME NEW S, NEW s \in Seq(S), NEW n \in Nat, n < Len(s)
  PROVE  s[n + 1] \in S /\ Len(s) \in Nat
OBVIOUS

LEMMA InitClean == Init => ReadInv /\ CleanInv
<1> SUFFICES ASSUME Init
             PROVE  ReadInv /\ CleanInv
  OBVIOUS
<1>1. ReadInv
  <2>1. document["simulation"] # Absent => Len(document["simulation"]) \in Nat
    BY CompositionAssumption DEF Init
  <2>2. QED
    BY <2>1 DEF Init, ReadInv, Kinds
<1>2. CleanInv
  BY DEF Init, CleanInv, Kinds, Devices
<1>3. QED
  BY <1>1, <1>2

LEMMA LoadSimulationClean ==
  ASSUME ShapeInv, ReadInv, CleanInv, LoadSimulation
  PROVE  ReadInv' /\ CleanInv'
<1>. PICK entry : entry = Here("simulation")
  OBVIOUS
<1>1. /\ phase = "simulation" /\ document' = document /\ phase' = phase
      /\ read' = [read EXCEPT !["simulation"] = @ + 1]
      /\ devices' = devices
      /\ document["simulation"] # Absent
      /\ read["simulation"] < Len(document["simulation"])
  BY DEF LoadSimulation, Left
<1>2. entry \in [path : Paths, missions : Seq(Paths)] /\ Len(document["simulation"]) \in Nat
  BY <1>1, CompositionAssumption, ElementOfSequence DEF ReadInv, Here
<1>3. read'["simulation"] = read["simulation"] + 1
  BY <1>1 DEF ReadInv, Kinds
<1>4. ReadInv'
  BY <1>1, <1>2, <1>3 DEF ReadInv
<1>5. CleanInv'
  <2>1. SUFFICES ASSUME log' = {}
                 PROVE  CleanInv'
    BY DEF CleanInv
  <2>2. /\ log = {}
        /\ Lines("simulation", entry.path) = {}
        /\ LinesAt("mission", entry.missions) = {}
        /\ entry.missions # << >>
        /\ groups' = Append(groups, [simulation |-> Config("simulation", entry.path),
                                     missions |-> ConfigsAt("mission", entry.missions)])
    BY <2>1 DEF LoadSimulation
  <2>. PICK group : group = [simulation |-> Config("simulation", entry.path),
                             missions |-> ConfigsAt("mission", entry.missions)]
    OBVIOUS
  <2>3. WholeGroup(group)
    BY <1>2, <2>2, NoLinesMeansWhole, NoLinesMeansWholeAt DEF WholeGroup, Kinds
  <2>4. /\ groups' = Append(groups, group)
        /\ IsSequence(groups)
    BY <2>2 DEF ShapeInv
  <2>5. /\ DOMAIN groups = 1 .. Len(groups) /\ Len(groups) \in Nat
        /\ DOMAIN groups' = 1 .. (Len(groups) + 1)
        /\ \A g \in 1 .. Len(groups) : groups'[g] = groups[g]
        /\ groups'[Len(groups) + 1] = group
    <3>1. /\ DOMAIN Append(groups, group) = 1 .. (Len(groups) + 1)
          /\ \A g \in 1 .. Len(groups) : Append(groups, group)[g] = groups[g]
          /\ Append(groups, group)[Len(groups) + 1] = group
          /\ DOMAIN groups = 1 .. Len(groups) /\ Len(groups) \in Nat
      BY <2>4, AppendExtends
    <3>2. QED
      BY <2>4, <3>1
  <2>6. Len(groups') = Len(groups) + 1
    <3>1. IsSequence(Append(groups, group))
      BY <2>4, AppendIsSequence
    <3>2. Len(Append(groups, group)) \in Nat
          /\ DOMAIN Append(groups, group) = 1 .. Len(Append(groups, group))
      BY <3>1, AppendExtends
    <3>3. QED
      BY <2>4, <2>5, <3>2
  <2>7. \A g \in DOMAIN groups' : WholeGroup(groups'[g])
    BY <2>2, <2>3, <2>5 DEF CleanInv
  <2>8. QED
    BY <1>1, <1>3, <2>2, <2>6, <2>7 DEF CleanInv
<1>6. QED
  BY <1>4, <1>5

LEMMA LoadDeviceClean ==
  ASSUME ShapeInv, ReadInv, CleanInv, NEW kind \in Devices, LoadDevice(kind),
         read[kind] \in Nat
  PROVE  ReadInv' /\ CleanInv'
<1>. PICK path : path = Here(kind)
  OBVIOUS
<1>1. /\ phase = kind /\ UNCHANGED <<document, phase, groups>>
      /\ read' = [read EXCEPT ![kind] = @ + 1]
      /\ document[kind] # Absent /\ read[kind] < Len(document[kind])
      /\ devices' = [devices EXCEPT ![kind] = Append(@, Config(kind, path))]
      /\ log' = log \cup Lines(kind, path)
  BY DEF LoadDevice, Left
<1>2. path \in Paths
  BY <1>1, CompositionAssumption, ElementOfSequence DEF ReadInv, Here
<1>3. read'["simulation"] = read["simulation"] /\ read' = [k \in Kinds |-> read'[k]]
  BY <1>1, KindsAreDifferent DEF ReadInv
<1>4. ReadInv'
  BY <1>1, <1>3 DEF ReadInv
<1>5. CleanInv'
  <2>1. SUFFICES ASSUME log' = {}
                 PROVE  CleanInv'
    BY DEF CleanInv
  <2>2. log = {} /\ Lines(kind, path) = {}
    BY <1>1, <2>1
  <2>. PICK config : config = Config(kind, path)
    OBVIOUS
  <2>3. WholeConfig(config)
    BY <1>2, <2>2, NoLinesMeansWhole, KindsAreDifferent
  <2>4. /\ devices'[kind] = Append(devices[kind], config)
        /\ \A k \in Devices : k # kind => devices'[k] = devices[k]
        /\ IsSequence(devices[kind])
    BY <1>1 DEF ShapeInv
  <2>5. \A i \in DOMAIN Append(devices[kind], config) :
          WholeConfig(Append(devices[kind], config)[i])
    <3>1. \A i \in DOMAIN devices[kind] : WholeConfig(devices[kind][i])
      BY <2>2 DEF CleanInv
    <3>2. /\ DOMAIN devices[kind] = 1 .. Len(devices[kind]) /\ Len(devices[kind]) \in Nat
          /\ DOMAIN Append(devices[kind], config) = 1 .. (Len(devices[kind]) + 1)
          /\ \A i \in 1 .. Len(devices[kind]) :
               Append(devices[kind], config)[i] = devices[kind][i]
          /\ Append(devices[kind], config)[Len(devices[kind]) + 1] = config
      BY <2>4, AppendExtends
    <3>3. QED
      BY <2>3, <3>1, <3>2
  <2>6. \A k \in Devices : \A i \in DOMAIN devices'[k] : WholeConfig(devices'[k][i])
    BY <2>2, <2>4, <2>5 DEF CleanInv
  <2>7. QED
    BY <1>1, <1>3, <2>2, <2>6 DEF CleanInv
<1>6. QED
  BY <1>4, <1>5

LEMMA EndSectionClean ==
  ASSUME ReadInv, CleanInv, EndSection
  PROVE  ReadInv' /\ CleanInv'
<1>1. /\ UNCHANGED <<document, read, groups, devices>>
      /\ phase \in {"simulation", "drone", "lidar"} /\ ~Left(phase)
      /\ log' = log \cup (IF document[phase] = Absent THEN {Section(phase)} ELSE {})
      /\ phase' = CASE phase = "simulation" -> "drone" [] phase = "drone" -> "lidar"
                    [] OTHER -> "runs"
  BY DEF EndSection, ReadInv, Kinds
<1>2. phase' \in {"drone", "lidar", "runs"}
  BY <1>1
<1>3. ReadInv'
  BY <1>1, <1>2 DEF ReadInv
<1>4. CleanInv'
  <2>1. SUFFICES ASSUME log' = {}
                 PROVE  CleanInv'
    BY DEF CleanInv
  <2>2. log = {} /\ document[phase] # Absent
    BY <1>1, <2>1
  <2>3. phase = "simulation" => read["simulation"] = Len(document["simulation"])
    <3>1. SUFFICES ASSUME phase = "simulation"
                   PROVE  read["simulation"] = Len(document["simulation"])
      OBVIOUS
    <3>2. document["simulation"] \in Seq([path : Paths, missions : Seq(Paths)])
      BY <2>2, <3>1, CompositionAssumption DEF ReadInv
    <3>3. Len(document["simulation"]) \in Nat
      BY <3>2
    <3>4. ~(read["simulation"] < Len(document["simulation"]))
      BY <1>1, <2>2, <3>1 DEF Left
    <3>5. QED
      BY <2>2, <3>1, <3>3, <3>4 DEF ReadInv
  <2>4. CASE phase = "simulation"
    BY <1>1, <2>2, <2>3, <2>4 DEF CleanInv
  <2>5. CASE phase = "drone"
    BY <1>1, <2>2, <2>5 DEF CleanInv
  <2>6. CASE phase = "lidar"
    BY <1>1, <2>2, <2>6 DEF CleanInv
  <2>7. QED
    BY <1>1, <2>4, <2>5, <2>6
<1>5. QED
  BY <1>3, <1>4

LEMMA DevicesCounted ==
  ASSUME ReadInv, \A kind \in Devices : read[kind] \in Nat, [Next]_vars
  PROVE  \A kind \in Devices : read'[kind] \in Nat
<1>1. CASE LoadSimulation
  BY <1>1, KindsAreDifferent DEF LoadSimulation, ReadInv, Devices, Kinds
<1>2. CASE \E kind \in Devices : LoadDevice(kind)
  <2>1. PICK kind \in Devices : LoadDevice(kind)
    BY <1>2
  <2>2. read' = [read EXCEPT ![kind] = @ + 1]
    BY <2>1 DEF LoadDevice
  <2>3. SUFFICES ASSUME NEW other \in Devices
                 PROVE  read'[other] \in Nat
    OBVIOUS
  <2>4. other \in DOMAIN read /\ kind \in DOMAIN read
    BY DEF ReadInv, Devices, Kinds
  <2>5. CASE other = kind
    <3>1. read'[other] = read[kind] + 1
      BY <2>2, <2>4, <2>5
    <3>2. read[kind] \in Nat
      BY <2>1
    <3>3. QED
      BY <3>1, <3>2
  <2>6. CASE other # kind
    BY <2>2, <2>4, <2>6
  <2>7. QED
    BY <2>5, <2>6
<1>3. CASE UNCHANGED read
  BY <1>3
<1>4. EndSection \/ Write \/ Written \/ (\E i \in DOMAIN result : Run(i)) \/ UNCHANGED vars
      => UNCHANGED read
  BY DEF EndSection, Write, Written, Run, loading, vars
<1>5. QED
  BY <1>1, <1>2, <1>3, <1>4 DEF Next

CleanIInv == ReadInv /\ CleanInv /\ \A kind \in Devices : read[kind] \in Nat

LEMMA NextClean == ShapeInv /\ CleanIInv /\ [Next]_vars => CleanIInv'
<1> SUFFICES ASSUME ShapeInv, CleanIInv, [Next]_vars
             PROVE  CleanIInv'
  OBVIOUS
<1> USE DEF CleanIInv
<1>1. \A kind \in Devices : read'[kind] \in Nat
  BY DevicesCounted
<1>2. CASE LoadSimulation
  BY <1>1, <1>2, LoadSimulationClean
<1>3. CASE \E kind \in Devices : LoadDevice(kind)
  <2>1. PICK kind \in Devices : LoadDevice(kind)
    BY <1>3
  <2>2. read[kind] \in Nat
    BY <2>1
  <2>3. QED
    BY <1>1, <2>1, <2>2, LoadDeviceClean
<1>4. CASE EndSection
  BY <1>1, <1>4, EndSectionClean
<1>5. CASE (\E i \in DOMAIN result : Run(i)) \/ UNCHANGED <<phase, loading>>
  <2>1. UNCHANGED <<phase, loading>>
    BY <1>5 DEF Run
  <2>2. QED
    BY <1>1, <2>1 DEF loading, ReadInv, CleanInv
<1>6. CASE Write
  BY <1>1, <1>6 DEF Write, loading, ReadInv, CleanInv
<1>7. Written \/ UNCHANGED vars => UNCHANGED <<phase, loading>>
  BY DEF Written, vars, loading
<1>8. QED
  BY <1>2, <1>3, <1>4, <1>5, <1>6, <1>7 DEF Next

(* An empty log means that no simulation was left out, no section was       *)
(* missing, and nothing that will be flown is a default nobody heard of     *)
(* (CompositionLoader.cpp, the notes on readScalar).                        *)
THEOREM CleanLogMeansCleanLoadHolds == Spec => []CleanLogMeansCleanLoad
<1>1. Init => CleanIInv
  BY InitClean, KindsAreDifferent DEF Init, CleanIInv
<1>2. CleanIInv => CleanLogMeansCleanLoad
  <2> SUFFICES ASSUME CleanIInv, phase = "runs", log = {}
               PROVE  CleanLogMeansCleanLoad
    BY DEF CleanLogMeansCleanLoad
  <2>1. \A kind \in Kinds \ {"mission"} : document[kind] # Absent
    BY DEF CleanIInv, CleanInv, Kinds
  <2>2. QED
    BY <2>1 DEF CleanIInv, CleanInv, WholeGroup, CleanLogMeansCleanLoad
<1>3. IInv => ShapeInv
  BY DEF IInv
<1>4. QED
  BY <1>1, <1>2, <1>3, InitIInv, NextIInv, NextClean, PTL DEF Spec

-----------------------------------------------------------------------------
(* Every set of naturals that is not empty has a least element.             *)
LEMMA LeastNat ==
  ASSUME NEW T, T \subseteq Nat, T # {}
  PROVE  \E n \in T : \A m \in T : n <= m
<1>1. IsWellFoundedOn({p \in Nat \X Nat : p[1] < p[2]}, Nat)
  BY NatLessThanWellFounded DEF OpToRel
<1>2. PICK n \in T : \A m \in T : ~(<<m, n>> \in {p \in Nat \X Nat : p[1] < p[2]})
  BY <1>1, WFMin
<1>3. \A m \in T : ~(m < n)
  BY <1>2
<1>4. QED
  BY <1>3

(* Induction, for a set: what holds of the first and of each successor.     *)
LEMMA Onward ==
  ASSUME NEW first \in {0, 1}, NEW n \in Nat, NEW T, first \in T,
         \A k \in first .. n : k \in T /\ k < n => k + 1 \in T
  PROVE  \A k \in first .. n : k \in T
<1>. PICK outside : outside = {k \in first .. n : k \notin T}
  OBVIOUS
<1>1. SUFFICES ASSUME outside # {} PROVE FALSE
  OBVIOUS
<1>2. PICK k \in outside : \A m \in outside : k <= m
  <2>1. outside \subseteq Nat
    OBVIOUS
  <2>2. QED
    BY <1>1, <2>1, LeastNat
<1>3. k \in first .. n /\ k \notin T /\ k # first
  OBVIOUS
<1>4. PICK m \in first .. n : m < n /\ m + 1 = k
  <2>1. k - 1 \in first .. n /\ k - 1 < n /\ k - 1 + 1 = k
    BY <1>3
  <2>2. QED
    BY <2>1
<1>5. m \notin outside
  BY <1>2, <1>3, <1>4
<1>6. m \in T
  BY <1>5
<1>7. QED
  BY <1>3, <1>4, <1>6

(* The recursion of FlattenSeq, as an equation between functions.           *)
Flattens(w, seqs, n) ==
  w = [i \in 1 .. n |-> IF i = 1 THEN seqs[i] ELSE w[i - 1] \o seqs[i]]

LEMMA FlattensAt ==
  ASSUME NEW n \in Nat, NEW seqs, NEW w, Flattens(w, seqs, n), NEW k \in 1 .. n
  PROVE  w[k] = IF k = 1 THEN seqs[k] ELSE w[k - 1] \o seqs[k]
<1>1. w = [i \in 1 .. n |-> IF i = 1 THEN seqs[i] ELSE w[i - 1] \o seqs[i]]
  BY DEF Flattens
<1>. PICK f : f = [i \in 1 .. n |-> IF i = 1 THEN seqs[i] ELSE w[i - 1] \o seqs[i]]
  OBVIOUS
<1>2. f[k] = IF k = 1 THEN seqs[k] ELSE w[k - 1] \o seqs[k]
  OBVIOUS
<1>3. QED
  BY <1>1, <1>2

LEMMA FlattensFrom ==
  ASSUME NEW n \in Nat, NEW seqs, NEW w, w = [i \in 1 .. n |-> w[i]],
         \A i \in 1 .. n : w[i] = IF i = 1 THEN seqs[i] ELSE w[i - 1] \o seqs[i]
  PROVE  Flattens(w, seqs, n)
BY DEF Flattens

LEMMA FlattensOneMore ==
  ASSUME NEW k \in Nat \ {0}, NEW seqs, NEW v, Flattens(v, seqs, k)
  PROVE  \E w : Flattens(w, seqs, k + 1)
<1>. PICK more \in Nat : more = k + 1
  OBVIOUS
<1>. PICK w : w = [i \in 1 .. more |-> IF i = more THEN v[k] \o seqs[i] ELSE v[i]]
  OBVIOUS
<1>1. w = [i \in 1 .. more |-> w[i]]
  OBVIOUS
<1>2. w[more] = v[k] \o seqs[more] /\ \A i \in 1 .. k : w[i] = v[i]
  <2>1. more \in 1 .. more /\ \A i \in 1 .. k : i \in 1 .. more /\ i # more
    OBVIOUS
  <2>2. QED
    BY <2>1
<1>3. ASSUME NEW i \in 1 .. more
      PROVE  w[i] = IF i = 1 THEN seqs[i] ELSE w[i - 1] \o seqs[i]
  <2>1. CASE i = more
    <3>1. i # 1 /\ i - 1 = k /\ k \in 1 .. k
      BY <2>1
    <3>2. w[i] = v[k] \o seqs[i] /\ w[k] = v[k]
      BY <1>2, <2>1, <3>1
    <3>3. QED
      BY <3>1, <3>2
  <2>2. CASE i # more
    <3>1. i \in 1 .. k
      BY <2>2
    <3>2. v[i] = IF i = 1 THEN seqs[i] ELSE v[i - 1] \o seqs[i]
      BY <3>1, FlattensAt
    <3>3. i # 1 => i - 1 \in 1 .. k
      BY <3>1
    <3>4. w[i] = v[i] /\ (i # 1 => w[i - 1] = v[i - 1])
      BY <1>2, <3>1, <3>3
    <3>5. QED
      BY <3>2, <3>4
  <2>3. QED
    BY <2>1, <2>2
<1>4. \A i \in 1 .. more : w[i] = IF i = 1 THEN seqs[i] ELSE w[i - 1] \o seqs[i]
  BY <1>3
<1>5. Flattens(w, seqs, more)
  BY ONLY more \in Nat, <1>1, <1>4, FlattensFrom
<1>6. QED
  BY <1>5

LEMMA FlattensExist ==
  ASSUME NEW n \in Nat \ {0}, NEW seqs
  PROVE  \E w : Flattens(w, seqs, n)
<1>. DEFINE with == {k \in Nat : \E w : Flattens(w, seqs, k)}
<1>1. 1 \in with
  <2>. PICK w : w = [i \in 1 .. 1 |-> seqs[i]]
    OBVIOUS
  <2>1. /\ w = [i \in 1 .. 1 |-> w[i]]
        /\ \A i \in 1 .. 1 : w[i] = IF i = 1 THEN seqs[i] ELSE w[i - 1] \o seqs[i]
    OBVIOUS
  <2>2. Flattens(w, seqs, 1)
    BY <2>1, FlattensFrom
  <2>3. QED
    BY <2>2
<1>2. ASSUME NEW k \in 1 .. n, k \in with
      PROVE  k + 1 \in with
  <2>1. PICK v : Flattens(v, seqs, k)
    BY <1>2
  <2>2. \E w : Flattens(w, seqs, k + 1)
    BY <2>1, FlattensOneMore
  <2>3. QED
    BY <2>2
<1>3. \A k \in 1 .. n : k \in with /\ k < n => k + 1 \in with
  BY <1>2
<1>. HIDE DEF with
<1>4. \A k \in 1 .. n : k \in with
  BY <1>1, <1>3, Onward
<1>5. QED
  BY <1>4 DEF with

LEMMA FlattenIs ==
  ASSUME NEW seqs, NEW n \in Nat \ {0}, Len(seqs) = n
  PROVE  \E w : Flattens(w, seqs, n) /\ FlattenSeq(seqs) = w[n]
<1>. DEFINE w == CHOOSE w : w = [i \in 1 .. n |->
                                  IF i = 1 THEN seqs[i] ELSE w[i - 1] \o seqs[i]]
<1>1. \E x : x = [i \in 1 .. n |-> IF i = 1 THEN seqs[i] ELSE x[i - 1] \o seqs[i]]
  BY FlattensExist DEF Flattens
<1>2. w = [i \in 1 .. n |-> IF i = 1 THEN seqs[i] ELSE w[i - 1] \o seqs[i]]
  BY <1>1
<1>3. FlattenSeq(seqs) = w[n]
  BY DEF FlattenSeq
<1>. HIDE DEF w
<1>4. Flattens(w, seqs, n)
  BY <1>2 DEF Flattens
<1>5. QED
  BY <1>3, <1>4

LEMMA SubsetSequences ==
  ASSUME NEW S, NEW T, S \subseteq T, NEW s \in Seq(S)
  PROVE  s \in Seq(T)
OBVIOUS

LEMMA ElementsOfSequence ==
  ASSUME NEW S, NEW s \in Seq(S)
  PROVE  /\ Len(s) \in Nat /\ DOMAIN s = 1 .. Len(s)
         /\ \A i \in DOMAIN s : s[i] \in S
OBVIOUS

LEMMA ConcatFacts ==
  ASSUME NEW S, NEW s \in Seq(S), NEW t \in Seq(S)
  PROVE  /\ s \o t \in Seq(S) /\ Len(s \o t) = Len(s) + Len(t)
         /\ \A i \in 1 .. Len(s) : (s \o t)[i] = s[i]
         /\ \A i \in 1 .. Len(t) : (s \o t)[Len(s) + i] = t[i]
OBVIOUS

(* Each element once. *)
Distinct(s) == \A i, j \in DOMAIN s : s[i] = s[j] => i = j

(* Two sequences of distinct elements with none in common. *)
LEMMA ConcatDistinct ==
  ASSUME NEW S, NEW s \in Seq(S), NEW t \in Seq(S), Distinct(s), Distinct(t),
         \A i \in DOMAIN s, j \in DOMAIN t : s[i] # t[j]
  PROVE  Distinct(s \o t)
<1>1. /\ Len(s) \in Nat /\ DOMAIN s = 1 .. Len(s)
      /\ Len(t) \in Nat /\ DOMAIN t = 1 .. Len(t)
      /\ DOMAIN (s \o t) = 1 .. Len(s) + Len(t)
  BY ConcatFacts
<1>2. SUFFICES ASSUME NEW i \in 1 .. Len(s) + Len(t), NEW j \in 1 .. Len(s) + Len(t),
                      (s \o t)[i] = (s \o t)[j]
               PROVE  i = j
  BY <1>1 DEF Distinct
<1>3. ASSUME NEW k \in 1 .. Len(s) + Len(t)
      PROVE  \/ k \in 1 .. Len(s) /\ (s \o t)[k] = s[k]
             \/ \E m \in 1 .. Len(t) : k = Len(s) + m /\ (s \o t)[k] = t[m]
  <2>1. CASE k \in 1 .. Len(s)
    BY <2>1, ConcatFacts
  <2>2. CASE k \notin 1 .. Len(s)
    <3>1. PICK m \in 1 .. Len(t) : k = Len(s) + m
      <4>1. k - Len(s) \in 1 .. Len(t) /\ k = Len(s) + (k - Len(s))
        BY <1>1, <2>2
      <4>2. QED
        BY <4>1
    <3>2. (s \o t)[k] = t[m]
      BY <1>1, <3>1, ConcatFacts
    <3>3. QED
      BY <3>1, <3>2
  <2>3. QED
    BY <2>1, <2>2
<1>4. CASE i \in 1 .. Len(s) /\ j \in 1 .. Len(s)
  BY <1>1, <1>2, <1>4, ConcatFacts DEF Distinct
<1>5. CASE i \notin 1 .. Len(s) /\ j \notin 1 .. Len(s)
  <2>1. PICK m \in 1 .. Len(t) : i = Len(s) + m /\ (s \o t)[i] = t[m]
    BY <1>3, <1>5
  <2>2. PICK n \in 1 .. Len(t) : j = Len(s) + n /\ (s \o t)[j] = t[n]
    BY <1>3, <1>5
  <2>3. m = n
    BY <1>1, <1>2, <2>1, <2>2 DEF Distinct
  <2>4. QED
    BY <2>1, <2>2, <2>3
<1>6. CASE i \in 1 .. Len(s) /\ j \notin 1 .. Len(s)
  <2>1. PICK n \in 1 .. Len(t) : (s \o t)[j] = t[n]
    BY <1>3, <1>6
  <2>2. (s \o t)[i] = s[i]
    BY <1>6, ConcatFacts
  <2>3. QED
    BY <1>1, <1>2, <1>6, <2>1, <2>2
<1>7. CASE i \notin 1 .. Len(s) /\ j \in 1 .. Len(s)
  <2>1. PICK n \in 1 .. Len(t) : (s \o t)[i] = t[n]
    BY <1>3, <1>7
  <2>2. (s \o t)[j] = s[j]
    BY <1>7, ConcatFacts
  <2>3. QED
    BY <1>1, <1>2, <1>7, <2>1, <2>2
<1>8. QED
  BY <1>4, <1>5, <1>6, <1>7

(* Flattening keeps the elements, and keeps them distinct if no two parts   *)
(* have one in common.                                                      *)
LEMMA FlattenType ==
  ASSUME NEW S, NEW seqs, IsSequence(seqs), \A i \in 1 .. Len(seqs) : seqs[i] \in Seq(S)
  PROVE  FlattenSeq(seqs) \in Seq(S)
<1>1. CASE Len(seqs) = 0
  <2>1. seqs = << >>
    BY <1>1 DEF IsSequence
  <2>2. FlattenSeq(seqs) = << >>
    BY <1>1, <2>1 DEF FlattenSeq
  <2>3. QED
    BY <2>2
<1>2. CASE Len(seqs) # 0
  <2>1. PICK n \in Nat \ {0} : n = Len(seqs)
    BY <1>2 DEF IsSequence
  <2>2. PICK w : Flattens(w, seqs, n) /\ FlattenSeq(seqs) = w[n]
    BY <2>1, FlattenIs
  <2>. PICK fine : fine = {k \in 1 .. n : w[k] \in Seq(S)}
    OBVIOUS
  <2>3. 1 \in fine
    <3>1. 1 \in 1 .. n
      OBVIOUS
    <3>2. w[1] = seqs[1]
      BY <2>2, <3>1, FlattensAt
    <3>3. QED
      BY <2>1, <3>1, <3>2
  <2>4. ASSUME NEW k \in 1 .. n, k \in fine, k < n
        PROVE  k + 1 \in fine
    <3>1. PICK m \in 1 .. n : m = k + 1 /\ m # 1 /\ m - 1 = k
      BY <2>4
    <3>2. w[m] = w[k] \o seqs[m]
      <4>1. n \in Nat /\ Flattens(w, seqs, n)
        BY <2>2
      <4>2. w[m] = IF m = 1 THEN seqs[m] ELSE w[m - 1] \o seqs[m]
        BY ONLY <4>1, m \in 1 .. n, FlattensAt
      <4>3. QED
        BY <3>1, <4>2
    <3>3. w[k] \in Seq(S) /\ seqs[m] \in Seq(S)
      BY <2>1, <2>4
    <3>4. QED
      <4>1. w[m] \in Seq(S)
        BY <3>2, <3>3, ConcatFacts
      <4>2. QED
        BY <3>1, <4>1
  <2>5. \A k \in 1 .. n : k \in fine /\ k < n => k + 1 \in fine
    BY <2>4
  <2>6. n \in fine
    <3>1. \A k \in 1 .. n : k \in fine
      BY ONLY n \in Nat \ {0}, <2>3, <2>5, Onward
    <3>2. QED
      BY <3>1
  <2>7. QED
    BY <2>2, <2>6
<1>3. QED
  BY <1>1, <1>2

LEMMA FlattenDistinct ==
  ASSUME NEW S, NEW seqs, IsSequence(seqs),
         \A i \in 1 .. Len(seqs) : seqs[i] \in Seq(S) /\ Distinct(seqs[i]),
         \A i, j \in 1 .. Len(seqs) : i # j =>
           \A a \in DOMAIN seqs[i], b \in DOMAIN seqs[j] : seqs[i][a] # seqs[j][b]
  PROVE  Distinct(FlattenSeq(seqs))
<1>1. CASE Len(seqs) = 0
  <2>1. seqs = << >>
    BY <1>1 DEF IsSequence
  <2>2. FlattenSeq(seqs) = << >>
    BY <1>1, <2>1 DEF FlattenSeq
  <2>3. QED
    BY <2>2 DEF Distinct
<1>2. CASE Len(seqs) # 0
  <2>1. PICK n \in Nat \ {0} : n = Len(seqs)
    BY <1>2 DEF IsSequence
  <2>2. PICK w : Flattens(w, seqs, n) /\ FlattenSeq(seqs) = w[n]
    BY <2>1, FlattenIs
  <2>. DEFINE From(k) == \A a \in DOMAIN w[k] :
                           \E i \in 1 .. k : \E b \in DOMAIN seqs[i] : w[k][a] = seqs[i][b]
  <2>. PICK fine : fine = {k \in 1 .. n : w[k] \in Seq(S) /\ Distinct(w[k]) /\ From(k)}
    OBVIOUS
  <2>3. 1 \in fine
    <3>1. 1 \in 1 .. n
      OBVIOUS
    <3>2. w[1] = seqs[1]
      BY <2>2, <3>1, FlattensAt
    <3>3. QED
      BY <2>1, <3>1, <3>2
  <2>4. ASSUME NEW k \in 1 .. n, k \in fine, k < n
        PROVE  k + 1 \in fine
    <3>1. PICK m \in 1 .. n : m = k + 1 /\ m # 1 /\ m - 1 = k
      BY <2>4
    <3>2. w[m] = w[k] \o seqs[m]
      <4>1. n \in Nat /\ Flattens(w, seqs, n)
        BY <2>2
      <4>2. w[m] = IF m = 1 THEN seqs[m] ELSE w[m - 1] \o seqs[m]
        BY ONLY <4>1, m \in 1 .. n, FlattensAt
      <4>3. QED
        BY <3>1, <4>2
    <3>3. /\ w[k] \in Seq(S) /\ seqs[m] \in Seq(S) /\ Distinct(w[k]) /\ Distinct(seqs[m])
          /\ From(k)
      BY <2>1, <2>4
    <3>4. \A a \in DOMAIN w[k], b \in DOMAIN seqs[m] : w[k][a] # seqs[m][b]
      <4>1. TAKE a \in DOMAIN w[k], b \in DOMAIN seqs[m]
      <4>2. PICK i \in 1 .. k : \E c \in DOMAIN seqs[i] : w[k][a] = seqs[i][c]
        BY <3>3
      <4>3. i \in 1 .. Len(seqs) /\ m \in 1 .. Len(seqs) /\ i # m
        BY <2>1, <3>1
      <4>4. QED
        BY <4>2, <4>3
    <3>5. w[m] \in Seq(S) /\ Distinct(w[m])
      BY <3>2, <3>3, <3>4, ConcatFacts, ConcatDistinct
    <3>6. From(m)
      <4>1. ASSUME NEW a \in DOMAIN w[m]
            PROVE  \E i \in 1 .. m : \E b \in DOMAIN seqs[i] : w[m][a] = seqs[i][b]
        <5>1. /\ Len(w[k]) \in Nat /\ DOMAIN w[k] = 1 .. Len(w[k])
              /\ Len(seqs[m]) \in Nat /\ DOMAIN seqs[m] = 1 .. Len(seqs[m])
              /\ DOMAIN w[m] = 1 .. Len(w[k]) + Len(seqs[m])
          BY <3>2, <3>3, <3>5, ConcatFacts
        <5>2. CASE a \in 1 .. Len(w[k])
          <6>1. w[m][a] = w[k][a]
            BY <3>2, <3>3, <5>2, ConcatFacts
          <6>2. PICK i \in 1 .. k : \E b \in DOMAIN seqs[i] : w[k][a] = seqs[i][b]
            BY <3>3, <5>1, <5>2
          <6>3. i \in 1 .. m
            BY <3>1
          <6>4. QED
            BY <6>1, <6>2, <6>3
        <5>3. CASE a \notin 1 .. Len(w[k])
          <6>1. PICK b \in 1 .. Len(seqs[m]) : a = Len(w[k]) + b
            <7>. PICK p \in Nat, q \in Nat : p = Len(w[k]) /\ q = Len(seqs[m])
              BY <5>1
            <7>1. a \in 1 .. p + q /\ a \notin 1 .. p
              BY <5>1, <5>3
            <7>2. a - p \in 1 .. q /\ a = p + (a - p)
              BY ONLY <7>1, p \in Nat, q \in Nat
            <7>3. QED
              BY <7>2
          <6>2. w[m][a] = seqs[m][b]
            BY <3>2, <3>3, <6>1, ConcatFacts
          <6>3. m \in 1 .. m /\ b \in DOMAIN seqs[m]
            BY <5>1
          <6>4. QED
            BY <6>2, <6>3
        <5>4. QED
          BY <5>2, <5>3
      <4>2. QED
        BY <4>1
    <3>7. m \in fine
      BY <3>5, <3>6
    <3>8. QED
      BY <3>1, <3>7
  <2>5. \A k \in 1 .. n : k \in fine /\ k < n => k + 1 \in fine
    BY <2>4
  <2>6. n \in fine
    <3>1. \A k \in 1 .. n : k \in fine
      BY ONLY n \in Nat \ {0}, <2>3, <2>5, Onward
    <3>2. QED
      BY <3>1
  <2>7. QED
    BY <2>2, <2>6
<1>3. QED
  BY <1>1, <1>2

-----------------------------------------------------------------------------
(* The runs, by the loops that expand them.                                 *)

LidarRuns(g, m, d, lidars) ==
  [l \in DOMAIN lidars |-> [simulation |-> g, mission |-> m, drone |-> d, lidar |-> l]]
DroneRuns(g, m, drones, lidars) ==
  FlattenSeq([d \in DOMAIN drones |-> LidarRuns(g, m, d, lidars)])
MissionRuns(g, missions, drones, lidars) ==
  FlattenSeq([m \in DOMAIN missions |-> DroneRuns(g, m, drones, lidars)])

LEMMA RunsByLoop ==
  ASSUME NEW group, NEW drones, NEW lidars
  PROVE  RunsOf(group, drones, lidars) =
           FlattenSeq([g \in DOMAIN group |-> MissionRuns(g, group[g], drones, lidars)])
BY DEF RunsOf, MissionRuns, DroneRuns, LidarRuns

(* The places depend on nothing but the shape of what they are places in.   *)
LEMMA RunsByShape ==
  ASSUME NEW group, NEW drones, NEW lidars, NEW groupB, NEW dronesB, NEW lidarsB,
         DOMAIN group = DOMAIN groupB, \A g \in DOMAIN group : DOMAIN group[g] = DOMAIN groupB[g],
         DOMAIN drones = DOMAIN dronesB, DOMAIN lidars = DOMAIN lidarsB
  PROVE  RunsOf(group, drones, lidars) = RunsOf(groupB, dronesB, lidarsB)
<1>1. \A g, m, d : LidarRuns(g, m, d, lidars) = LidarRuns(g, m, d, lidarsB)
  BY DEF LidarRuns
<1>2. \A g, m : DroneRuns(g, m, drones, lidars) = DroneRuns(g, m, dronesB, lidarsB)
  <2>1. TAKE g, m
  <2>2. [d \in DOMAIN drones |-> LidarRuns(g, m, d, lidars)] =
        [d \in DOMAIN dronesB |-> LidarRuns(g, m, d, lidarsB)]
    BY <1>1
  <2>3. QED
    BY <2>2 DEF DroneRuns
<1>3. \A g \in DOMAIN group :
        MissionRuns(g, group[g], drones, lidars) = MissionRuns(g, groupB[g], dronesB, lidarsB)
  <2>1. TAKE g \in DOMAIN group
  <2>2. [m \in DOMAIN group[g] |-> DroneRuns(g, m, drones, lidars)] =
        [m \in DOMAIN groupB[g] |-> DroneRuns(g, m, dronesB, lidarsB)]
    BY <1>2
  <2>3. QED
    BY <2>2 DEF MissionRuns
<1>4. [g \in DOMAIN group |-> MissionRuns(g, group[g], drones, lidars)] =
      [g \in DOMAIN groupB |-> MissionRuns(g, groupB[g], dronesB, lidarsB)]
  BY <1>3
<1>5. QED
  BY <1>4, RunsByLoop

(* What the paths tell of the runs is what is expanded.                     *)
LEMMA PlacesAreTheRuns == ASSUME PathsStayAligned PROVE PlacesByPath = Enumerate
<1>. PICK missions : missions = [g \in DOMAIN groups |-> groups[g].missions]
  OBVIOUS
<1>1. DOMAIN missions = DOMAIN paths["mission"]
  BY DEF PathsStayAligned
<1>2. \A g \in DOMAIN missions : DOMAIN missions[g] = DOMAIN paths["mission"][g]
  BY DEF PathsStayAligned, Aligned
<1>3. /\ DOMAIN devices["drone"] = DOMAIN paths["drone"]
      /\ DOMAIN devices["lidar"] = DOMAIN paths["lidar"]
  BY DEF PathsStayAligned, Aligned, Devices
<1>4. RunsOf(missions, devices["drone"], devices["lidar"]) =
      RunsOf(paths["mission"], paths["drone"], paths["lidar"])
  BY <1>1, <1>2, <1>3, RunsByShape
<1>5. QED
  BY <1>4 DEF PlacesByPath, Enumerate

(* The places of a composition.                                             *)
Places(group, drones, lidars) ==
  {place \in [simulation : DOMAIN group, mission : Nat, drone : DOMAIN drones,
              lidar : DOMAIN lidars] : place.mission \in DOMAIN group[place.simulation]}

LEMMA FunctionsAreSequences ==
  ASSUME NEW n \in Nat, NEW S, NEW f, f = [i \in 1 .. n |-> f[i]], \A i \in 1 .. n : f[i] \in S
  PROVE  f \in Seq(S) /\ Len(f) = n /\ IsSequence(f)
<1>1. f \in [1 .. n -> S]
  OBVIOUS
<1>2. f \in Seq(S) /\ Len(f) = n
  BY <1>1
<1>3. QED
  BY <1>2, SequencesAreSequences

(* Sequences from parts that have nothing in common.                        *)
LEMMA FlattenApart ==
  ASSUME NEW n \in Nat, NEW S, NEW part, NEW f, f = [i \in 1 .. n |-> f[i]],
         \A i \in 1 .. n : part[i] \subseteq S,
         \A i, j \in 1 .. n : i # j => part[i] \cap part[j] = {},
         \A i \in 1 .. n : f[i] \in Seq(part[i]) /\ Distinct(f[i])
  PROVE  FlattenSeq(f) \in Seq(S) /\ Distinct(FlattenSeq(f))
<1>1. \A i \in 1 .. n : f[i] \in Seq(S)
  <2>1. TAKE i \in 1 .. n
  <2>2. part[i] \subseteq S /\ f[i] \in Seq(part[i])
    OBVIOUS
  <2>3. QED
    BY ONLY <2>2, SubsetSequences
<1>2. IsSequence(f) /\ Len(f) = n
  <2>. PICK T : T = Seq(S)
    OBVIOUS
  <2>1. \A i \in 1 .. n : f[i] \in T
    BY <1>1
  <2>2. QED
    BY ONLY n \in Nat, f = [i \in 1 .. n |-> f[i]], <2>1, FunctionsAreSequences
<1>3. ASSUME NEW i \in 1 .. n, NEW j \in 1 .. n, i # j
      PROVE  \A a \in DOMAIN f[i], b \in DOMAIN f[j] : f[i][a] # f[j][b]
  <2>. PICK s, t, P, Q : s = f[i] /\ t = f[j] /\ P = part[i] /\ Q = part[j]
    OBVIOUS
  <2>1. s \in Seq(P) /\ t \in Seq(Q) /\ P \cap Q = {}
    BY <1>3
  <2>2. (\A a \in DOMAIN s : s[a] \in P) /\ (\A b \in DOMAIN t : t[b] \in Q)
    BY ONLY <2>1, ElementsOfSequence
  <2>3. QED
    BY <2>1, <2>2
<1>4. \A i, j \in 1 .. n : i # j =>
        \A a \in DOMAIN f[i], b \in DOMAIN f[j] : f[i][a] # f[j][b]
  BY <1>3
<1>5. \A i \in 1 .. Len(f) : f[i] \in Seq(S) /\ Distinct(f[i])
  BY <1>1, <1>2
<1>6. \A i, j \in 1 .. Len(f) : i # j =>
        \A a \in DOMAIN f[i], b \in DOMAIN f[j] : f[i][a] # f[j][b]
  BY <1>2, <1>4
<1>7. FlattenSeq(f) \in Seq(S)
  BY ONLY <1>2, <1>5, FlattenType
<1>8. Distinct(FlattenSeq(f))
  BY ONLY <1>2, <1>5, <1>6, FlattenDistinct
<1>9. QED
  BY <1>7, <1>8

(* Every run is at a place of its own.                                      *)
LEMMA RunsAreDistinctPlaces ==
  ASSUME NEW group, NEW drones, NEW lidars,
         IsSequence(group), \A g \in DOMAIN group : IsSequence(group[g]),
         IsSequence(drones), IsSequence(lidars)
  PROVE  /\ RunsOf(group, drones, lidars) \in Seq(Places(group, drones, lidars))
         /\ Distinct(RunsOf(group, drones, lidars))
<1>. PICK all : all = Places(group, drones, lidars)
  OBVIOUS
<1>1. /\ Len(group) \in Nat /\ DOMAIN group = 1 .. Len(group)
      /\ Len(drones) \in Nat /\ DOMAIN drones = 1 .. Len(drones)
      /\ Len(lidars) \in Nat /\ DOMAIN lidars = 1 .. Len(lidars)
      /\ \A g \in DOMAIN group : Len(group[g]) \in Nat /\ DOMAIN group[g] = 1 .. Len(group[g])
  BY AppendExtends
<1>2. ASSUME NEW g \in DOMAIN group, NEW m \in DOMAIN group[g], NEW d \in DOMAIN drones
      PROVE  /\ LidarRuns(g, m, d, lidars) \in
                  Seq({place \in all : /\ place.simulation = g /\ place.mission = m
                                       /\ place.drone = d})
             /\ Distinct(LidarRuns(g, m, d, lidars))
  <2>. PICK n \in Nat : n = Len(lidars) /\ DOMAIN lidars = 1 .. n
    BY <1>1
  <2>. PICK f : f = [l \in 1 .. n |->
                       [simulation |-> g, mission |-> m, drone |-> d, lidar |-> l]]
    OBVIOUS
  <2>. PICK here : here = {place \in all : place.simulation = g /\ place.mission = m
                                           /\ place.drone = d}
    OBVIOUS
  <2>1. f = LidarRuns(g, m, d, lidars)
    BY DEF LidarRuns
  <2>2. m \in Nat
    BY <1>1
  <2>3. \A l \in 1 .. n : f[l] \in here
    <3>1. TAKE l \in 1 .. n
    <3>2. PICK place : place = [simulation |-> g, mission |-> m, drone |-> d, lidar |-> l]
      OBVIOUS
    <3>3. /\ place \in [simulation : DOMAIN group, mission : Nat, drone : DOMAIN drones,
                        lidar : DOMAIN lidars]
          /\ place.simulation = g /\ place.mission = m /\ place.drone = d
      BY <2>2, <3>2
    <3>4. place \in here
      BY <3>3 DEF Places
    <3>5. f[l] = place
      BY <3>2
    <3>6. QED
      BY <3>4, <3>5
  <2>4. f \in Seq(here)
    <3>1. f = [l \in 1 .. n |-> f[l]]
      OBVIOUS
    <3>2. QED
      BY ONLY n \in Nat, <2>3, <3>1, FunctionsAreSequences
  <2>5. Distinct(f)
    <3>1. DOMAIN f = 1 .. n /\ \A l \in 1 .. n : f[l].lidar = l
      OBVIOUS
    <3>2. QED
      BY ONLY <3>1 DEF Distinct
  <2>6. QED
    BY <2>1, <2>4, <2>5
<1>3. ASSUME NEW g \in DOMAIN group, NEW m \in DOMAIN group[g]
      PROVE  /\ DroneRuns(g, m, drones, lidars) \in
                  Seq({place \in all : place.simulation = g /\ place.mission = m})
             /\ Distinct(DroneRuns(g, m, drones, lidars))
  <2>. PICK n \in Nat : n = Len(drones) /\ DOMAIN drones = 1 .. n
    BY <1>1
  <2>. PICK f : f = [i \in 1 .. n |-> LidarRuns(g, m, i, lidars)]
    OBVIOUS
  <2>. PICK here : here = {place \in all : place.simulation = g /\ place.mission = m}
    OBVIOUS
  <2>. PICK part : part = [i \in 1 .. n |-> {place \in here : place.drone = i}]
    OBVIOUS
  <2>1. f = [i \in 1 .. n |-> f[i]] /\ \A i \in 1 .. n : f[i] = LidarRuns(g, m, i, lidars)
    OBVIOUS
  <2>2. \A i \in 1 .. n :
          part[i] = {place \in all : /\ place.simulation = g /\ place.mission = m
                                     /\ place.drone = i}
    OBVIOUS
  <2>3. \A i \in 1 .. n : f[i] \in Seq(part[i]) /\ Distinct(f[i])
    <3>1. TAKE i \in 1 .. n
    <3>2. i \in DOMAIN drones
      OBVIOUS
    <3>3. /\ LidarRuns(g, m, i, lidars) \in
               Seq({place \in all : place.simulation = g /\ place.mission = m /\ place.drone = i})
          /\ Distinct(LidarRuns(g, m, i, lidars))
      BY <1>2, <3>2
    <3>4. QED
      BY <2>1, <2>2, <3>3
  <2>4. /\ \A i \in 1 .. n : part[i] \subseteq here
        /\ \A i, j \in 1 .. n : i # j => part[i] \cap part[j] = {}
    OBVIOUS
  <2>5. FlattenSeq(f) \in Seq(here) /\ Distinct(FlattenSeq(f))
    BY ONLY n \in Nat, <2>1, <2>3, <2>4, FlattenApart
  <2>6. QED
    BY <2>5 DEF DroneRuns
<1>4. ASSUME NEW g \in DOMAIN group
      PROVE  /\ MissionRuns(g, group[g], drones, lidars) \in
                  Seq({place \in all : place.simulation = g})
             /\ Distinct(MissionRuns(g, group[g], drones, lidars))
  <2>. PICK n \in Nat : n = Len(group[g]) /\ DOMAIN group[g] = 1 .. n
    BY <1>1
  <2>. PICK f : f = [i \in 1 .. n |-> DroneRuns(g, i, drones, lidars)]
    OBVIOUS
  <2>. PICK here : here = {place \in all : place.simulation = g}
    OBVIOUS
  <2>. PICK part : part = [i \in 1 .. n |-> {place \in here : place.mission = i}]
    OBVIOUS
  <2>1. f = [i \in 1 .. n |-> f[i]] /\ \A i \in 1 .. n : f[i] = DroneRuns(g, i, drones, lidars)
    OBVIOUS
  <2>2. \A i \in 1 .. n : part[i] = {place \in all : place.simulation = g /\ place.mission = i}
    OBVIOUS
  <2>3. \A i \in 1 .. n : f[i] \in Seq(part[i]) /\ Distinct(f[i])
    <3>1. TAKE i \in 1 .. n
    <3>2. i \in DOMAIN group[g]
      OBVIOUS
    <3>3. /\ DroneRuns(g, i, drones, lidars) \in
               Seq({place \in all : place.simulation = g /\ place.mission = i})
          /\ Distinct(DroneRuns(g, i, drones, lidars))
      BY <1>3, <3>2
    <3>4. QED
      BY <2>1, <2>2, <3>3
  <2>4. /\ \A i \in 1 .. n : part[i] \subseteq here
        /\ \A i, j \in 1 .. n : i # j => part[i] \cap part[j] = {}
    OBVIOUS
  <2>5. FlattenSeq(f) \in Seq(here) /\ Distinct(FlattenSeq(f))
    BY ONLY n \in Nat, <2>1, <2>3, <2>4, FlattenApart
  <2>6. QED
    BY <2>5 DEF MissionRuns
<1>5. /\ FlattenSeq([g \in DOMAIN group |-> MissionRuns(g, group[g], drones, lidars)]) \in Seq(all)
      /\ Distinct(FlattenSeq([g \in DOMAIN group |-> MissionRuns(g, group[g], drones, lidars)]))
  <2>. PICK n \in Nat : n = Len(group) /\ DOMAIN group = 1 .. n
    BY <1>1
  <2>. PICK f : f = [i \in 1 .. n |-> MissionRuns(i, group[i], drones, lidars)]
    OBVIOUS
  <2>. PICK here : here = all
    OBVIOUS
  <2>. PICK part : part = [i \in 1 .. n |-> {place \in here : place.simulation = i}]
    OBVIOUS
  <2>1. /\ f = [i \in 1 .. n |-> f[i]]
        /\ \A i \in 1 .. n : f[i] = MissionRuns(i, group[i], drones, lidars)
    OBVIOUS
  <2>2. \A i \in 1 .. n : part[i] = {place \in all : place.simulation = i}
    OBVIOUS
  <2>3. \A i \in 1 .. n : f[i] \in Seq(part[i]) /\ Distinct(f[i])
    <3>1. TAKE i \in 1 .. n
    <3>2. i \in DOMAIN group
      OBVIOUS
    <3>3. /\ MissionRuns(i, group[i], drones, lidars) \in
               Seq({place \in all : place.simulation = i})
          /\ Distinct(MissionRuns(i, group[i], drones, lidars))
      BY <1>4, <3>2
    <3>4. QED
      BY <2>1, <2>2, <3>3
  <2>4. /\ \A i \in 1 .. n : part[i] \subseteq here
        /\ \A i, j \in 1 .. n : i # j => part[i] \cap part[j] = {}
    OBVIOUS
  <2>5. FlattenSeq(f) \in Seq(here) /\ Distinct(FlattenSeq(f))
    BY ONLY n \in Nat, <2>1, <2>3, <2>4, FlattenApart
  <2>6. QED
    BY <2>5
<1>6. QED
  BY <1>5, RunsByLoop

-----------------------------------------------------------------------------
(* The sum of the scores, as an equation between functions.                 *)

Sums(w, runs, n) ==
  w = [k \in 0 .. n |-> IF k = 0 THEN 0
                        ELSE w[k - 1] + (IF isErrored(runs[k]) THEN 0 ELSE runs[k].score)]

LEMMA SumsAt ==
  ASSUME NEW n \in Nat, NEW runs, NEW w, Sums(w, runs, n)
  PROVE  /\ w[0] = 0
         /\ \A k \in 1 .. n :
              w[k] = w[k - 1] + (IF isErrored(runs[k]) THEN 0 ELSE runs[k].score)
<1>1. w = [k \in 0 .. n |-> IF k = 0 THEN 0
                            ELSE w[k - 1] + (IF isErrored(runs[k]) THEN 0 ELSE runs[k].score)]
  BY DEF Sums
<1>. PICK f : f = [k \in 0 .. n |-> IF k = 0 THEN 0
                     ELSE w[k - 1] + (IF isErrored(runs[k]) THEN 0 ELSE runs[k].score)]
  OBVIOUS
<1>2. 0 \in 0 .. n /\ \A k \in 1 .. n : k \in 0 .. n /\ k # 0
  OBVIOUS
<1>3. /\ f[0] = 0
      /\ \A k \in 1 .. n :
           f[k] = w[k - 1] + (IF isErrored(runs[k]) THEN 0 ELSE runs[k].score)
  BY <1>2
<1>4. QED
  BY <1>1, <1>3

LEMMA SumsFrom ==
  ASSUME NEW n \in Nat, NEW runs, NEW w, w = [k \in 0 .. n |-> w[k]], w[0] = 0,
         \A k \in 1 .. n :
           w[k] = w[k - 1] + (IF isErrored(runs[k]) THEN 0 ELSE runs[k].score)
  PROVE  Sums(w, runs, n)
<1>1. ASSUME NEW k \in 0 .. n
      PROVE  w[k] = IF k = 0 THEN 0
                    ELSE w[k - 1] + (IF isErrored(runs[k]) THEN 0 ELSE runs[k].score)
  <2>1. CASE k = 0
    BY <2>1
  <2>2. CASE k \in 1 .. n
    BY <2>2
  <2>3. QED
    BY <2>1, <2>2
<1>2. QED
  BY <1>1 DEF Sums

LEMMA SumsOneMore ==
  ASSUME NEW k \in Nat, NEW runs, NEW v, Sums(v, runs, k)
  PROVE  \E w : Sums(w, runs, k + 1)
<1>. PICK more \in Nat : more = k + 1
  OBVIOUS
<1>. PICK last : last = v[k] + (IF isErrored(runs[more]) THEN 0 ELSE runs[more].score)
  OBVIOUS
<1>. PICK w : w = [i \in 0 .. more |-> IF i = more THEN last ELSE v[i]]
  OBVIOUS
<1>1. w = [i \in 0 .. more |-> w[i]]
  OBVIOUS
<1>2. w[more] = last /\ \A i \in 0 .. k : w[i] = v[i]
  <2>1. more \in 0 .. more /\ \A i \in 0 .. k : i \in 0 .. more /\ i # more
    OBVIOUS
  <2>2. QED
    BY <2>1
<1>3. w[0] = 0
  <2>1. v[0] = 0
    BY SumsAt
  <2>2. 0 \in 0 .. k
    OBVIOUS
  <2>3. QED
    BY <1>2, <2>1, <2>2
<1>4. ASSUME NEW i \in 1 .. more
      PROVE  w[i] = w[i - 1] + (IF isErrored(runs[i]) THEN 0 ELSE runs[i].score)
  <2>1. CASE i = more
    <3>1. i - 1 = k /\ w[k] = v[k]
      BY <1>2, <2>1
    <3>2. QED
      BY <1>2, <2>1, <3>1
  <2>2. CASE i # more
    <3>1. i \in 1 .. k /\ i \in 0 .. k /\ i - 1 \in 0 .. k
      BY <2>2
    <3>2. w[i] = v[i] /\ w[i - 1] = v[i - 1]
      BY <1>2, <3>1
    <3>3. v[i] = v[i - 1] + (IF isErrored(runs[i]) THEN 0 ELSE runs[i].score)
      BY <3>1, SumsAt
    <3>4. QED
      BY <3>2, <3>3
  <2>3. QED
    BY <2>1, <2>2
<1>5. \A i \in 1 .. more :
        w[i] = w[i - 1] + (IF isErrored(runs[i]) THEN 0 ELSE runs[i].score)
  BY <1>4
<1>6. Sums(w, runs, more)
  BY ONLY more \in Nat, <1>1, <1>3, <1>5, SumsFrom
<1>7. QED
  BY <1>6

LEMMA SumsExist ==
  ASSUME NEW n \in Nat, NEW runs
  PROVE  \E w : Sums(w, runs, n)
<1>. DEFINE with == {k \in Nat : \E w : Sums(w, runs, k)}
<1>1. 0 \in with
  <2>. PICK w : w = [k \in 0 .. 0 |-> 0]
    OBVIOUS
  <2>1. w = [k \in 0 .. 0 |-> w[k]] /\ w[0] = 0 /\ 1 .. 0 = {}
    OBVIOUS
  <2>2. Sums(w, runs, 0)
    BY <2>1, SumsFrom
  <2>3. QED
    BY <2>2
<1>2. ASSUME NEW k \in 0 .. n, k \in with
      PROVE  k + 1 \in with
  <2>1. PICK v : Sums(v, runs, k)
    BY <1>2
  <2>2. \E w : Sums(w, runs, k + 1)
    BY <2>1, SumsOneMore
  <2>3. QED
    BY <2>2
<1>3. \A k \in 0 .. n : k \in with /\ k < n => k + 1 \in with
  BY <1>2
<1>. HIDE DEF with
<1>4. \A k \in 0 .. n : k \in with
  BY <1>1, <1>3, Onward
<1>5. QED
  BY <1>4 DEF with

ScoredOf(runs, n) == {i \in 1 .. n : ~isErrored(runs[i])}

LEMMA ScoredOneMore ==
  ASSUME NEW k \in Nat, NEW runs
  PROVE  /\ 1 .. 0 = {} /\ ScoredOf(runs, 0) = {}
         /\ isErrored(runs[k + 1]) => ScoredOf(runs, k + 1) = ScoredOf(runs, k)
         /\ ~isErrored(runs[k + 1]) =>
              ScoredOf(runs, k + 1) = ScoredOf(runs, k) \cup {k + 1}
         /\ k + 1 \notin ScoredOf(runs, k)
<1>1. 1 .. (k + 1) = (1 .. k) \cup {k + 1} /\ k + 1 \notin 1 .. k
  OBVIOUS
<1>2. QED
  BY <1>1 DEF ScoredOf

(* The sum lies between as many times the least and the greatest score.     *)
LEMMA SumIsBounded ==
  ASSUME NEW n \in Nat, NEW runs, NEW w, Sums(w, runs, n), NEW low \in Int, NEW high \in Int,
         \A i \in ScoredOf(runs, n) :
           runs[i].score \in Int /\ low <= runs[i].score /\ runs[i].score <= high
  PROVE  /\ Cardinality(ScoredOf(runs, n)) \in Nat
         /\ low * Cardinality(ScoredOf(runs, n)) <= w[n]
         /\ w[n] <= high * Cardinality(ScoredOf(runs, n))
<1>. DEFINE Fine(k) == /\ IsFiniteSet(ScoredOf(runs, k)) /\ w[k] \in Int
                       /\ \E count \in Nat : /\ count = Cardinality(ScoredOf(runs, k))
                                             /\ low * count <= w[k] /\ w[k] <= high * count
<1>. PICK T : T = {k \in 0 .. n : Fine(k)}
  OBVIOUS
<1>1. 0 \in T
  <2>1. IsFiniteSet(ScoredOf(runs, 0)) /\ Cardinality(ScoredOf(runs, 0)) = 0
    BY ScoredOneMore, FS_EmptySet
  <2>2. w[0] = 0
    BY SumsAt
  <2>3. low * 0 <= 0 /\ 0 <= high * 0
    OBVIOUS
  <2>4. QED
    BY <2>1, <2>2, <2>3
<1>2. ASSUME NEW k \in 0 .. n, k \in T, k < n
      PROVE  k + 1 \in T
  <2>. PICK more \in 1 .. n : more = k + 1 /\ more - 1 = k
    BY <1>2
  <2>1. w[more] = w[k] + (IF isErrored(runs[more]) THEN 0 ELSE runs[more].score)
    <3>1. w[more] = w[more - 1] + (IF isErrored(runs[more]) THEN 0 ELSE runs[more].score)
      BY SumsAt
    <3>2. QED
      BY <3>1
  <2>2. PICK count \in Nat : /\ count = Cardinality(ScoredOf(runs, k))
                             /\ low * count <= w[k] /\ w[k] <= high * count
    BY <1>2
  <2>3. IsFiniteSet(ScoredOf(runs, k)) /\ w[k] \in Int
    BY <1>2
  <2>4. CASE isErrored(runs[more])
    <3>1. ScoredOf(runs, more) = ScoredOf(runs, k) /\ w[more] = w[k]
      BY <2>1, <2>3, <2>4, ScoredOneMore
    <3>2. Fine(more)
      BY <2>2, <2>3, <3>1
    <3>3. QED
      BY <3>2
  <2>5. CASE ~isErrored(runs[more])
    <3>1. ScoredOf(runs, more) = ScoredOf(runs, k) \cup {more} /\ more \notin ScoredOf(runs, k)
      BY <2>5, ScoredOneMore
    <3>2. IsFiniteSet(ScoredOf(runs, more)) /\ Cardinality(ScoredOf(runs, more)) = count + 1
      BY <2>2, <2>3, <3>1, FS_AddElement
    <3>. PICK score : score = runs[more].score
      OBVIOUS
    <3>3. score \in Int /\ low <= score /\ score <= high
      <4>1. more \in ScoredOf(runs, n)
        BY <2>5 DEF ScoredOf
      <4>2. QED
        BY <4>1
    <3>4. w[more] = w[k] + score
      BY <2>1, <2>5
    <3>5. low * (count + 1) = low * count + low /\ high * (count + 1) = high * count + high
      OBVIOUS
    <3>6. low * (count + 1) <= w[more] /\ w[more] <= high * (count + 1) /\ w[more] \in Int
      <4>. PICK a \in Int, b \in Int, c \in Int : a = low * count /\ b = high * count /\ c = w[k]
        BY <2>3
      <4>1. a <= c /\ c <= b
        BY <2>2
      <4>2. a + low <= c + score /\ c + score <= b + high
        BY <3>3, <4>1
      <4>3. QED
        BY <3>3, <3>4, <3>5, <4>2
    <3>7. Fine(more)
      BY <3>2, <3>6
    <3>8. QED
      BY <3>7
  <2>6. QED
    BY <2>4, <2>5
<1>3. \A k \in 0 .. n : k \in T /\ k < n => k + 1 \in T
  BY <1>2
<1>4. n \in T
  <2>1. \A k \in 0 .. n : k \in T
    BY ONLY n \in Nat, <1>1, <1>3, Onward
  <2>2. QED
    BY <2>1
<1>5. QED
  BY <1>4

(* Of the runs that have a score, one has the greatest. *)
LEMMA GreatestScore ==
  ASSUME NEW n \in Nat, NEW runs, ScoredOf(runs, n) # {},
         \A i \in ScoredOf(runs, n) : runs[i].score \in Int
  PROVE  \E i \in ScoredOf(runs, n) : \A j \in ScoredOf(runs, n) : runs[j].score <= runs[i].score
<1>. DEFINE Has(k) == ScoredOf(runs, k) # {} =>
       \E i \in ScoredOf(runs, k) : \A j \in ScoredOf(runs, k) : runs[j].score <= runs[i].score
<1>. PICK T : T = {k \in 0 .. n : Has(k)}
  OBVIOUS
<1>1. 0 \in T
  BY ScoredOneMore
<1>2. ASSUME NEW k \in 0 .. n, k \in T, k < n
      PROVE  k + 1 \in T
  <2>. PICK more \in 1 .. n : more = k + 1
    BY <1>2
  <2>1. ScoredOf(runs, k) \subseteq ScoredOf(runs, n)
    BY DEF ScoredOf
  <2>2. CASE isErrored(runs[more])
    <3>1. ScoredOf(runs, more) = ScoredOf(runs, k)
      BY <2>2, ScoredOneMore
    <3>2. QED
      BY <1>2, <3>1
  <2>3. CASE ~isErrored(runs[more])
    <3>1. ScoredOf(runs, more) = ScoredOf(runs, k) \cup {more}
      BY <2>3, ScoredOneMore
    <3>2. more \in ScoredOf(runs, n)
      BY <2>3 DEF ScoredOf
    <3>3. Has(more)
      <4>1. CASE ScoredOf(runs, k) = {}
        BY <3>1, <3>2, <4>1
      <4>2. CASE ScoredOf(runs, k) # {}
        <5>1. PICK i \in ScoredOf(runs, k) :
                \A j \in ScoredOf(runs, k) : runs[j].score <= runs[i].score
          BY <1>2, <4>2
        <5>2. \A j \in ScoredOf(runs, more) : runs[j].score \in Int
          BY <2>1, <3>1, <3>2
        <5>3. CASE runs[more].score <= runs[i].score
          BY <3>1, <5>1, <5>3
        <5>4. CASE ~(runs[more].score <= runs[i].score)
          <6>1. \A j \in ScoredOf(runs, more) : runs[j].score <= runs[more].score
            BY <3>1, <5>1, <5>2, <5>4
          <6>2. QED
            BY <3>1, <6>1
        <5>5. QED
          BY <5>3, <5>4
      <4>3. QED
        BY <4>1, <4>2
    <3>4. QED
      BY <3>3
  <2>4. QED
    BY <2>2, <2>3
<1>3. \A k \in 0 .. n : k \in T /\ k < n => k + 1 \in T
  BY <1>2
<1>4. n \in T
  <2>1. \A k \in 0 .. n : k \in T
    BY ONLY n \in Nat, <1>1, <1>3, Onward
  <2>2. QED
    BY <2>1
<1>5. QED
  BY <1>4

-----------------------------------------------------------------------------
(* What the runs and the report rest on: the missions of a simulation are a *)
(* sequence; a result for each place, and a score only with a geometry; and *)
(* once the report is written, the state it was written from.               *)

Outcomes ==
  {NotRun} \cup {outcome \in [score : Scores \cup {-1}, geometry : BOOLEAN] :
                   outcome.score # -1 => outcome.geometry = TRUE}

MissionsInv == \A g \in DOMAIN paths["mission"] : IsSequence(paths["mission"][g])

ResultInv == phase \in {"runs", "written"} => result \in [DOMAIN PlacesByPath -> Outcomes]

ReportInv ==
  report = NoReport \/ /\ phase = "written" /\ report = simulationOutput
                       /\ \A i \in DOMAIN result : result[i] # NotRun

RunsInv == MissionsInv /\ ResultInv /\ ReportInv

(* The places once the sections are read.                                   *)
LEMMA PlacesFacts ==
  ASSUME IInv, MissionsInv
  PROVE  /\ PlacesByPath \in Seq(Places(paths["mission"], paths["drone"], paths["lidar"]))
         /\ Distinct(PlacesByPath) /\ IsSequence(PlacesByPath)
         /\ DOMAIN PlacesByPath = 1 .. Len(PlacesByPath) /\ Len(PlacesByPath) \in Nat
         /\ PlacesByPath = Enumerate
<1>1. /\ IsSequence(paths["mission"]) /\ IsSequence(paths["drone"]) /\ IsSequence(paths["lidar"])
      /\ \A g \in DOMAIN paths["mission"] : IsSequence(paths["mission"][g])
  BY DEF IInv, ShapeInv, MissionsInv, Kinds
<1>2. /\ PlacesByPath \in Seq(Places(paths["mission"], paths["drone"], paths["lidar"]))
      /\ Distinct(PlacesByPath)
  BY <1>1, RunsAreDistinctPlaces DEF PlacesByPath
<1>. PICK all : all = Places(paths["mission"], paths["drone"], paths["lidar"])
  OBVIOUS
<1>3. PlacesByPath \in Seq(all)
  BY <1>2
<1>4. IsSequence(PlacesByPath)
  BY <1>3, SequencesAreSequences
<1>5. DOMAIN PlacesByPath = 1 .. Len(PlacesByPath) /\ Len(PlacesByPath) \in Nat
  BY <1>4, AppendExtends
<1>6. PlacesByPath = Enumerate
  BY PlacesAreTheRuns DEF IInv
<1>7. QED
  BY <1>2, <1>4, <1>5, <1>6

LEMMA InitRuns == Init => RunsInv
BY DEF Init, RunsInv, MissionsInv, ResultInv, ReportInv, Kinds

LEMMA SameOutput == ASSUME UNCHANGED <<paths, result>> PROVE simulationOutput' = simulationOutput
BY DEF simulationOutput, describesRuns, buildSummary, buildNestedSimulations, PlacesByPath,
       Resolutions, RunsOfMission, representativeRun

LEMMA SamePlaces == ASSUME UNCHANGED paths PROVE PlacesByPath' = PlacesByPath
BY DEF PlacesByPath

LEMMA LoadSimulationRuns ==
  ASSUME IInv, CleanIInv, RunsInv, LoadSimulation
  PROVE  RunsInv'
<1>. PICK entry : entry = Here("simulation")
  OBVIOUS
<1>1. /\ phase = "simulation" /\ phase' = phase /\ report' = report /\ result' = result
      /\ document["simulation"] # Absent /\ read["simulation"] < Len(document["simulation"])
      /\ \/ paths' = paths
         \/ paths' = [paths EXCEPT !["simulation"] = Append(@, entry.path),
                                   !["mission"] = Append(@, entry.missions)]
  BY DEF LoadSimulation, Left, running
<1>2. entry \in [path : Paths, missions : Seq(Paths)]
  BY <1>1, CompositionAssumption, ElementOfSequence DEF CleanIInv, ReadInv, Here
<1>3. MissionsInv'
  <2>1. CASE paths' = paths
    BY <2>1 DEF RunsInv, MissionsInv
  <2>2. CASE paths' = [paths EXCEPT !["simulation"] = Append(@, entry.path),
                                    !["mission"] = Append(@, entry.missions)]
    <3>. PICK missions : missions = entry.missions
      OBVIOUS
    <3>1. IsSequence(missions)
      BY <1>2, SequencesAreSequences
    <3>2. paths = [kind \in Kinds |-> paths[kind]] /\ IsSequence(paths["mission"])
      BY DEF IInv, ShapeInv, Kinds
    <3>3. paths'["mission"] = Append(paths["mission"], missions)
      BY <2>2, <3>2 DEF Kinds
    <3>4. \A g \in DOMAIN Append(paths["mission"], missions) :
            IsSequence(Append(paths["mission"], missions)[g])
      <4>. PICK old, new : old = paths["mission"] /\ new = Append(old, missions)
        OBVIOUS
      <4>1. /\ DOMAIN old = 1 .. Len(old) /\ Len(old) \in Nat
            /\ DOMAIN new = 1 .. (Len(old) + 1)
            /\ \A g \in 1 .. Len(old) : new[g] = old[g]
            /\ new[Len(old) + 1] = missions
        BY <3>2, AppendExtends
      <4>2. \A g \in DOMAIN old : IsSequence(old[g])
        BY DEF RunsInv, MissionsInv
      <4>3. QED
        BY <3>1, <4>1, <4>2
    <3>5. QED
      BY <3>3, <3>4 DEF MissionsInv
  <2>3. QED
    BY <1>1, <2>1, <2>2
<1>4. ResultInv' /\ ReportInv'
  BY <1>1 DEF RunsInv, ResultInv, ReportInv, NoReport
<1>5. QED
  BY <1>3, <1>4 DEF RunsInv

LEMMA LoadDeviceRuns ==
  ASSUME IInv, RunsInv, NEW kind \in Devices, LoadDevice(kind)
  PROVE  RunsInv'
<1>1. /\ phase = kind /\ phase' = phase /\ report' = report
      /\ paths' = [paths EXCEPT ![kind] = Append(@, Here(kind))]
  BY DEF LoadDevice, running
<1>2. paths'["mission"] = paths["mission"]
  BY <1>1, KindsAreDifferent DEF IInv, ShapeInv
<1>3. phase \notin {"runs", "written"}
  BY <1>1 DEF Devices
<1>4. QED
  BY <1>1, <1>2, <1>3 DEF RunsInv, MissionsInv, ResultInv, ReportInv, NoReport

LEMMA EndSectionRuns ==
  ASSUME IInv, CleanIInv, RunsInv, EndSection
  PROVE  RunsInv'
<1>1. /\ UNCHANGED <<paths, report>>
      /\ phase \in {"simulation", "drone", "lidar"}
      /\ phase' = CASE phase = "simulation" -> "drone" [] phase = "drone" -> "lidar"
                    [] OTHER -> "runs"
      /\ result' = IF phase = "lidar" THEN [i \in DOMAIN Enumerate |-> NotRun] ELSE result
  BY DEF EndSection, CleanIInv, ReadInv, Kinds
<1>2. MissionsInv' /\ ReportInv'
  BY <1>1 DEF RunsInv, MissionsInv, ReportInv, NoReport
<1>3. ResultInv'
  <2>1. CASE phase = "lidar"
    <3>1. result' = [i \in DOMAIN PlacesByPath |-> NotRun]
      BY <1>1, <2>1, PlacesAreTheRuns DEF IInv
    <3>2. result' \in [DOMAIN PlacesByPath -> Outcomes]
      BY <3>1 DEF Outcomes
    <3>3. QED
      BY <1>1, <3>2, SamePlaces DEF ResultInv
  <2>2. CASE phase # "lidar"
    BY <1>1, <2>2 DEF ResultInv
  <2>3. QED
    BY <2>1, <2>2
<1>4. QED
  BY <1>2, <1>3 DEF RunsInv

LEMMA RunRuns ==
  ASSUME RunsInv, NEW i \in DOMAIN result, Run(i)
  PROVE  RunsInv'
<1>1. /\ phase = "runs" /\ phase' = phase /\ UNCHANGED <<paths, report>>
      /\ \E outcome \in Outcomes : result' = [result EXCEPT ![i] = outcome]
  <2>1. PICK score \in Scores \cup {-1}, geometry \in BOOLEAN :
          /\ score # -1 => geometry
          /\ result' = [result EXCEPT ![i] = [score |-> score, geometry |-> geometry]]
    BY DEF Run
  <2>. PICK outcome : outcome = [score |-> score, geometry |-> geometry]
    OBVIOUS
  <2>2. outcome \in [score : Scores \cup {-1}, geometry : BOOLEAN]
    BY <2>1
  <2>3. outcome.score # -1 => outcome.geometry = TRUE
    BY <2>1
  <2>4. outcome \in Outcomes
    BY <2>2, <2>3 DEF Outcomes
  <2>5. QED
    BY <2>1, <2>4 DEF Run, loading
<1>2. MissionsInv'
  BY <1>1 DEF RunsInv, MissionsInv
<1>3. ReportInv'
  BY <1>1 DEF RunsInv, ReportInv, NoReport
<1>4. result' \in [DOMAIN PlacesByPath -> Outcomes]
  BY <1>1 DEF RunsInv, ResultInv
<1>5. QED
  BY <1>1, <1>2, <1>3, <1>4, SamePlaces DEF RunsInv, ResultInv

LEMMA WriteRuns ==
  ASSUME RunsInv, Write
  PROVE  RunsInv'
<1>1. /\ phase = "runs" /\ phase' = "written" /\ UNCHANGED <<paths, result>>
      /\ report' = simulationOutput /\ \A i \in DOMAIN result : result[i] # NotRun
  BY DEF Write, loading
<1>2. report' = simulationOutput'
  BY <1>1, SameOutput
<1>3. \A i \in DOMAIN result' : result'[i] # NotRun'
  BY <1>1 DEF NotRun
<1>4. QED
  BY <1>1, <1>2, <1>3, SamePlaces DEF RunsInv, MissionsInv, ResultInv, ReportInv

LEMMA NextRuns == IInv /\ CleanIInv /\ RunsInv /\ [Next]_vars => RunsInv'
<1> SUFFICES ASSUME IInv, CleanIInv, RunsInv, [Next]_vars
             PROVE  RunsInv'
  OBVIOUS
<1>1. CASE UNCHANGED vars
  <2>1. UNCHANGED <<phase, paths, result, report>>
    BY <1>1 DEF vars
  <2>2. simulationOutput' = simulationOutput /\ PlacesByPath' = PlacesByPath
    BY <2>1, SameOutput, SamePlaces
  <2>3. MissionsInv' /\ ResultInv'
    BY <2>1, <2>2 DEF RunsInv, MissionsInv, ResultInv
  <2>4. ReportInv'
    BY <2>1, <2>2 DEF RunsInv, ReportInv, NoReport, NotRun
  <2>5. QED
    BY <2>3, <2>4 DEF RunsInv
<1>2. Written => UNCHANGED vars
  BY DEF Written
<1>3. QED
  BY <1>1, <1>2, LoadSimulationRuns, LoadDeviceRuns, EndSectionRuns, RunRuns, WriteRuns DEF Next

(* All of it together.                                                      *)
CompositionInv == IInv /\ CleanIInv /\ RunsInv

THEOREM CompositionInvariant == Spec => []CompositionInv
<1>1. Init => CleanIInv
  BY InitClean, KindsAreDifferent DEF Init, CleanIInv
<1>2. IInv => ShapeInv
  BY DEF IInv
<1>3. QED
  BY <1>1, <1>2, InitIInv, NextIInv, NextClean, InitRuns, NextRuns, PTL DEF Spec, CompositionInv

-----------------------------------------------------------------------------
(* The labels.                                                              *)

LEMMA OneForEachPlace ==
  ASSUME CompositionInv, phase \in {"runs", "written"}
  PROVE  /\ DOMAIN result = 1 .. Len(PlacesByPath) /\ Len(result) = Len(PlacesByPath)
         /\ Len(result) \in Nat /\ \A i \in 1 .. Len(result) : result[i] \in Outcomes
<1>1. DOMAIN PlacesByPath = 1 .. Len(PlacesByPath) /\ Len(PlacesByPath) \in Nat
  BY PlacesFacts DEF CompositionInv, RunsInv
<1>. PICK n \in Nat : n = Len(PlacesByPath)
  BY <1>1
<1>2. result \in [1 .. n -> Outcomes]
  BY <1>1 DEF CompositionInv, RunsInv, ResultInv
<1>3. result \in Seq(Outcomes) /\ Len(result) = n /\ DOMAIN result = 1 .. n
  BY <1>2
<1>4. \A i \in 1 .. n : result[i] \in Outcomes
  BY <1>2
<1>5. QED
  BY <1>3, <1>4

(* The paths describe the runs whenever there are any.                      *)
LEMMA RunsAreDescribed ==
  ASSUME CompositionInv, phase \in {"runs", "written"}, Len(PlacesByPath) # 0
  PROVE  describesRuns
<1>1. /\ PlacesByPath \in Seq(Places(paths["mission"], paths["drone"], paths["lidar"]))
      /\ DOMAIN PlacesByPath = 1 .. Len(PlacesByPath) /\ Len(PlacesByPath) \in Nat
  BY PlacesFacts DEF CompositionInv, RunsInv
<1>. PICK all : all = Places(paths["mission"], paths["drone"], paths["lidar"])
  OBVIOUS
<1>2. PlacesByPath[1] \in all
  BY <1>1
<1>3. PICK place \in all : TRUE
  BY <1>2
<1>4. DOMAIN paths["mission"] # {} /\ DOMAIN paths["drone"] # {} /\ DOMAIN paths["lidar"] # {}
  BY <1>3 DEF Places
<1>5. /\ DOMAIN paths["simulation"] = DOMAIN paths["mission"]
      /\ IsSequence(paths["simulation"]) /\ IsSequence(paths["mission"])
  BY DEF CompositionInv, IInv, ShapeInv, PathsStayAligned, Aligned, Kinds
<1>6. Len(paths["mission"]) = Len(paths["simulation"])
  BY <1>5, AppendExtends
<1>7. \A kind \in Kinds \ {"mission"} : paths[kind] # << >>
  BY <1>4, <1>5, EmptyIsSequence DEF Kinds
<1>8. Len(PlacesByPath) = Len(result)
  BY OneForEachPlace
<1>9. QED
  BY <1>6, <1>7, <1>8 DEF describesRuns

(* Whatever the loading left in a configuration came from the file that the *)
(* label names.                                                             *)
LEMMA LabelIsWhereItCameFrom ==
  ASSUME NEW kind \in Kinds, NEW where, NEW i, NEW config, config = Config(kind, where[i]),
         NEW prefix
  PROVE  CameFrom(config, label(where, i, prefix))
<1>1. SUFFICES ASSUME NEW f \in DOMAIN config, config[f] # Default
               PROVE  label(where, i, prefix) = [path |-> config[f]]
  BY DEF CameFrom
<1>2. f \in Good(kind, where[i]) /\ config[f] = where[i]
  BY <1>1 DEF Config
<1>3. where[i] # NoPath
  BY <1>2, NoPathOpensNothing DEF Good
<1>4. QED
  BY <1>2, <1>3 DEF label

LEMMA NestedIsLabelled ==
  ASSUME CompositionInv, NEW n \in DOMAIN PlacesByPath
  PROVE  LET run == PlacesByPath[n] stated == buildNestedSimulations[n] IN
         /\ CameFrom(groups[run.simulation].simulation, stated.simulation)
         /\ CameFrom(groups[run.simulation].missions[run.mission], stated.mission)
         /\ CameFrom(devices["drone"][run.drone], stated.drone)
         /\ CameFrom(devices["lidar"][run.lidar], stated.lidar)
         /\ stated.outcome = result[n]
<1>. PICK run : run = PlacesByPath[n]
  OBVIOUS
<1>. PICK all : all = Places(paths["mission"], paths["drone"], paths["lidar"])
  OBVIOUS
<1>1. run \in all
  BY PlacesFacts DEF CompositionInv, RunsInv
<1>2. /\ run.simulation \in DOMAIN paths["mission"]
      /\ run.mission \in DOMAIN paths["mission"][run.simulation]
      /\ run.drone \in DOMAIN paths["drone"] /\ run.lidar \in DOMAIN paths["lidar"]
  BY <1>1 DEF Places
<1>3. PathsStayAligned
  BY DEF CompositionInv, IInv
<1>4. groups[run.simulation].simulation = Config("simulation", paths["simulation"][run.simulation])
  <2>. PICK configs : configs = [g \in DOMAIN groups |-> groups[g].simulation]
    OBVIOUS
  <2>1. Aligned("simulation", configs, paths["simulation"])
    BY <1>3 DEF PathsStayAligned
  <2>2. run.simulation \in DOMAIN groups
    BY <1>2, <1>3 DEF PathsStayAligned
  <2>3. run.simulation \in DOMAIN paths["simulation"]
    BY <2>1, <2>2 DEF Aligned
  <2>4. configs[run.simulation] = Config("simulation", paths["simulation"][run.simulation])
    BY <2>1, <2>3 DEF Aligned, LoadedFrom
  <2>5. QED
    BY <2>2, <2>4
<1>5. groups[run.simulation].missions[run.mission] =
        Config("mission", paths["mission"][run.simulation][run.mission])
  BY <1>2, <1>3 DEF PathsStayAligned, Aligned, LoadedFrom
<1>6. /\ devices["drone"][run.drone] = Config("drone", paths["drone"][run.drone])
      /\ devices["lidar"][run.lidar] = Config("lidar", paths["lidar"][run.lidar])
  BY <1>2, <1>3 DEF PathsStayAligned, Aligned, LoadedFrom, Devices
<1>. PICK stated : stated = buildNestedSimulations[n]
  OBVIOUS
<1>7. /\ stated.simulation = label(paths["simulation"], run.simulation, "simulation")
      /\ stated.mission = label(paths["mission"][run.simulation], run.mission, "mission")
      /\ stated.drone = label(paths["drone"], run.drone, "drone")
      /\ stated.lidar = label(paths["lidar"], run.lidar, "lidar")
      /\ stated.outcome = result[n]
  BY DEF buildNestedSimulations
<1>8. /\ CameFrom(groups[run.simulation].simulation, stated.simulation)
      /\ CameFrom(groups[run.simulation].missions[run.mission], stated.mission)
  BY <1>4, <1>5, <1>7, LabelIsWhereItCameFrom DEF Kinds
<1>9. /\ CameFrom(devices["drone"][run.drone], stated.drone)
      /\ CameFrom(devices["lidar"][run.lidar], stated.lidar)
  BY <1>6, <1>7, LabelIsWhereItCameFrom DEF Kinds
<1>10. QED
  BY <1>7, <1>8, <1>9

LEMMA ReportIsTheOutput ==
  ASSUME CompositionInv, report.written
  PROVE  report = simulationOutput /\ phase = "written"
BY DEF CompositionInv, RunsInv, ReportInv, NoReport

(* A label in the report is the path the run's own configuration was read   *)
(* from, although it was found by counting, and no report of a batch with   *)
(* runs falls back to the flat list (SimulationOutputWriter.cpp, the notes  *)
(* on describesRuns and buildNestedSimulations).                            *)
THEOREM EveryRunIsLabelledWithItsOwnFilesHolds == Spec => []EveryRunIsLabelledWithItsOwnFiles
<1>1. CompositionInv => EveryRunIsLabelledWithItsOwnFiles
  <2> SUFFICES ASSUME CompositionInv, report.written
               PROVE  EveryRunIsLabelledWithItsOwnFiles
    BY DEF EveryRunIsLabelledWithItsOwnFiles
  <2>1. report = simulationOutput /\ phase = "written"
    BY ReportIsTheOutput
  <2>2. /\ PlacesByPath = Enumerate /\ DOMAIN PlacesByPath = 1 .. Len(PlacesByPath)
        /\ Len(PlacesByPath) \in Nat /\ IsSequence(PlacesByPath)
    BY PlacesFacts DEF CompositionInv, RunsInv
  <2>3. DOMAIN result = 1 .. Len(PlacesByPath) /\ Len(result) = Len(PlacesByPath)
    BY <2>1, OneForEachPlace
  <2>4. CASE Len(PlacesByPath) = 0
    <3>1. PlacesByPath = << >>
      BY <2>2, <2>4 DEF IsSequence
    <3>2. DOMAIN report.runs = {} /\ Len(report.runs) = 0
      <4>. PICK nested, flat : /\ nested = buildNestedSimulations
                               /\ flat = [n \in DOMAIN result |-> [outcome |-> result[n]]]
        OBVIOUS
      <4>1. DOMAIN nested = {} /\ DOMAIN flat = {}
        BY <2>2, <2>3, <2>4 DEF buildNestedSimulations
      <4>2. nested = << >> /\ flat = << >>
        BY <2>2, <2>3, <2>4 DEF buildNestedSimulations
      <4>3. report.runs = nested \/ report.runs = flat
        BY <2>1 DEF simulationOutput
      <4>4. QED
        BY <4>2, <4>3
    <3>3. QED
      BY <2>2, <2>4, <3>1, <3>2 DEF EveryRunIsLabelledWithItsOwnFiles
  <2>5. CASE Len(PlacesByPath) # 0
    <3>1. describesRuns
      BY <2>1, <2>5, RunsAreDescribed
    <3>2. report.nested = TRUE /\ report.runs = buildNestedSimulations
      BY <2>1, <3>1 DEF simulationOutput
    <3>3. Len(buildNestedSimulations) = Len(PlacesByPath)
      BY <2>2 DEF buildNestedSimulations
    <3>4. QED
      BY <2>2, <3>2, <3>3, NestedIsLabelled DEF EveryRunIsLabelledWithItsOwnFiles
  <2>6. QED
    BY <2>4, <2>5
<1>2. QED
  BY <1>1, CompositionInvariant, PTL

-----------------------------------------------------------------------------
(* The figures.                                                             *)

LEMMA SummarySums ==
  ASSUME Len(result) \in Nat
  PROVE  \E w : Sums(w, result, Len(result)) /\ buildSummary.sum = w[Len(result)]
<1>. DEFINE w == CHOOSE w : w = [n \in 0 .. Len(result) |->
                IF n = 0 THEN 0
                ELSE w[n - 1] + (IF isErrored(result[n]) THEN 0 ELSE result[n].score)]
<1>1. \E x : x = [n \in 0 .. Len(result) |->
                IF n = 0 THEN 0
                ELSE x[n - 1] + (IF isErrored(result[n]) THEN 0 ELSE result[n].score)]
  BY SumsExist DEF Sums
<1>2. w = [n \in 0 .. Len(result) |->
                IF n = 0 THEN 0
                ELSE w[n - 1] + (IF isErrored(result[n]) THEN 0 ELSE result[n].score)]
  BY <1>1
<1>3. buildSummary.sum = w[Len(result)]
  BY DEF buildSummary
<1>. HIDE DEF w
<1>4. Sums(w, result, Len(result))
  BY <1>2 DEF Sums
<1>5. QED
  BY <1>3, <1>4

(* A run that has a score has a geometry. *)
LEMMA ScoredRuns ==
  ASSUME NEW outcome \in Outcomes, ~isErrored(outcome)
  PROVE  outcome.score \in Nat /\ outcome.geometry = TRUE
<1>1. outcome # NotRun
  BY DEF NotRun, isErrored
<1>2. /\ outcome \in [score : Scores \cup {-1}, geometry : BOOLEAN]
      /\ outcome.score # -1 => outcome.geometry = TRUE
  BY <1>1 DEF Outcomes
<1>3. outcome.score # -1
  BY DEF isErrored
<1>4. QED
  BY <1>2, <1>3, CompositionAssumption

LEMMA LeastAndGreatest ==
  ASSUME NEW S, S \subseteq Nat, NEW great \in S, \A x \in S : x <= great
  PROVE  /\ Min(S) \in S /\ \A x \in S : Min(S) <= x
         /\ Max(S) \in S /\ \A x \in S : x <= Max(S)
<1>1. \E x \in S : \A y \in S : x =< y
  BY LeastNat
<1>2. \E x \in S : \A y \in S : x >= y
  OBVIOUS
<1>3. QED
  BY <1>1, <1>2 DEF Min, Max

LEMMA SummaryIsWithinTheScores ==
  ASSUME Len(result) \in Nat, DOMAIN result = 1 .. Len(result),
         \A i \in 1 .. Len(result) : result[i] \in Outcomes,
         NEW scored, scored = {i \in DOMAIN result : ~isErrored(result[i])}, scored # {}
  PROVE  /\ buildSummary.min * Cardinality(scored) <= buildSummary.sum
         /\ buildSummary.sum <= buildSummary.max * Cardinality(scored)
         /\ {buildSummary.min, buildSummary.max} \subseteq {result[i].score : i \in scored}
<1>. PICK n \in Nat : n = Len(result)
  OBVIOUS
<1>1. scored = ScoredOf(result, n)
  BY DEF ScoredOf
<1>2. \A i \in scored : result[i].score \in Nat
  BY ScoredRuns
<1>. PICK scores : scores = {result[i].score : i \in scored}
  OBVIOUS
<1>3. scores \subseteq Nat /\ scores # {}
  BY <1>2
<1>4. PICK best \in scored : \A i \in scored : result[i].score <= result[best].score
  <2>1. \A i \in ScoredOf(result, n) : result[i].score \in Int
    BY <1>1, <1>2
  <2>2. ScoredOf(result, n) # {}
    BY <1>1
  <2>3. \E i \in ScoredOf(result, n) : \A j \in ScoredOf(result, n) :
          result[j].score <= result[i].score
    BY ONLY n \in Nat, <2>1, <2>2, GreatestScore
  <2>4. QED
    BY <1>1, <2>3
<1>5. result[best].score \in scores /\ \A x \in scores : x <= result[best].score
  BY <1>4
<1>6. /\ Min(scores) \in scores /\ \A x \in scores : Min(scores) <= x
      /\ Max(scores) \in scores /\ \A x \in scores : x <= Max(scores)
  BY <1>3, <1>5, LeastAndGreatest
<1>7. buildSummary.min = Min(scores) /\ buildSummary.max = Max(scores)
  BY <1>3 DEF buildSummary
<1>8. PICK w : Sums(w, result, n) /\ buildSummary.sum = w[n]
  BY SummarySums
<1>. PICK low, high : low = Min(scores) /\ high = Max(scores)
  OBVIOUS
<1>9. low \in Int /\ high \in Int /\ \A x \in scores : low <= x /\ x <= high
  <2>1. /\ low \in scores /\ \A x \in scores : low <= x
        /\ high \in scores /\ \A x \in scores : x <= high
    BY ONLY low = Min(scores), high = Max(scores), <1>6
  <2>2. QED
    BY <1>3, <2>1
<1>10. \A i \in ScoredOf(result, n) :
        result[i].score \in Int /\ low <= result[i].score /\ result[i].score <= high
  <2>1. TAKE i \in ScoredOf(result, n)
  <2>2. i \in scored /\ result[i].score \in Nat
    BY <1>1, <1>2
  <2>3. result[i].score \in scores
    BY <2>2
  <2>4. QED
    BY <1>9, <2>2, <2>3
<1>11. /\ low * Cardinality(ScoredOf(result, n)) <= w[n]
       /\ w[n] <= high * Cardinality(ScoredOf(result, n))
  BY ONLY n \in Nat, <1>8, <1>9, <1>10, SumIsBounded
<1>12. QED
  BY <1>1, <1>6, <1>7, <1>8, <1>11

(* The run a mission's resolution is read from has a score if any has.      *)
LEMMA RepresentativeIsScored ==
  ASSUME NEW places, places \subseteq Nat, NEW i \in places, ~isErrored(result[i])
  PROVE  representativeRun(places) \in places /\ ~isErrored(result[representativeRun(places)])
<1>. PICK scored : scored = {n \in places : ~isErrored(result[n])}
  OBVIOUS
<1>1. scored # {} /\ scored \subseteq Nat
  OBVIOUS
<1>2. \E x \in scored : \A y \in scored : x =< y
  BY <1>1, LeastNat
<1>3. Min(scored) \in scored
  BY <1>2 DEF Min
<1>4. representativeRun(places) = Min(scored)
  BY <1>1 DEF representativeRun
<1>5. QED
  BY <1>3, <1>4

LEMMA ResolutionOfAScoredRun ==
  ASSUME CompositionInv, phase = "written",
         NEW i \in DOMAIN result, ~isErrored(result[i])
  PROVE  Resolutions[PlacesByPath[i].simulation][PlacesByPath[i].mission] = TRUE
<1>1. /\ DOMAIN PlacesByPath = 1 .. Len(PlacesByPath) /\ Len(PlacesByPath) \in Nat
      /\ PlacesByPath \in Seq(Places(paths["mission"], paths["drone"], paths["lidar"]))
  BY PlacesFacts DEF CompositionInv, RunsInv
<1>2. DOMAIN result = 1 .. Len(PlacesByPath) /\ \A j \in DOMAIN result : result[j] \in Outcomes
  BY OneForEachPlace
<1>. PICK g, m : g = PlacesByPath[i].simulation /\ m = PlacesByPath[i].mission
  OBVIOUS
<1>3. g \in DOMAIN paths["mission"] /\ m \in DOMAIN paths["mission"][g]
  <2>. PICK all : all = Places(paths["mission"], paths["drone"], paths["lidar"])
    OBVIOUS
  <2>1. PlacesByPath[i] \in all
    BY <1>1, <1>2
  <2>2. QED
    BY <2>1 DEF Places
<1>. PICK places : places = RunsOfMission(g, m)
  OBVIOUS
<1>4. places \subseteq 1 .. Len(PlacesByPath) /\ i \in places
  BY <1>1, <1>2 DEF RunsOfMission
<1>. PICK r : r = representativeRun(places)
  OBVIOUS
<1>5. r \in places /\ ~isErrored(result[r])
  BY <1>1, <1>4, RepresentativeIsScored
<1>6. result[r].geometry = TRUE
  BY <1>2, <1>4, <1>5, ScoredRuns
<1>7. Resolutions[g][m] = result[r].geometry
  BY <1>3 DEF Resolutions
<1>8. QED
  BY <1>6, <1>7

(* No failed run spoils what the report says of the others: the statistics  *)
(* stay within the scores of the runs that have one, and a mission one of   *)
(* whose runs scored states that run's resolution.                          *)
THEOREM FailuresSpoilNoFigureHolds == Spec => []FailuresSpoilNoFigure
<1>1. CompositionInv => FailuresSpoilNoFigure
  <2> SUFFICES ASSUME CompositionInv, report.written
               PROVE  FailuresSpoilNoFigure
    BY DEF FailuresSpoilNoFigure
  <2>. PICK scored : scored = {i \in DOMAIN result : ~isErrored(result[i])}
    OBVIOUS
  <2>1. report = simulationOutput /\ phase = "written"
    BY ReportIsTheOutput
  <2>2. /\ DOMAIN result = 1 .. Len(result) /\ Len(result) \in Nat
        /\ \A i \in 1 .. Len(result) : result[i] \in Outcomes
    BY <2>1, OneForEachPlace
  <2>3. /\ report.summary = buildSummary
        /\ report.nested => report.resolutions = Resolutions
    BY <2>1 DEF simulationOutput
  <2>4. buildSummary.total = Len(result) /\ buildSummary.scored = Cardinality(scored)
    BY DEF buildSummary
  <2>5. scored # {} =>
          /\ buildSummary.min * Cardinality(scored) <= buildSummary.sum
          /\ buildSummary.sum <= buildSummary.max * Cardinality(scored)
          /\ {buildSummary.min, buildSummary.max} \subseteq {result[i].score : i \in scored}
    BY <2>2, SummaryIsWithinTheScores
  <2>6. \A i \in scored : report.nested =>
          report.resolutions[Enumerate[i].simulation][Enumerate[i].mission]
    <3>1. SUFFICES ASSUME NEW i \in scored, report.nested
                   PROVE  report.resolutions[Enumerate[i].simulation][Enumerate[i].mission] = TRUE
      OBVIOUS
    <3>2. Enumerate = PlacesByPath
      BY PlacesFacts DEF CompositionInv, RunsInv
    <3>3. QED
      BY <2>1, <2>3, <3>1, <3>2, ResolutionOfAScoredRun
  <2>7. QED
    BY <2>3, <2>4, <2>5, <2>6 DEF FailuresSpoilNoFigure
<1>2. QED
  BY <1>1, CompositionInvariant, PTL

-----------------------------------------------------------------------------
(* The maps.                                                                *)

(* No two configurations of a kind have files of one stem. *)
StemsDiffer ==
  /\ \A kind \in Kinds \ {"mission"} : NamesDiffer(paths[kind], kind)
  /\ \A g \in DOMAIN paths["mission"] : NamesDiffer(paths["mission"][g], "mission")

(* Then every place has a file of its own. *)
LEMMA FilesDiffer ==
  ASSUME CompositionInv, StemsDiffer, NEW i \in DOMAIN PlacesByPath, NEW j \in DOMAIN PlacesByPath,
         outputMapFile(PlacesByPath[i]) = outputMapFile(PlacesByPath[j])
  PROVE  i = j
<1>. PICK a, b : a = PlacesByPath[i] /\ b = PlacesByPath[j]
  OBVIOUS
<1>. PICK all : all = Places(paths["mission"], paths["drone"], paths["lidar"])
  OBVIOUS
<1>1. /\ a \in all /\ b \in all /\ Distinct(PlacesByPath)
  BY PlacesFacts DEF CompositionInv, RunsInv
<1>2. \A place \in all :
        /\ place = [simulation |-> place.simulation, mission |-> place.mission,
                    drone |-> place.drone, lidar |-> place.lidar]
        /\ place.simulation \in DOMAIN paths["mission"]
        /\ place.mission \in DOMAIN paths["mission"][place.simulation]
        /\ place.drone \in DOMAIN paths["drone"] /\ place.lidar \in DOMAIN paths["lidar"]
  BY DEF Places
<1>3. /\ nameFor(paths["simulation"], a.simulation, "simulation") =
           nameFor(paths["simulation"], b.simulation, "simulation")
      /\ nameFor(paths["mission"][a.simulation], a.mission, "mission") =
           nameFor(paths["mission"][b.simulation], b.mission, "mission")
      /\ nameFor(paths["drone"], a.drone, "drone") = nameFor(paths["drone"], b.drone, "drone")
      /\ nameFor(paths["lidar"], a.lidar, "lidar") = nameFor(paths["lidar"], b.lidar, "lidar")
  BY DEF outputMapFile
<1>4. DOMAIN paths["simulation"] = DOMAIN paths["mission"]
  BY DEF CompositionInv, IInv, PathsStayAligned, Aligned
<1>5. a.simulation = b.simulation /\ a.drone = b.drone /\ a.lidar = b.lidar
  BY <1>1, <1>2, <1>3, <1>4 DEF StemsDiffer, NamesDiffer, Kinds
<1>6. a.mission = b.mission
  BY <1>1, <1>2, <1>3, <1>5 DEF StemsDiffer, NamesDiffer
<1>7. a = b
  BY <1>1, <1>2, <1>5, <1>6
<1>8. QED
  BY <1>1, <1>7 DEF Distinct

(* A run that has a score wrote its map, and nobody wrote over it.          *)
KeepInv ==
  phase \in {"runs", "written"} /\ StemsDiffer =>
    \A i \in DOMAIN result : ~isErrored(result[i]) =>
      /\ outputMapFile(PlacesByPath[i]) \in DOMAIN maps
      /\ maps[outputMapFile(PlacesByPath[i])] = i

LEMMA SameNames ==
  ASSUME UNCHANGED paths
  PROVE  /\ StemsDiffer' = StemsDiffer /\ PlacesByPath' = PlacesByPath
         /\ \A i : outputMapFile(PlacesByPath[i])' = outputMapFile(PlacesByPath[i])
BY DEF StemsDiffer, NamesDiffer, PlacesByPath, outputMapFile, nameFor

LEMMA RunKeeps ==
  ASSUME CompositionInv, KeepInv, NEW i \in DOMAIN result, Run(i)
  PROVE  KeepInv'
<1>1. phase = "runs" /\ phase' = phase /\ UNCHANGED paths
  BY DEF Run, loading
<1>2. SUFFICES ASSUME StemsDiffer, NEW j \in DOMAIN result', ~isErrored(result'[j])
               PROVE  /\ outputMapFile(PlacesByPath[j]) \in DOMAIN maps'
                      /\ maps'[outputMapFile(PlacesByPath[j])] = j
  BY <1>1, SameNames DEF KeepInv
<1>3. PICK score \in Scores \cup {-1}, geometry \in BOOLEAN :
        /\ score # -1 => geometry
        /\ result' = [result EXCEPT ![i] = [score |-> score, geometry |-> geometry]]
        /\ maps' \in IF geometry THEN {Saved(i)} \cup (IF score = -1 THEN {maps} ELSE {})
                     ELSE {maps}
  BY DEF Run
<1>4. DOMAIN result' = DOMAIN result /\ DOMAIN result = DOMAIN PlacesByPath
  <2>1. DOMAIN result = DOMAIN PlacesByPath
    BY <1>1 DEF CompositionInv, RunsInv, ResultInv
  <2>2. QED
    BY <1>3, <2>1
<1>5. PlacesByPath = Enumerate
  BY PlacesFacts DEF CompositionInv, RunsInv
<1>. PICK name : name = outputMapFile(PlacesByPath[i])
  OBVIOUS
<1>6. maps' = Saved(i) \/ (maps' = maps /\ score = -1)
  BY <1>3
<1>7. CASE j = i
  <2>1. result'[i] = [score |-> score, geometry |-> geometry]
    BY <1>3
  <2>2. score # -1
    BY <1>2, <1>7, <2>1 DEF isErrored
  <2>3. maps' = Saved(i)
    BY <1>6, <2>2
  <2>4. name \in DOMAIN Saved(i) /\ Saved(i)[name] = i
    BY <1>5 DEF Saved
  <2>5. QED
    BY <1>7, <2>3, <2>4
<1>8. CASE j # i
  <2>. PICK other : other = outputMapFile(PlacesByPath[j])
    OBVIOUS
  <2>1. j \in DOMAIN result /\ result'[j] = result[j]
    BY <1>3, <1>4, <1>8
  <2>2. other \in DOMAIN maps /\ maps[other] = j
    BY <1>1, <1>2, <2>1 DEF KeepInv
  <2>3. other # name
    BY <1>2, <1>4, <1>8, <2>1, FilesDiffer
  <2>4. other \in DOMAIN Saved(i) /\ Saved(i)[other] = j
    BY <1>5, <2>2, <2>3 DEF Saved
  <2>5. QED
    BY <1>6, <2>2, <2>4
<1>9. QED
  BY <1>7, <1>8

LEMMA NextKeeps == CompositionInv /\ CompositionInv' /\ KeepInv /\ [Next]_vars => KeepInv'
<1> SUFFICES ASSUME CompositionInv, CompositionInv', KeepInv, [Next]_vars
             PROVE  KeepInv'
  OBVIOUS
<1>1. CASE \E i \in DOMAIN result : Run(i)
  BY <1>1, RunKeeps
<1>2. CASE Write \/ Written \/ UNCHANGED vars
  <2>1. /\ UNCHANGED <<paths, result, maps>>
        /\ phase' \in {"runs", "written"} => phase \in {"runs", "written"}
    BY <1>2 DEF Write, Written, vars, loading
  <2>2. SUFFICES ASSUME phase' \in {"runs", "written"}, StemsDiffer',
                        NEW i \in DOMAIN result', ~isErrored(result'[i])
                 PROVE  /\ outputMapFile(PlacesByPath[i])' \in DOMAIN maps'
                        /\ maps'[outputMapFile(PlacesByPath[i])'] = i
    BY DEF KeepInv
  <2>3. /\ outputMapFile(PlacesByPath[i])' = outputMapFile(PlacesByPath[i])
        /\ StemsDiffer' = StemsDiffer
    BY <2>1, SameNames
  <2>4. /\ outputMapFile(PlacesByPath[i]) \in DOMAIN maps
        /\ maps[outputMapFile(PlacesByPath[i])] = i
    BY <2>1, <2>2, <2>3 DEF KeepInv
  <2>5. QED
    BY <2>1, <2>3, <2>4
<1>3. CASE LoadSimulation \/ \E kind \in Devices : LoadDevice(kind)
  <2>1. phase' \notin {"runs", "written"}
    BY <1>3 DEF LoadSimulation, LoadDevice, Devices
  <2>2. QED
    BY <2>1 DEF KeepInv
<1>4. CASE EndSection
  <2>1. phase \in {"simulation", "drone", "lidar"}
    BY <1>4 DEF EndSection, CompositionInv, CleanIInv, ReadInv, Kinds
  <2>2. CASE phase = "lidar"
    <3>1. \A i \in DOMAIN result' : result'[i] = NotRun
      BY <1>4, <2>2 DEF EndSection
    <3>2. \A i \in DOMAIN result' : isErrored(result'[i])
      BY <3>1 DEF isErrored, NotRun
    <3>3. QED
      BY <3>2 DEF KeepInv
  <2>3. CASE phase # "lidar"
    <3>1. phase' \notin {"runs", "written"}
      BY <1>4, <2>1, <2>3 DEF EndSection
    <3>2. QED
      BY <3>1 DEF KeepInv
  <2>4. QED
    BY <2>2, <2>3
<1>5. QED
  BY <1>1, <1>2, <1>3, <1>4 DEF Next

(* When no two configurations of a kind have files of one stem, every run   *)
(* that has a score still has its own output map when all is over           *)
(* (project_context.md, "all output map files, uniquely named").            *)
THEOREM MapsAreKeptWhenStemsDifferHolds == Spec => []MapsAreKeptWhenStemsDiffer
<1>1. Init => KeepInv
  BY DEF Init, KeepInv
<1>2. CompositionInv /\ KeepInv => MapsAreKeptWhenStemsDiffer
  <2> SUFFICES ASSUME CompositionInv, KeepInv, StemsDiffer, report.written,
                      NEW i \in DOMAIN result, ~isErrored(result[i])
               PROVE  maps[outputMapFile(Enumerate[i])] = i
    BY DEF MapsAreKeptWhenStemsDiffer, StemsDiffer, EveryRunKeepsItsMap
  <2>1. phase = "written"
    BY ReportIsTheOutput
  <2>2. PlacesByPath = Enumerate
    BY PlacesFacts DEF CompositionInv, RunsInv
  <2>3. QED
    BY <2>1, <2>2 DEF KeepInv
<1>3. QED
  BY <1>1, <1>2, CompositionInvariant, NextKeeps, PTL DEF Spec

=============================================================================
