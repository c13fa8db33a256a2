CONSTANTS
  self = self
  other = other
  Given <- MCGiven
  ReadsAs <- MCReadsAs
  SharedObjects <- MCSharedObjects
  Canonical <- MCCanonical
  Simulators <- MCSimulators
  RunModes <- MCModes
  Stamps <- MCStamps
  kMaxAttempts = 2
  Leftovers <- MCLeftovers
  None = None
  Refused = Refused
  Self = self
  MaxArguments = 5
  Sights <- MCSights
SPECIFICATION FairSpec
INVARIANTS
  RejectionNamesEveryFault
  EveryPluginFileHasOneSlot
  NoSilentEnd
PROPERTIES
  EveryStartEnds
  GivesFreshNames
