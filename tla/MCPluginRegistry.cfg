CONSTANTS
  pilot = pilot
  planner = planner
  linked = linked
  spare = spare
  r1 = r1
  r2 = r2
  r3 = r3
  Slots <- MCSlots
  Cells <- MCCells
  KindOf <- MCKindOf
  Plugin <- MCPlugin
  Adopted <- MCAdopted
  MaxRegistered = 2
  Faults <- MCFaults
  None = None
SPECIFICATION FairSpec
INVARIANTS
  IInv
  NoDanglingCode
  OwnFactory
  BorrowedStaysLoaded
  EachFailureLoggedOnce
  AuditTrailBalances
PROPERTY
  KeepsTheLifecycle
