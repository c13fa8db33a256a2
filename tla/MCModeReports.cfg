CONSTANT
  Inputs <- MCInputs
SPECIFICATION Spec
INVARIANTS
  GroupsAreBehaviourClasses
  ReportIsReproducible
