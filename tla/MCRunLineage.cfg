SPECIFICATION Spec
CONSTANTS
  Setups <- MCSetups
  Versions <- MCVersions
CHECK_DEADLOCK FALSE
INVARIANTS
  HashesVouch
  SameDefinition
