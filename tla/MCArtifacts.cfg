SPECIFICATION Spec
CONSTANTS
  WriteOrder <- ThreeArtifacts
  MaxCalls = 3
  Spellings = {"plain", "slash"}
  Faults = {"look", "write", "remove", "rename"}
INVARIANTS
  OwnTemporary
  FailedCallKeeps
PROPERTIES
  UnforcedKeeps
  PublishedAtOnce
CHECK_DEADLOCK FALSE
