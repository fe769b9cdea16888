SPECIFICATION Spec
CONSTANTS
  WriteOrder <- SixArtifacts
  MaxCalls = 1
  Spellings = {"plain", "slash"}
  Faults = {}
INVARIANTS
  ForceReplaces
CHECK_DEADLOCK FALSE
