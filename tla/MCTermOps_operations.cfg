SPECIFICATION Spec
CONSTANTS
  Word = 16
  Names <- AnyName
  MaxNesting = 16
  Small <- SmallTerms
  Kinds <- AllKinds
  MaxHeight = 2
  Env <- Env8
INVARIANTS
  ShiftMakesRoom NormalizeCommutes NormalizeFlattens SubstReplacesCounted SimplReduces
  WalkFindsCalls SingleSpecializationPreserves ChecksApplications
CHECK_DEADLOCK FALSE
