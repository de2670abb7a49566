SPECIFICATION Spec
CONSTANTS
  Word = 16
  Names <- AnyName
  MaxNesting = 16
  Small <- SmallTerms
  Kinds = {"let"}
  MaxHeight = 1
  Env <- Env8
INVARIANT SubstReplaces
CHECK_DEADLOCK FALSE
