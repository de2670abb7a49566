SPECIFICATION Spec
CONSTANTS
  Word = 16
  Names <- AnyName
  MaxNesting = 16
  Small <- SmallTerms
  Kinds = {"product"}
  MaxHeight = 1
  Env <- Env8
INVARIANT CollectsFree
CHECK_DEADLOCK FALSE
