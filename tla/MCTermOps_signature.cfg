SPECIFICATION Spec
CONSTANTS
  Word = 8
  Names <- AnyName
  MaxNesting = 16
  Small <- SecondLocal
  Kinds = {"fix"}
  MaxHeight = 1
  Env <- Env6
INVARIANT SignatureOfFix
CHECK_DEADLOCK FALSE
