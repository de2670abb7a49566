SPECIFICATION Spec
CONSTANTS
  Word = 16
  Names <- AnyName
  MaxNesting = 16
  Small <- SmallTerms
  Kinds <- AllKinds
  MaxHeight = 2
  Env <- Env8
INVARIANTS
  TextIsRead TruncationIsNoticed ReadsIndependent RoundTrip DamageIsLocated
  ReadsModules GroupsAreShared TokensAreRead ParsesBack ResolvesScopes
CHECK_DEADLOCK FALSE
