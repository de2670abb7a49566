SPECIFICATION FairSpec
CONSTANTS
  f = f
  g = g
  h = h
  None = None
  Fn = {f, g, h}
  Arity <- Arities
  SpecArg = {a}
  Groups <- SmallGroups
INVARIANTS
  TypeOK ListedAreKnown Phases VisitedAgree ResultConsistent OnlyForced NoneIsDeserved
PROPERTIES Settled Terminates
CHECK_DEADLOCK FALSE
