SPECIFICATION FairSpec
CONSTANTS
  Node = {n1, n2, n3, n4, n5}
  Handle = {h1, h2}
  Value = {a}
  NULL = NULL
  MaxLen = 5
PROPERTY EveryCallReturns
