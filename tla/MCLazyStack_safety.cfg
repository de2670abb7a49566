SPECIFICATION Spec
CONSTANTS
  Node = {n1, n2, n3, n4, n5, n6}
  Handle = {h1, h2}
  Value = {a, b}
  NULL = NULL
  MaxLen = 5
SYMMETRY Symmetry
INVARIANTS TypeOK OwnsPath BinaryCounter PopFindsBit
PROPERTIES WritesArePrivate BehavesAsValues
