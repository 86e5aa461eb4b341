SPECIFICATION Spec
CONSTANTS
  Mac = {m1, m2}
  Pair = {zero, p1, p2, p3, p4}
  Zero = zero
  Size = 3
INVARIANTS
  NoPairTwice
PROPERTIES
  IsWindow
