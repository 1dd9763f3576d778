SPECIFICATION Spec
CONSTANTS
  Ids = {i1, i2, i3, i4}
  Nil = Nil
  Expected = 1
  MaxSlots = 7
INVARIANTS
  FreeListSound
PROPERTIES
  ImplementsPoolSpec
