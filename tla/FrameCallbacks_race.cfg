\* Three callbacks, which are interchangeable here.
CONSTANTS
  Callbacks = {c1, c2, c3}
  Null = Null

SPECIFICATION Spec
SYMMETRY Interchangeable

INVARIANT
  RemoveAssertHolds

CHECK_DEADLOCK FALSE
