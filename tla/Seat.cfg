\* Two surfaces, one pointer, one keyboard, two buttons.
CONSTANTS
  Surfaces = {s1, s2}
  Pointers = {p1}
  Keyboards = {k1}
  Buttons = {b1, b2}
  None = none

SPECIFICATION Spec
SYMMETRY Interchangeable

INVARIANTS
  FocusIsTold
  PressedIsKnown
  GrabHasReason

PROPERTIES
  GrabKeepsFocus
  DanglesOnlyAfterLateHook
