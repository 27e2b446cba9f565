\* Deadlock: once a released decoration was used, nothing is defined any more.
SPECIFICATION Spec
CONSTANTS
  Decorations = {d1, d2}
  NoDecoration = NoDecoration
  Sizes = {1, 2}
  Screen = 2
  Offsets = {0}
  MaxSerial = 3
  MaxResizes = 2
SYMMETRY Interchangeable
INVARIANT LookFollowsMode
PROPERTY UserResizeWins
CHECK_DEADLOCK FALSE
