\* Deadlock: once a released decoration was used, nothing is defined any more.
SPECIFICATION FairSpec
CONSTANTS
  Decorations = {d1}
  NoDecoration = NoDecoration
  Sizes = {1, 2}
  Screen = 2
  Offsets = {0}
  MaxSerial = 2
  MaxResizes = 1
PROPERTY ModeIsKnown
CHECK_DEADLOCK FALSE
