SPECIFICATION Spec
CONSTANTS
  Attrs = {offset, viewport, region}
  Offset = offset
  Viewport = viewport
  Regions = {region}
  Values = {v}
  Unset = Unset
  Moved = Moved
  Buffers = {b1, b2}
  NoBuffer = NoBuffer
  Areas = {a1, a2, a3}
  NoArea = NoArea
SYMMETRY Interchangeable
INVARIANTS DifferencesAreMarked BusyIsCurrent RefsCounted ViewFitsContent
CHECK_DEADLOCK FALSE
