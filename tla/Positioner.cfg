\* A work area of five by five pixels; popups smaller than it, as large and larger,
\* at anchors inside it, at its edges and outside.
CONSTANTS
  Sizes = {1, 2, 7}
  Rects = {0, 4}
  Extents = {0, 3}
  Shifts = {0}
  WorkArea <- MCWorkArea

SPECIFICATION PositionerSpec

INVARIANTS
  SlideKeepsInside
  AxisMovesAsAllowed
  OverflowNeverGrows
