\* One popup, asked to quit once.
SPECIFICATION Spec
CONSTANTS
  Toplevels = {t1}
  Popups = {p1}
  MaxCloses = 1
INVARIANT NoBadDeletion
CHECK_DEADLOCK FALSE
