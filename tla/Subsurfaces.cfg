\* A toplevel and a popup, each asked to quit once, and two more surfaces, which may be
\* subsurfaces of these or of each other.  Everything may have ended, hence no deadlock check.
SPECIFICATION FairTreeSpec
CONSTANTS
  Toplevels = {t1}
  Popups = {p1}
  Subs = {s1, s2}
  None = none
  MaxCloses = 1
INVARIANTS WalkIsSafe SubsurfacesAreShown DanglesOnlyAfterSurface ToplevelWindowIsReleased
PROPERTY WindowsGo
CHECK_DEADLOCK FALSE
