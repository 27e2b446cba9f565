\* Two devices, three sources of the client, one of another
\* program's contents.  The program may stop: it has no defined behaviour once a device that is gone is used.
CONSTANTS
  Devices = {d1, d2}
  Sources = {s1, s2, s3}
  Contents = {c1}
  None = none
  MaxNotices = 2
  ClientData <- AllClientData
  HaikuData <- AllHaikuData

SPECIFICATION Spec
SYMMETRY Interchangeable

INVARIANTS
  DataFormatsHold
  SourceIsAlive
  SelectionIsCurrent

PROPERTY
  SourcesAreToldOnce

CHECK_DEADLOCK FALSE
