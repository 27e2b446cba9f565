\* Four callbacks, with and without the frame rate limit.  No symmetry: one of the
\* properties is temporal.  When every callback has been used the system stops.
CONSTANTS
  Callbacks = {c1, c2, c3, c4}
  Null = Null

SPECIFICATION FairSpec

INVARIANTS
  SoundUnderLock
  SentAtMostOnce

PROPERTIES
  ImplementsQueue
  CallbacksAreSent

CHECK_DEADLOCK FALSE
