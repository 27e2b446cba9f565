\* Two windows, two text inputs, three compositions.  The bounds let everything come to an
\* end, hence no deadlock check.
CONSTANTS
  Surfaces = {s1, s2}
  Texts = {t1, t2}
  None = none
  MaxCompositions = 3
  MaxSwitches = 2
  MaxWaiting = 3
  MaxReplies = 1

SPECIFICATION Spec
SYMMETRY Interchangeable

INVARIANTS
  FocusFollowsActivation
  InputsKnowFocus
  CommittedOnceInOrder
  PreeditIsCurrent

CHECK_DEADLOCK FALSE
