\* Two windows and two views: a surface with a subsurface in one window, or one in each, and
\* a hook on each window thread.  No symmetry, since liveness is checked.
CONSTANTS
  Windows = {w1, w2}
  Server = server
  Views = {v1, v2}
  Nobody = nobody
  NoWindow = noWindow
  NoView = noView
SPECIFICATION FairSpec
INVARIANTS
  HandlerSeesLiveView
  NoLockOrderInversion
  AssertsHold
  DetachKeepsLocks
  NoLostWakeup
PROPERTIES
  ImplementsGate
  RequestTerminates
  HookTerminates
