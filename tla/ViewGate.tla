------------------------------ MODULE ViewGate ------------------------------
(***************************************************************************)
(* What WaylandEnv.h promises the rest of the compositor, without locks:    *)
(* a view that has a hook (WindowActivated, MessageReceived or Draw) on its *)
(* window thread stays in its window until that hook has returned.          *)
(***************************************************************************)
EXTENDS FiniteSets

CONSTANT Views      \* the views of the client's surfaces

VARIABLES
  attached,         \* views that are in the view tree of some window
  busy              \* views whose hook a window thread is executing

gateVars == <<attached, busy>>

GateInit == attached = {} /\ busy = {}

\* A surface is given a view in a window.
Insert(v) == /\ v \notin attached
             /\ attached' = attached \cup {v}
             /\ UNCHANGED busy

\* A window thread calls a hook of v, and returns from it.
BeginHook(v) == /\ v \in attached
                /\ v \notin busy
                /\ busy' = busy \cup {v}
                /\ UNCHANGED attached

EndHook(v) == /\ v \in busy
              /\ busy' = busy \ {v}
              /\ UNCHANGED attached

\* The view leaves its window: only when no hook of it is executing.
Remove(v) == /\ v \in attached
             /\ v \notin busy
             /\ attached' = attached \ {v}
             /\ UNCHANGED busy

GateNext == \E v \in Views : Insert(v) \/ BeginHook(v) \/ EndHook(v) \/ Remove(v)

GateSpec == GateInit /\ [][GateNext]_gateVars
=============================================================================
