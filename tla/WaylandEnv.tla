---------------------------- MODULE WaylandEnv ----------------------------
(***************************************************************************)
(* The hand-over between the window threads and the server thread:         *)
(* WaylandEnv.h, with its users WaylandView (HaikuCompositor.cpp), the      *)
(* window hooks (HaikuXdgToplevel.cpp, HaikuXdgPopup.cpp) and the dispatch  *)
(* of client requests (WaylandServer.cpp).                                  *)
(*                                                                         *)
(* Every window has a thread, which holds the window's looper lock while it *)
(* dispatches.  A hook must own the server's lock instead: WaylandEnv gives *)
(* up the first and takes the second, and marks the view with fActiveWlEnv. *)
(* Client requests run on the server thread, which owns the server's lock   *)
(* and may have to take a view out of the window such a hook is running in. *)
(***************************************************************************)
EXTENDS Naturals

CONSTANTS
  Windows,    \* windows; each is also the name of its thread and of its lock
  Server,     \* gServerHandler's looper: the server thread, and its lock
  Views,      \* surfaces, each with room for one view (HaikuSurface::fView)
  Nobody,     \* the owner of a free lock
  NoWindow,   \* the looper of a view that is in no window
  NoView      \* no view

ASSUME ServerAssumption == Server \notin Windows
ASSUME NobodyAssumption == Nobody \notin Windows \cup {Server}
ASSUME NoWindowAssumption == NoWindow \notin Windows
ASSUME NoViewAssumption == NoView \notin Views

Threads == Windows \cup {Server}

VARIABLES
  owner,        \* BLooper locks are recursive: who owns each lock ...
  depth,        \* ... and how many times
  view,         \* whether surface v has a WaylandView: fView # NULL
  looper,       \* the window the view is in: BHandler::Looper()
  parent,       \* the parent view of a subsurface's view
  env,          \* fActiveWlEnv: "null", "active", or "awaited" (fWaitSem set)
  wpc,          \* where the thread of window w is in its hook
  target,       \* the view the hook is called on, NoView for a window's hook
  use,          \* the window the body of the hook locks
  spc,          \* where the server thread is
  op,           \* the request it serves ...
  req,          \* ... the surface the request is about ...
  arg,          \* ... the parent surface, for a subsurface's view ...
  held,         \* ... and the looper the request locks
  cur,          \* the view RemoveDescendantsAndSelf is at
  globalLocked, \* locals of WaylandEnv::Wait
  localLocked,
  wasUnlocked,
  sem           \* the count of the semaphore it sleeps on (waitSem)

locks == <<owner, depth>>
tree == <<view, looper, parent>>
hook == <<wpc, target, use>>
request == <<op, req, arg, held>>
wait == <<globalLocked, localLocked, wasUnlocked, sem>>
vars == <<locks, tree, env, hook, spc, request, cur, wait>>

HookPCs == {"idle", "enter", "lockServer", "body", "lockOther", "leave",
            "relock", "clear", "finish"}
ServerPCs == {"idle", "serving", "lockLooper", "attach", "useView", "walk",
              "wait", "checkEnv", "semWait", "relockLooper", "lockServer",
              "lockLocal", "removeSelf", "deleteView", "return"}
Ops == {"attachWindow", "attachView", "useView", "detach"}

TypeOK ==
  /\ owner \in [Threads -> Threads \cup {Nobody}]
  /\ depth \in [Threads -> Nat]
  /\ view \in [Views -> {"none", "live"}]
  /\ looper \in [Views -> Windows \cup {NoWindow}]
  /\ parent \in [Views -> Views \cup {NoView}]
  /\ env \in [Views -> {"null", "active", "awaited"}]
  /\ wpc \in [Windows -> HookPCs]
  /\ target \in [Windows -> Views \cup {NoView}]
  /\ use \in [Windows -> Windows]
  /\ spc \in ServerPCs
  /\ op \in Ops
  /\ req \in Views \cup {NoView}
  /\ arg \in Views \cup {NoView}
  /\ held \in Windows \cup {NoWindow}
  /\ cur \in Views \cup {NoView}
  /\ globalLocked \in Nat
  /\ localLocked \in Nat
  /\ wasUnlocked \in BOOLEAN
  /\ sem \in Nat

Init ==
  /\ owner = [l \in Threads |-> Nobody]
  /\ depth = [l \in Threads |-> 0]
  /\ view = [v \in Views |-> "none"]
  /\ looper = [v \in Views |-> NoWindow]
  /\ parent = [v \in Views |-> NoView]
  /\ env = [v \in Views |-> "null"]
  /\ wpc = [w \in Windows |-> "idle"]
  /\ target = [w \in Windows |-> NoView]
  /\ use = [w \in Windows |-> w]
  /\ spc = "idle"
  /\ op = "useView"
  /\ req = NoView
  /\ arg = NoView
  /\ held = NoWindow
  /\ cur = NoView
  /\ globalLocked = 0
  /\ localLocked = 0
  /\ wasUnlocked = FALSE
  /\ sem = 0

-----------------------------------------------------------------------------
(* Recursive looper locks.  A thread blocks in Lock until CanLock.          *)

CanLock(t, l) == owner[l] \in {Nobody, t}

Lock(t, l) == /\ CanLock(t, l)
              /\ owner' = [owner EXCEPT ![l] = t]
              /\ depth' = [depth EXCEPT ![l] = @ + 1]

Unlock(l) == /\ owner' = [owner EXCEPT ![l] = IF depth[l] = 1 THEN Nobody ELSE @]
             /\ depth' = [depth EXCEPT ![l] = @ - 1]

-----------------------------------------------------------------------------
(* A window thread.                                                         *)

\* BLooper takes a message, locks itself and finds the handler: one of the
\* window's views (a hook of WaylandView) or the window itself.
Dispatch(w, v) ==
  /\ wpc[w] = "idle"
  /\ v # NoView => looper[v] = w
  /\ Lock(w, w)
  /\ wpc' = [wpc EXCEPT ![w] = "enter"]
  /\ target' = [target EXCEPT ![w] = v]
  /\ UNCHANGED <<tree, env, use, spc, request, cur, wait>>

\* WaylandEnv(): publish the environment in fActiveWlEnv, unlock the looper.
EnterEnv(w) ==
  /\ wpc[w] = "enter"
  /\ env' = IF target[w] = NoView THEN env
            ELSE [env EXCEPT ![target[w]] = "active"]
  /\ Unlock(w)
  /\ wpc' = [wpc EXCEPT ![w] = "lockServer"]
  /\ UNCHANGED <<tree, target, use, spc, request, cur, wait>>

LockServer(w) ==
  /\ wpc[w] = "lockServer"
  /\ Lock(w, Server)
  /\ wpc' = [wpc EXCEPT ![w] = "body"]
  /\ UNCHANGED <<tree, env, target, use, spc, request, cur, wait>>

\* The body of the hook.  It may lock a window, its own or another, and unlock
\* it again (AppKitPtrs::LockedPtr): it waits for that lock owning the server.
RunBody(w) ==
  /\ wpc[w] = "body"
  /\ wpc' = [wpc EXCEPT ![w] = "leave"]
  /\ UNCHANGED <<locks, tree, env, target, use, spc, request, cur, wait>>

UseWindow(w, u) ==
  /\ wpc[w] = "body"
  /\ use' = [use EXCEPT ![w] = u]
  /\ wpc' = [wpc EXCEPT ![w] = "lockOther"]
  /\ UNCHANGED <<locks, tree, env, target, spc, request, cur, wait>>

LockOther(w) ==
  /\ wpc[w] = "lockOther"
  /\ CanLock(w, use[w])
  /\ use' = [use EXCEPT ![w] = w]
  /\ wpc' = [wpc EXCEPT ![w] = "leave"]
  /\ UNCHANGED <<locks, tree, env, target, spc, request, cur, wait>>

\* ~WaylandEnv(): the locks change hands again, then the waiter is woken.
LeaveServer(w) ==
  /\ wpc[w] = "leave"
  /\ Unlock(Server)
  /\ wpc' = [wpc EXCEPT ![w] = "relock"]
  /\ UNCHANGED <<tree, env, target, use, spc, request, cur, wait>>

Relock(w) ==
  /\ wpc[w] = "relock"
  /\ Lock(w, w)
  /\ wpc' = [wpc EXCEPT ![w] = "clear"]
  /\ UNCHANGED <<tree, env, target, use, spc, request, cur, wait>>

\* Fault: the pointer to the environment is left in the view.
ClearEnvNot(w) ==
  /\ wpc[w] = "clear"
  /\ sem' = IF target[w] # NoView /\ env[target[w]] = "awaited" THEN sem + 1 ELSE sem
  /\ wpc' = [wpc EXCEPT ![w] = "finish"]
  /\ UNCHANGED <<locks, tree, env, target, use, spc, request, cur,
                 globalLocked, localLocked, wasUnlocked>>

\* Fault: fWaitSem is looked at through the pointer that was just cleared.
ClearEnvUnposted(w) ==
  /\ wpc[w] = "clear"
  /\ env' = IF target[w] = NoView THEN env ELSE [env EXCEPT ![target[w]] = "null"]
  /\ wpc' = [wpc EXCEPT ![w] = "finish"]
  /\ UNCHANGED <<locks, tree, target, use, spc, request, cur, wait>>

ClearEnv(w) ==
  /\ wpc[w] = "clear"
  /\ env' = IF target[w] = NoView THEN env
            ELSE [env EXCEPT ![target[w]] = "null"]
  /\ sem' = IF target[w] # NoView /\ env[target[w]] = "awaited" THEN sem + 1 ELSE sem
  /\ wpc' = [wpc EXCEPT ![w] = "finish"]
  /\ UNCHANGED <<locks, tree, target, use, spc, request, cur,
                 globalLocked, localLocked, wasUnlocked>>

\* The rest of the hook (BView::MessageReceived), and the looper's unlock.
Finish(w) ==
  /\ wpc[w] = "finish"
  /\ Unlock(w)
  /\ wpc' = [wpc EXCEPT ![w] = "idle"]
  /\ target' = [target EXCEPT ![w] = NoView]
  /\ UNCHANGED <<tree, env, use, spc, request, cur, wait>>

HookStep(w) ==
  \/ EnterEnv(w) \/ LockServer(w)
  \/ RunBody(w) \/ (\E u \in Windows : UseWindow(w, u)) \/ LockOther(w)
  \/ LeaveServer(w) \/ Relock(w) \/ ClearEnv(w) \/ Finish(w)

-----------------------------------------------------------------------------
(* The server thread: client requests that concern views.                   *)

\* The looper takes a message for gServerHandler and locks itself.
ServerDispatch ==
  /\ spc = "idle"
  /\ Lock(Server, Server)
  /\ spc' = "serving"
  /\ UNCHANGED <<tree, env, hook, request, cur, wait>>

\* A request o on surface v that locks looper w; a view that is in no window
\* has no looper, and LockLooper then returns without a lock.
Ask(o, v, p, w) ==
  /\ spc = "serving"
  /\ op' = o
  /\ req' = v
  /\ arg' = p
  /\ held' = w
  /\ spc' = IF w = NoWindow
            THEN IF o = "detach" THEN "walk" ELSE "attach"
            ELSE "lockLooper"
  /\ cur' = v
  /\ UNCHANGED <<locks, tree, env, hook, wait>>

\* A window is created for a surface that has no view (HaikuXdgToplevel::Create,
\* HaikuXdgPopup::Create; the Assert of AttachWindow is the client's protocol).
AskAttachWindow(v, w) == view[v] = "none" /\ Ask("attachWindow", v, NoView, w)

\* A surface that is in no window becomes a subsurface of p, or p was given a
\* view and v is one of its earlier subsurfaces.
AskAttachView(v, p) ==
  /\ p # v
  /\ view[p] = "live"
  /\ looper[v] = NoWindow
  /\ Ask("attachView", v, p, looper[p])

\* HandleCommit, Invalidate and the like lock the surface's view when it is in
\* a window, and unlock it again.
AskUseView(v) == looper[v] # NoWindow /\ Ask("useView", v, NoView, looper[v])

AskDetach(v) == view[v] = "live" /\ Ask("detach", v, NoView, looper[v])

\* A request that concerns no view.
AskOther ==
  /\ spc = "serving"
  /\ spc' = "return"
  /\ UNCHANGED <<locks, tree, env, hook, request, cur, wait>>

LockLooper ==
  /\ spc = "lockLooper"
  /\ Lock(Server, held)
  /\ spc' = CASE op = "detach" -> "walk"
              [] op = "useView" -> "useView"
              [] OTHER -> "attach"
  /\ UNCHANGED <<tree, env, hook, request, cur, wait>>

UnlockHeld == IF held = NoWindow THEN UNCHANGED locks ELSE Unlock(held)

\* AddChild puts a new view into the window.  A view the surface had before, out
\* of every window since its parent went, is forgotten with its children.
AttachView ==
  /\ spc = "attach"
  /\ view' = [view EXCEPT ![req] = "live"]
  /\ looper' = [looper EXCEPT ![req] = held]
  /\ parent' = [v \in Views |-> IF v = req THEN arg
                                ELSE IF parent[v] = req THEN NoView
                                ELSE parent[v]]
  /\ UnlockHeld
  /\ spc' = "return"
  /\ UNCHANGED <<env, hook, request, cur, wait>>

UseView ==
  /\ spc = "useView"
  /\ Unlock(held)
  /\ spc' = "return"
  /\ UNCHANGED <<tree, env, hook, request, cur, wait>>

\* The request's locals go out of scope.
Return ==
  /\ spc = "return"
  /\ Unlock(Server)
  /\ spc' = "idle"
  /\ op' = "useView"
  /\ req' = NoView
  /\ arg' = NoView
  /\ held' = NoWindow
  /\ cur' = NoView
  /\ UNCHANGED <<tree, env, hook, wait>>

-----------------------------------------------------------------------------
(* HaikuSurface::Detach, WaylandView::RemoveDescendantsAndSelf.             *)

Children(v) == {c \in Views : parent[c] = v}

Descend(c) ==
  /\ spc = "walk"
  /\ c \in Children(cur)
  /\ cur' = c
  /\ UNCHANGED <<locks, tree, env, hook, spc, request, wait>>

\* Fault: the view is taken out without waiting for its hook.
ReachSelfUnwaited ==
  /\ spc = "walk"
  /\ Children(cur) = {}
  /\ spc' = "removeSelf"
  /\ UNCHANGED <<locks, tree, env, hook, request, cur, wait>>

\* No child is left: wait for the hook of this view, if it has one.
ReachSelf ==
  /\ spc = "walk"
  /\ Children(cur) = {}
  /\ spc' = IF env[cur] = "null" THEN "removeSelf" ELSE "wait"
  /\ UNCHANGED <<locks, tree, env, hook, request, cur, wait>>

RemoveSelf ==
  /\ spc = "removeSelf"
  /\ looper' = [looper EXCEPT ![cur] = NoWindow]
  /\ parent' = [parent EXCEPT ![cur] = NoView]
  /\ cur' = IF cur = req THEN cur ELSE parent[cur]
  /\ spc' = IF cur = req THEN "deleteView" ELSE "walk"
  /\ UNCHANGED <<locks, view, env, hook, request, wait>>

DeleteView ==
  /\ spc = "deleteView"
  /\ view' = [view EXCEPT ![req] = "none"]
  /\ UnlockHeld
  /\ spc' = "return"
  /\ UNCHANGED <<looper, parent, env, hook, request, cur, wait>>

-----------------------------------------------------------------------------
(* WaylandEnv::Wait(&fActiveWlEnv, Looper()) for the view at cur.           *)

\* Fault: the lock that is kept is counted among those to retake.
BeginWaitMiscounted ==
  /\ spc = "wait"
  /\ globalLocked' = depth[Server]
  /\ localLocked' = depth[looper[cur]]
  /\ owner' = [owner EXCEPT ![Server] = Nobody]
  /\ depth' = [depth EXCEPT ![Server] = 0, ![looper[cur]] = 1]
  /\ spc' = "checkEnv"
  /\ UNCHANGED <<tree, env, hook, request, cur, wasUnlocked, sem>>

\* Give up the server's lock altogether and all but one of the looper's.
BeginWait ==
  /\ spc = "wait"
  /\ globalLocked' = depth[Server]
  /\ localLocked' = depth[looper[cur]] - 1
  /\ owner' = [owner EXCEPT ![Server] = Nobody]
  /\ depth' = [depth EXCEPT ![Server] = 0, ![looper[cur]] = 1]
  /\ spc' = "checkEnv"
  /\ UNCHANGED <<tree, env, hook, request, cur, wasUnlocked, sem>>

\* Fault: the looper stays locked during the sleep.
SleepOnEnvLocked ==
  /\ spc = "checkEnv"
  /\ env[cur] # "null"
  /\ env' = [env EXCEPT ![cur] = "awaited"]
  /\ sem' = 0
  /\ spc' = "semWait"
  /\ UNCHANGED <<locks, tree, hook, request, cur, globalLocked, localLocked, wasUnlocked>>

\* *pointer != NULL: leave a semaphore with the environment and sleep on it.
SleepOnEnv ==
  /\ spc = "checkEnv"
  /\ env[cur] # "null"
  /\ env' = [env EXCEPT ![cur] = "awaited"]
  /\ sem' = 0
  /\ Unlock(looper[cur])
  /\ spc' = "semWait"
  /\ UNCHANGED <<tree, hook, request, cur, globalLocked, localLocked, wasUnlocked>>

WakeUp ==
  /\ spc = "semWait"
  /\ sem > 0
  /\ sem' = sem - 1
  /\ spc' = "relockLooper"
  /\ UNCHANGED <<locks, tree, env, hook, request, cur,
                 globalLocked, localLocked, wasUnlocked>>

RelockLooper ==
  /\ spc = "relockLooper"
  /\ Lock(Server, looper[cur])
  /\ spc' = "checkEnv"
  /\ UNCHANGED <<tree, env, hook, request, cur, wait>>

\* *pointer == NULL: LockWithTimeout(0).  It fails when the lock is taken, or
\* when a thread that waits for it has been handed the released semaphore.
TryLockServer ==
  /\ spc = "checkEnv"
  /\ env[cur] = "null"
  /\ Lock(Server, Server)
  /\ globalLocked' = globalLocked - 1
  /\ spc' = "lockServer"
  /\ UNCHANGED <<tree, env, hook, request, cur, localLocked, wasUnlocked, sem>>

ServerContended ==
  \/ ~ CanLock(Server, Server)
  \/ \E w \in Windows : wpc[w] = "lockServer"

\* Fault: the looper stays locked while the server's lock is waited for.
TryLockFailsLocked ==
  /\ spc = "checkEnv"
  /\ env[cur] = "null"
  /\ ServerContended
  /\ wasUnlocked' = TRUE
  /\ spc' = "lockServer"
  /\ UNCHANGED <<locks, tree, env, hook, request, cur, globalLocked, localLocked, sem>>

TryLockFails ==
  /\ spc = "checkEnv"
  /\ env[cur] = "null"
  /\ ServerContended
  /\ Unlock(looper[cur])
  /\ localLocked' = localLocked + 1
  /\ wasUnlocked' = TRUE
  /\ spc' = "lockServer"
  /\ UNCHANGED <<tree, env, hook, request, cur, globalLocked, sem>>

\* Take the locks back, the server's first.
LockServerAgain ==
  /\ spc = "lockServer"
  /\ IF globalLocked = 0
     THEN /\ spc' = "lockLocal"
          /\ UNCHANGED <<locks, globalLocked>>
     ELSE /\ Lock(Server, Server)
          /\ globalLocked' = globalLocked - 1
          /\ UNCHANGED spc
  /\ UNCHANGED <<tree, env, hook, request, cur, localLocked, wasUnlocked, sem>>

\* Fault: a hook that has begun meanwhile is not waited for.
LockLooperOnce ==
  /\ spc = "lockLocal"
  /\ IF localLocked = 0
     THEN /\ spc' = "removeSelf"
          /\ wasUnlocked' = FALSE
          /\ UNCHANGED <<locks, localLocked>>
     ELSE /\ Lock(Server, looper[cur])
          /\ localLocked' = localLocked - 1
          /\ UNCHANGED <<spc, wasUnlocked>>
  /\ UNCHANGED <<tree, env, hook, request, cur, globalLocked, sem>>

\* A hook may have begun while the looper was unlocked: then wait again.
LockLooperAgain ==
  /\ spc = "lockLocal"
  /\ IF localLocked = 0
     THEN /\ spc' = IF wasUnlocked /\ env[cur] # "null" THEN "wait" ELSE "removeSelf"
          /\ wasUnlocked' = FALSE
          /\ UNCHANGED <<locks, localLocked>>
     ELSE /\ Lock(Server, looper[cur])
          /\ localLocked' = localLocked - 1
          /\ UNCHANGED <<spc, wasUnlocked>>
  /\ UNCHANGED <<tree, env, hook, request, cur, globalLocked, sem>>

WaitStep == \/ BeginWait \/ SleepOnEnv \/ WakeUp \/ RelockLooper
            \/ TryLockServer \/ TryLockFails
            \/ LockServerAgain \/ LockLooperAgain

DetachStep == \/ \E c \in Views : Descend(c)
              \/ ReachSelf \/ RemoveSelf \/ DeleteView

RequestStep ==
  \/ \E v \in Views, w \in Windows : AskAttachWindow(v, w)
  \/ \E v, p \in Views : AskAttachView(v, p)
  \/ \E v \in Views : AskUseView(v) \/ AskDetach(v)
  \/ AskOther \/ LockLooper \/ AttachView \/ UseView \/ Return

ServerStep == RequestStep \/ DetachStep \/ WaitStep

Next ==
  \/ \E w \in Windows, v \in Views \cup {NoView} : Dispatch(w, v)
  \/ \E w \in Windows : HookStep(w)
  \/ ServerDispatch
  \/ ServerStep

Spec == Init /\ [][Next]_vars

(* BLooper locks and semaphores serve their waiters in the order they came, so *)
(* a thread that blocks again and again on a lock that is released again and   *)
(* again gets it; a thread that does not block keeps running.  Messages and    *)
(* requests need not come.                                                    *)
Fairness == /\ \A w \in Windows : SF_vars(HookStep(w))
            /\ SF_vars(ServerStep)

FairSpec == Spec /\ Fairness

-----------------------------------------------------------------------------
(* Properties.                                                              *)

\* A hook reads its view from the moment it is dispatched until it returns, and
\* the surface through it: the view is in the window all that time, although the
\* hook owns the window's lock only at its two ends, and the server thread takes
\* views out of the window meanwhile (HaikuCompositor.cpp:163-273, 359-376).
HandlerSeesLiveView ==
  \A w \in Windows : wpc[w] # "idle" /\ target[w] # NoView =>
    view[target[w]] = "live" /\ looper[target[w]] = w

\* Nobody waits for the server's lock owning a window's lock: the other order is
\* the one LockedPtr and Detach use, and the two together would deadlock.
NoLockOrderInversion ==
  /\ \A w \in Windows : wpc[w] = "lockServer" => \A u \in Windows : owner[u] # w
  /\ spc = "lockServer" /\ globalLocked > 0 => \A u \in Windows : owner[u] # Server

\* The asserts of WaylandEnv.h: a hook finds no environment of another hook on its
\* view (line 22), and its looper locked exactly once (line 26); nobody else waits
\* for the environment the server thread is about to wait for (line 62).
AssertsHold ==
  /\ \A w \in Windows : wpc[w] = "enter" =>
       /\ target[w] # NoView => env[target[w]] = "null"
       /\ owner[w] = w /\ depth[w] = 1
  /\ spc = "checkEnv" => env[cur] # "awaited"

\* The view is taken out of its window and deleted by a thread that owns both the
\* window and the server again, as often as before it waited: what Wait gave back it
\* has retaken, and nothing is left locked when the request is over.
DetachKeepsLocks ==
  /\ spc \in {"walk", "removeSelf", "deleteView"} =>
       /\ owner[Server] = Server /\ depth[Server] = 1
       /\ held # NoWindow => owner[held] = Server /\ depth[held] = 1
  /\ spc \in {"serving", "return"} =>
       /\ owner[Server] = Server /\ depth[Server] = 1
       /\ \A w \in Windows : owner[w] # Server
  /\ spc = "idle" => \A l \in Threads : owner[l] # Server

\* The server thread never sleeps on a semaphore that nobody will post: the hook that
\* has it is still running, or it has posted it (WaylandEnv.h:36-43, 59-72).
NoLostWakeup ==
  spc = "semWait" =>
    \/ sem > 0
    \/ env[cur] = "awaited" /\ \E w \in Windows : wpc[w] # "idle" /\ target[w] = cur

\* fActiveWlEnv is a plain pointer: it is written only by a thread that owns the lock
\* of the window the view is in.
EnvWrittenUnderLock ==
  [][\A v \in Views : env'[v] # env[v] =>
       /\ looper[v] # NoWindow
       /\ \/ owner[looper[v]] = Server
          \/ owner[looper[v]] = looper[v] /\ target[looper[v]] = v]_vars

\* A client's request is served to its end, unless new hooks keep beginning on the view
\* the server thread wants to remove.
RequestTerminates ==
  \/ spc # "idle" ~> spc = "idle"
  \/ []<><<\E w \in Windows : Dispatch(w, cur)>>_vars

\* A hook returns to the window's message loop, whatever the client asks meanwhile.
HookTerminates == \A w \in Windows : wpc[w] # "idle" ~> wpc[w] = "idle"

-----------------------------------------------------------------------------
(* The locks implement ViewGate.                                            *)

attachedViews == {v \in Views : looper[v] # NoWindow}

busyViews == {v \in Views : \E w \in Windows : wpc[w] # "idle" /\ target[w] = v}

Gate == INSTANCE ViewGate WITH attached <- attachedViews, busy <- busyViews

\* Every step inserts a view, begins or ends a hook, removes a view that no hook is
\* executing on, or changes nothing of these.
ImplementsGate == Gate!GateSpec

=============================================================================
