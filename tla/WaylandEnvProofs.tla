-------------------------- MODULE WaylandEnvProofs --------------------------
(***************************************************************************)
(* What WaylandEnv guarantees for any number of windows and views.          *)
(***************************************************************************)
EXTENDS WaylandEnv, TLAPS

\* Where a hook owns its window, owns the server, and has an environment.
OwnsWindowPCs == {"enter", "clear", "finish"}
OwnsServerPCs == {"body", "lockOther", "leave"}
EnvPCs == {"lockServer", "body", "lockOther", "leave", "relock", "clear"}

\* Where the server thread is inside WaylandEnv::Wait, and inside Detach.
WaitPCs == {"wait", "checkEnv", "semWait", "relockLooper", "lockServer", "lockLocal"}
WalkPCs == WaitPCs \cup {"walk", "removeSelf"}

-----------------------------------------------------------------------------
(* The inductive invariant, in parts.                                       *)

\* The locks Wait has yet to take back.
WaitLocals ==
  /\ globalLocked \in {0, 1} /\ localLocked \in {0, 1}
  /\ spc \in {"checkEnv", "semWait", "relockLooper"} =>
       globalLocked = 1 /\ localLocked = 0 /\ wasUnlocked = FALSE
  /\ spc = "lockServer" =>
       \/ localLocked = 1 /\ wasUnlocked = TRUE
       \/ globalLocked = 0 /\ localLocked = 0 /\ wasUnlocked = FALSE
  /\ spc = "lockLocal" =>
       globalLocked = 0 /\ (wasUnlocked = FALSE => localLocked = 0)
  /\ spc \notin WaitPCs \ {"wait"} =>
       globalLocked = 0 /\ localLocked = 0 /\ wasUnlocked = FALSE

\* Exactly who owns which lock; nobody owns one twice.
ServerOwnsServer ==
  \/ spc \in {"serving", "lockLooper", "attach", "useView", "walk", "wait",
              "removeSelf", "deleteView", "return"}
  \/ spc \in {"lockServer", "lockLocal"} /\ globalLocked = 0

ServerOwnsHeld ==
  /\ held # NoWindow
  /\ \/ spc \in {"attach", "useView", "walk", "wait", "checkEnv", "removeSelf",
                 "deleteView"}
     \/ spc \in {"lockServer", "lockLocal"} /\ localLocked = 0

Ownership ==
  /\ \A l \in Threads : depth[l] = IF owner[l] = Nobody THEN 0 ELSE 1
  /\ owner[Server] = Server <=> ServerOwnsServer
  /\ \A w \in Windows : owner[Server] = w <=> wpc[w] \in OwnsServerPCs
  /\ \A w \in Windows : owner[w] = w <=> wpc[w] \in OwnsWindowPCs
  /\ \A w \in Windows : owner[w] = Server <=> w = held /\ ServerOwnsHeld
  /\ \A w \in Windows : owner[w] \in {Nobody, w, Server}

\* The view tree: a window has all of a subtree, and its views are not deleted.
Tree ==
  /\ \A v \in Views : parent[v] # NoView => looper[parent[v]] = looper[v]
  /\ \A v \in Views : looper[v] # NoWindow => view[v] = "live"

\* A hook's view is in the hook's window, and fActiveWlEnv says so meanwhile.
Hooks ==
  /\ \A w \in Windows : wpc[w] # "idle" /\ target[w] # NoView =>
       looper[target[w]] = w
  /\ \A w \in Windows : wpc[w] \in EnvPCs /\ target[w] # NoView =>
       env[target[w]] # "null"
  /\ \A v \in Views : env[v] # "null" =>
       \E w \in Windows : wpc[w] \in EnvPCs /\ target[w] = v

\* The request: what it is about, and which looper it locks.
Request ==
  /\ spc \in {"lockLooper", "attach"} /\ op \in {"attachWindow", "attachView"} =>
       /\ req \in Views
       /\ looper[req] = NoWindow
       /\ op = "attachWindow" => arg = NoView
       /\ arg # NoView => looper[arg] = held /\ arg # req
  /\ spc = "attach" => op \in {"attachWindow", "attachView"}
  /\ spc = "lockLooper" => held # NoWindow
  /\ spc = "useView" => held # NoWindow
  /\ spc = "lockLooper" /\ op = "detach" =>
       cur = req /\ req \in Views /\ looper[req] = held

\* RemoveDescendantsAndSelf is at cur, called from views up to req: they are all in
\* the window that Detach has locked.
Walk ==
  /\ spc \in WalkPCs =>
       \E W \in SUBSET Views :
          /\ cur \in W
          /\ req \in W
          /\ \A v \in W : looper[v] = held
          /\ \A v \in W : v # req => parent[v] \in W
  /\ spc \in WalkPCs \ {"walk"} => Children(cur) = {}
  /\ spc \in WaitPCs => held # NoWindow
  /\ spc = "deleteView" => req \in Views /\ looper[req] = NoWindow

\* The hand-over: a semaphore is left with the environment of cur only, until it is posted,
\* and the view is removed without an environment.
Handover ==
  /\ \A v \in Views : env[v] = "awaited" => spc = "semWait" /\ cur = v
  /\ spc = "semWait" => (sem > 0 <=> env[cur] # "awaited")
  /\ spc = "removeSelf" => env[cur] = "null"
  /\ spc \in {"lockServer", "lockLocal"} /\ wasUnlocked = FALSE => env[cur] = "null"

IInv == /\ TypeOK
        /\ WaitLocals
        /\ Ownership
        /\ Tree
        /\ Hooks
        /\ Request
        /\ Walk
        /\ Handover

-----------------------------------------------------------------------------
(* Every step preserves it.                                                 *)

USE ServerAssumption, NobodyAssumption, NoWindowAssumption, NoViewAssumption
USE DEF IInv, locks, tree, hook, request, wait, Lock, Unlock, CanLock

\* A message begins a hook: its window is locked.
LEMMA DispatchInv ==
  ASSUME IInv, NEW w \in Windows, NEW v \in Views \cup {NoView}, Dispatch(w, v)
  PROVE  IInv'
<1>1. TypeOK'
  BY DEF Dispatch, HookPCs, Threads, TypeOK
<1>2. Ownership'
  BY DEF Dispatch, Threads, OwnsServerPCs, OwnsWindowPCs, ServerOwnsServer,
           ServerOwnsHeld, TypeOK, Ownership
<1>3. Hooks'
  BY DEF Dispatch, EnvPCs, TypeOK, Hooks
<1>4. WaitLocals' /\ Tree' /\ Request' /\ Walk' /\ Handover'
  BY DEF Dispatch, WaitLocals, Tree, Request, Walk, Children, Handover
<1> QED BY <1>1, <1>2, <1>3, <1>4

\* The hook publishes its environment and gives its window up.
LEMMA EnterEnvInv ==
  ASSUME IInv, NEW w \in Windows, EnterEnv(w)
  PROVE  IInv'
<1>1. TypeOK'
  BY DEF EnterEnv, HookPCs, Threads, OwnsWindowPCs, TypeOK, Ownership
<1>2. Ownership'
  BY DEF EnterEnv, Threads, OwnsServerPCs, OwnsWindowPCs, ServerOwnsServer,
           ServerOwnsHeld, TypeOK, Ownership
<1>3. Hooks'
  BY DEF EnterEnv, EnvPCs, TypeOK, Hooks
<1>4. Handover'
  BY DEF EnterEnv, WalkPCs, WaitPCs, EnvPCs, OwnsWindowPCs, ServerOwnsHeld,
           WaitLocals, Ownership, Hooks, Walk, Handover
<1>5. WaitLocals' /\ Tree' /\ Request' /\ Walk'
  BY DEF EnterEnv, WaitLocals, Tree, Request, Walk, Children
<1> QED BY <1>1, <1>2, <1>3, <1>4, <1>5

\* The hook owns the server.
LEMMA LockServerInv ==
  ASSUME IInv, NEW w \in Windows, LockServer(w)
  PROVE  IInv'
<1>1. TypeOK'
  BY DEF LockServer, HookPCs, Threads, TypeOK
<1>2. Ownership'
  BY DEF LockServer, Threads, OwnsServerPCs, OwnsWindowPCs, ServerOwnsServer,
           ServerOwnsHeld, TypeOK, Ownership
<1>3. Hooks'
  BY DEF LockServer, EnvPCs, Hooks
<1>4. WaitLocals' /\ Tree' /\ Request' /\ Walk' /\ Handover'
  BY DEF LockServer, WaitLocals, Tree, Request, Walk, Children, Handover
<1> QED BY <1>1, <1>2, <1>3, <1>4

\* The body of the hook.
LEMMA RunBodyInv ==
  ASSUME IInv, NEW w \in Windows, RunBody(w)
  PROVE  IInv'
<1>1. TypeOK'
  BY DEF RunBody, HookPCs, TypeOK
<1>2. Ownership'
  BY DEF RunBody, OwnsServerPCs, OwnsWindowPCs, ServerOwnsServer, ServerOwnsHeld,
           Ownership
<1>3. Hooks'
  BY DEF RunBody, EnvPCs, Hooks
<1>4. WaitLocals' /\ Tree' /\ Request' /\ Walk' /\ Handover'
  BY DEF RunBody, WaitLocals, Tree, Request, Walk, Children, Handover
<1> QED BY <1>1, <1>2, <1>3, <1>4

\* The body is about to lock a window.
LEMMA UseWindowInv ==
  ASSUME IInv, NEW w \in Windows, NEW u \in Windows, UseWindow(w, u)
  PROVE  IInv'
<1>1. TypeOK'
  BY DEF UseWindow, HookPCs, TypeOK
<1>2. Ownership'
  BY DEF UseWindow, OwnsServerPCs, OwnsWindowPCs, ServerOwnsServer, ServerOwnsHeld,
           Ownership
<1>3. Hooks'
  BY DEF UseWindow, EnvPCs, Hooks
<1>4. WaitLocals' /\ Tree' /\ Request' /\ Walk' /\ Handover'
  BY DEF UseWindow, WaitLocals, Tree, Request, Walk, Children, Handover
<1> QED BY <1>1, <1>2, <1>3, <1>4

\* It has locked that window and unlocked it again.
LEMMA LockOtherInv ==
  ASSUME IInv, NEW w \in Windows, LockOther(w)
  PROVE  IInv'
<1>1. TypeOK'
  BY DEF LockOther, HookPCs, TypeOK
<1>2. Ownership'
  BY DEF LockOther, OwnsServerPCs, OwnsWindowPCs, ServerOwnsServer, ServerOwnsHeld,
           Ownership
<1>3. Hooks'
  BY DEF LockOther, EnvPCs, Hooks
<1>4. WaitLocals' /\ Tree' /\ Request' /\ Walk' /\ Handover'
  BY DEF LockOther, WaitLocals, Tree, Request, Walk, Children, Handover
<1> QED BY <1>1, <1>2, <1>3, <1>4

\* The hook gives the server back.
LEMMA LeaveServerInv ==
  ASSUME IInv, NEW w \in Windows, LeaveServer(w)
  PROVE  IInv'
<1>1. TypeOK'
  BY DEF LeaveServer, HookPCs, Threads, OwnsServerPCs, TypeOK, Ownership
<1>2. Ownership'
  BY DEF LeaveServer, Threads, OwnsServerPCs, OwnsWindowPCs, ServerOwnsServer,
           ServerOwnsHeld, TypeOK, Ownership
<1>3. Hooks'
  BY DEF LeaveServer, EnvPCs, Hooks
<1>4. WaitLocals' /\ Tree' /\ Request' /\ Walk' /\ Handover'
  BY DEF LeaveServer, WaitLocals, Tree, Request, Walk, Children, Handover
<1> QED BY <1>1, <1>2, <1>3, <1>4

\* It owns its window again.
LEMMA RelockInv ==
  ASSUME IInv, NEW w \in Windows, Relock(w)
  PROVE  IInv'
<1>1. TypeOK'
  BY DEF Relock, HookPCs, Threads, TypeOK
<1>2. Ownership'
  BY DEF Relock, Threads, OwnsServerPCs, OwnsWindowPCs, ServerOwnsServer,
           ServerOwnsHeld, TypeOK, Ownership
<1>3. Hooks'
  BY DEF Relock, EnvPCs, Hooks
<1>4. WaitLocals' /\ Tree' /\ Request' /\ Walk' /\ Handover'
  BY DEF Relock, WaitLocals, Tree, Request, Walk, Children, Handover
<1> QED BY <1>1, <1>2, <1>3, <1>4

\* It takes its environment back; whoever waits for it is woken.
LEMMA ClearEnvInv ==
  ASSUME IInv, NEW w \in Windows, ClearEnv(w)
  PROVE  IInv'
<1>1. TypeOK'
  BY DEF ClearEnv, HookPCs, TypeOK
<1>2. Ownership'
  BY DEF ClearEnv, OwnsServerPCs, OwnsWindowPCs, ServerOwnsServer, ServerOwnsHeld,
           Ownership
<1>3. Hooks'
  BY DEF ClearEnv, EnvPCs, TypeOK, Hooks
<1>4. Handover'
  BY DEF ClearEnv, TypeOK, Handover
<1>5. WaitLocals' /\ Tree' /\ Request' /\ Walk'
  BY DEF ClearEnv, WaitLocals, Tree, Request, Walk, Children
<1> QED BY <1>1, <1>2, <1>3, <1>4, <1>5

\* The hook returns.
LEMMA FinishInv ==
  ASSUME IInv, NEW w \in Windows, Finish(w)
  PROVE  IInv'
<1>1. TypeOK'
  BY DEF Finish, HookPCs, Threads, OwnsWindowPCs, TypeOK, Ownership
<1>2. Ownership'
  BY DEF Finish, Threads, OwnsServerPCs, OwnsWindowPCs, ServerOwnsServer,
           ServerOwnsHeld, TypeOK, Ownership
<1>3. Hooks'
  BY DEF Finish, EnvPCs, Hooks
<1>4. WaitLocals' /\ Tree' /\ Request' /\ Walk' /\ Handover'
  BY DEF Finish, WaitLocals, Tree, Request, Walk, Children, Handover
<1> QED BY <1>1, <1>2, <1>3, <1>4

\* The server thread takes a request.
LEMMA ServerDispatchInv ==
  ASSUME IInv, ServerDispatch
  PROVE  IInv'
<1>1. TypeOK'
  BY DEF ServerDispatch, ServerPCs, Threads, TypeOK
<1>2. WaitLocals'
  BY DEF ServerDispatch, WaitPCs, WaitLocals
<1>3. Ownership'
  BY DEF ServerDispatch, Threads, ServerOwnsServer, ServerOwnsHeld, TypeOK,
           Ownership
<1>4. Request'
  BY DEF ServerDispatch, Request
<1>5. Walk'
  BY DEF ServerDispatch, WalkPCs, WaitPCs, Walk
<1>6. Handover'
  BY DEF ServerDispatch, Handover
<1>7. Tree' /\ Hooks'
  BY DEF ServerDispatch, Tree, Hooks
<1> QED BY <1>1, <1>2, <1>3, <1>4, <1>5, <1>6, <1>7

\* The request is for a view in a new window.
LEMMA AskAttachWindowInv ==
  ASSUME IInv, NEW v \in Views, NEW w \in Windows, AskAttachWindow(v, w)
  PROVE  IInv'
<1>1. TypeOK'
  BY DEF AskAttachWindow, Ask, ServerPCs, Ops, TypeOK
<1>2. WaitLocals'
  BY DEF AskAttachWindow, Ask, WaitPCs, WaitLocals
<1>3. Ownership'
  BY DEF AskAttachWindow, Ask, ServerOwnsServer, ServerOwnsHeld, Ownership
<1>4. Request'
  BY DEF AskAttachWindow, Ask, Tree, Request
<1>5. Walk'
  BY DEF AskAttachWindow, Ask, WalkPCs, WaitPCs, Walk
<1>6. Handover'
  BY DEF AskAttachWindow, Ask, Handover
<1>7. Tree' /\ Hooks'
  BY DEF AskAttachWindow, Ask, Tree, Hooks
<1> QED BY <1>1, <1>2, <1>3, <1>4, <1>5, <1>6, <1>7

\* The request is for a subsurface's view.
LEMMA AskAttachViewInv ==
  ASSUME IInv, NEW v \in Views, NEW p \in Views, AskAttachView(v, p)
  PROVE  IInv'
<1>1. TypeOK'
  BY DEF AskAttachView, Ask, ServerPCs, Ops, TypeOK
<1>2. WaitLocals'
  BY DEF AskAttachView, Ask, WaitPCs, WaitLocals
<1>3. Ownership'
  BY DEF AskAttachView, Ask, ServerOwnsServer, ServerOwnsHeld, Ownership
<1>4. Request'
  BY DEF AskAttachView, Ask, Request
<1>5. Walk'
  BY DEF AskAttachView, Ask, WalkPCs, WaitPCs, Walk
<1>6. Handover'
  BY DEF AskAttachView, Ask, Handover
<1>7. Tree' /\ Hooks'
  BY DEF AskAttachView, Ask, Tree, Hooks
<1> QED BY <1>1, <1>2, <1>3, <1>4, <1>5, <1>6, <1>7

\* The request changes a view.
LEMMA AskUseViewInv ==
  ASSUME IInv, NEW v \in Views, AskUseView(v)
  PROVE  IInv'
<1>1. TypeOK'
  BY DEF AskUseView, Ask, ServerPCs, Ops, TypeOK
<1>2. WaitLocals'
  BY DEF AskUseView, Ask, WaitPCs, WaitLocals
<1>3. Ownership'
  BY DEF AskUseView, Ask, ServerOwnsServer, ServerOwnsHeld, Ownership
<1>4. Request'
  BY DEF AskUseView, Ask, Request
<1>5. Walk'
  BY DEF AskUseView, Ask, WalkPCs, WaitPCs, Walk
<1>6. Handover'
  BY DEF AskUseView, Ask, Handover
<1>7. Tree' /\ Hooks'
  BY DEF AskUseView, Ask, Tree, Hooks
<1> QED BY <1>1, <1>2, <1>3, <1>4, <1>5, <1>6, <1>7

\* The request takes a view away: the walk begins with that view alone.
LEMMA AskDetachInv ==
  ASSUME IInv, NEW v \in Views, AskDetach(v)
  PROVE  IInv'
<1>1. TypeOK'
  BY DEF AskDetach, Ask, ServerPCs, Ops, TypeOK
<1>2. WaitLocals'
  BY DEF AskDetach, Ask, WaitPCs, WaitLocals
<1>3. Ownership'
  BY DEF AskDetach, Ask, ServerOwnsServer, ServerOwnsHeld, Ownership
<1>4. Request'
  BY DEF AskDetach, Ask, Request
<1>5. Walk'
  <2>1. {v} \in SUBSET Views
    OBVIOUS
  <2>2. cur' = v /\ req' = v /\ held' = looper[v] /\ UNCHANGED <<looper, parent>>
    BY DEF AskDetach, Ask
  <2>3. spc' \in {"walk", "lockLooper"}
    BY DEF AskDetach, Ask
  <2> QED BY <2>1, <2>2, <2>3 DEF Walk, WalkPCs, WaitPCs
<1>6. Handover'
  BY DEF AskDetach, Ask, Handover
<1>7. Tree' /\ Hooks'
  BY DEF AskDetach, Ask, Tree, Hooks
<1> QED BY <1>1, <1>2, <1>3, <1>4, <1>5, <1>6, <1>7

\* The request is about no view.
LEMMA AskOtherInv ==
  ASSUME IInv, AskOther
  PROVE  IInv'
<1>1. TypeOK'
  BY DEF AskOther, ServerPCs, TypeOK
<1>2. WaitLocals'
  BY DEF AskOther, WaitPCs, WaitLocals
<1>3. Ownership'
  BY DEF AskOther, ServerOwnsServer, ServerOwnsHeld, Ownership
<1>4. Request'
  BY DEF AskOther, Request
<1>5. Walk'
  BY DEF AskOther, WalkPCs, WaitPCs, Walk
<1>6. Handover'
  BY DEF AskOther, Handover
<1>7. Tree' /\ Hooks'
  BY DEF AskOther, Tree, Hooks
<1> QED BY <1>1, <1>2, <1>3, <1>4, <1>5, <1>6, <1>7

\* The request's window is locked.
LEMMA LockLooperInv ==
  ASSUME IInv, LockLooper
  PROVE  IInv'
<1>1. TypeOK'
  BY DEF LockLooper, ServerPCs, Threads, TypeOK, Request
<1>2. WaitLocals'
  BY DEF LockLooper, WaitPCs, WaitLocals
<1>3. Ownership'
  BY DEF LockLooper, Threads, ServerOwnsServer, ServerOwnsHeld, TypeOK, Ownership,
           Request
<1>4. Request'
  BY DEF LockLooper, Ops, TypeOK, Request
<1>5. Walk'
  <2>1. CASE op = "detach"
    <3>1. cur = req /\ req \in Views /\ looper[req] = held
      BY <2>1 DEF LockLooper, Request
    <3>2. {req} \in SUBSET Views
      BY <3>1
    <3>3. spc' = "walk" /\ UNCHANGED <<cur, req, held, looper, parent>>
      BY <2>1 DEF LockLooper
    <3> QED BY <3>1, <3>2, <3>3 DEF Walk, WalkPCs, WaitPCs
  <2>2. CASE op # "detach"
    BY <2>2 DEF LockLooper, Walk, WalkPCs, WaitPCs
  <2> QED BY <2>1, <2>2
<1>6. Handover'
  BY DEF LockLooper, Handover
<1>7. Tree' /\ Hooks'
  BY DEF LockLooper, Tree, Hooks
<1> QED BY <1>1, <1>2, <1>3, <1>4, <1>5, <1>6, <1>7

\* The view is put into the window.
LEMMA AttachViewInv ==
  ASSUME IInv, AttachView
  PROVE  IInv'
<1>1. TypeOK'
  BY DEF AttachView, UnlockHeld, ServerPCs, ServerOwnsHeld, TypeOK, Ownership,
           Request
<1>2. WaitLocals'
  BY DEF AttachView, WaitPCs, WaitLocals
<1>3. Ownership'
  BY DEF AttachView, UnlockHeld, Threads, ServerOwnsServer, ServerOwnsHeld, TypeOK,
           Ownership
<1>4. Tree'
  BY DEF AttachView, TypeOK, Tree, Request
<1>5. Hooks'
  BY DEF AttachView, Hooks, Request
<1>6. Request'
  BY DEF AttachView, Request
<1>7. Walk'
  BY DEF AttachView, WalkPCs, WaitPCs, Walk
<1>8. Handover'
  BY DEF AttachView, Handover
<1> QED BY <1>1, <1>2, <1>3, <1>4, <1>5, <1>6, <1>7, <1>8

\* The view is changed.
LEMMA UseViewInv ==
  ASSUME IInv, UseView
  PROVE  IInv'
<1>1. TypeOK'
  BY DEF UseView, ServerPCs, Threads, ServerOwnsHeld, TypeOK, Ownership, Request
<1>2. WaitLocals'
  BY DEF UseView, WaitPCs, WaitLocals
<1>3. Ownership'
  BY DEF UseView, Threads, ServerOwnsServer, ServerOwnsHeld, TypeOK, Ownership,
           Request
<1>4. Request'
  BY DEF UseView, Request
<1>5. Walk'
  BY DEF UseView, WalkPCs, WaitPCs, Walk
<1>6. Handover'
  BY DEF UseView, Handover
<1>7. Tree' /\ Hooks'
  BY DEF UseView, Tree, Hooks
<1> QED BY <1>1, <1>2, <1>3, <1>4, <1>5, <1>6, <1>7

\* The request is over.
LEMMA ReturnInv ==
  ASSUME IInv, Return
  PROVE  IInv'
<1>1. TypeOK'
  BY DEF Return, ServerPCs, Ops, Threads, ServerOwnsServer, TypeOK, Ownership
<1>2. WaitLocals'
  BY DEF Return, WaitPCs, WaitLocals
<1>3. Ownership'
  BY DEF Return, Threads, ServerOwnsServer, ServerOwnsHeld, TypeOK, Ownership
<1>4. Request'
  BY DEF Return, Request
<1>5. Walk'
  BY DEF Return, WalkPCs, WaitPCs, Walk
<1>6. Handover'
  BY DEF Return, Handover
<1>7. Tree' /\ Hooks'
  BY DEF Return, Tree, Hooks
<1> QED BY <1>1, <1>2, <1>3, <1>4, <1>5, <1>6, <1>7

\* The walk goes down to a child, which is in the same window.
LEMMA DescendInv ==
  ASSUME IInv, NEW c \in Views, Descend(c)
  PROVE  IInv'
<1>1. TypeOK'
  BY DEF Descend, TypeOK
<1>2. Request'
  BY DEF Descend, Request
<1>3. Walk'
  <2>1. PICK W \in SUBSET Views :
          /\ cur \in W /\ req \in W
          /\ \A x \in W : looper[x] = held
          /\ \A x \in W : x # req => parent[x] \in W
    BY DEF Descend, Walk, WalkPCs
  <2>2. parent[c] = cur /\ looper[c] = held
    BY <2>1 DEF Descend, Children, Tree
  <2> DEFINE V == W \cup {c}
  <2>3. /\ V \in SUBSET Views /\ c \in V /\ req \in V
        /\ \A x \in V : looper[x] = held
        /\ \A x \in V : x # req => parent[x] \in V
    BY <2>1, <2>2
  <2> QED BY <2>3 DEF Descend, Walk, WalkPCs, WaitPCs
<1>4. Handover'
  BY DEF Descend, Handover
<1>5. WaitLocals' /\ Ownership' /\ Tree' /\ Hooks'
  BY DEF Descend, WaitLocals, Ownership, ServerOwnsServer, ServerOwnsHeld, Tree,
           Hooks
<1> QED BY <1>1, <1>2, <1>3, <1>4, <1>5

\* The walk has no child left to remove.
LEMMA ReachSelfInv ==
  ASSUME IInv, ReachSelf
  PROVE  IInv'
<1>1. TypeOK'
  BY DEF ReachSelf, ServerPCs, TypeOK
<1>2. WaitLocals'
  BY DEF ReachSelf, WaitPCs, WaitLocals
<1>3. Ownership'
  BY DEF ReachSelf, ServerOwnsServer, ServerOwnsHeld, Ownership
<1>4. Request'
  BY DEF ReachSelf, Request
<1>5. Walk'
  BY DEF ReachSelf, Children, WalkPCs, WaitPCs, EnvPCs, Hooks, Walk
<1>6. Handover'
  BY DEF ReachSelf, Handover
<1>7. Tree' /\ Hooks'
  BY DEF ReachSelf, Tree, Hooks
<1> QED BY <1>1, <1>2, <1>3, <1>4, <1>5, <1>6, <1>7

\* The view is removed; it had no child, so nobody on the walk loses its parent.
LEMMA RemoveSelfInv ==
  ASSUME IInv, RemoveSelf
  PROVE  IInv'
<1>1. TypeOK'
  BY DEF RemoveSelf, ServerPCs, WalkPCs, TypeOK, Walk
<1>2. WaitLocals'
  BY DEF RemoveSelf, WaitPCs, WaitLocals
<1>3. Ownership'
  BY DEF RemoveSelf, ServerOwnsServer, ServerOwnsHeld, Ownership
<1>4. Tree'
  BY DEF RemoveSelf, Children, WalkPCs, TypeOK, Tree, Walk
<1>5. Hooks'
  BY DEF RemoveSelf, HookPCs, WalkPCs, EnvPCs, OwnsWindowPCs, ServerOwnsHeld,
           TypeOK, Ownership, Hooks, Walk, Handover
<1>6. Request'
  BY DEF RemoveSelf, Request
<1>7. Walk'
  <2>1. PICK W \in SUBSET Views :
          /\ cur \in W /\ req \in W
          /\ \A x \in W : looper[x] = held
          /\ \A x \in W : x # req => parent[x] \in W
    BY DEF RemoveSelf, Walk, WalkPCs
  <2>2. Children(cur) = {} /\ spc = "removeSelf"
    BY DEF RemoveSelf, Walk, WalkPCs
  <2>3. CASE cur = req
    BY <2>1, <2>3 DEF RemoveSelf, Walk, WalkPCs, WaitPCs, TypeOK
  <2>4. CASE cur # req
    <3> DEFINE V == W \ {cur}
    <3>1. \A x \in W : parent[x] # cur
      BY <2>1, <2>2 DEF Children
    <3>2. parent[cur] \in V /\ req \in V /\ V \in SUBSET Views
      BY <2>1, <2>4, <3>1
    <3>3. \A x \in V : looper'[x] = held /\ parent'[x] = parent[x]
      BY <2>1 DEF RemoveSelf, TypeOK
    <3>4. \A x \in V : x # req => parent'[x] \in V
      BY <2>1, <3>1, <3>3
    <3> QED BY <2>4, <3>2, <3>3, <3>4 DEF RemoveSelf, Walk, WalkPCs, WaitPCs
  <2> QED BY <2>3, <2>4
<1>8. Handover'
  BY DEF RemoveSelf, Handover
<1> QED BY <1>1, <1>2, <1>3, <1>4, <1>5, <1>6, <1>7, <1>8

\* The view of the surface is deleted.
LEMMA DeleteViewInv ==
  ASSUME IInv, DeleteView
  PROVE  IInv'
<1>1. TypeOK'
  BY DEF DeleteView, UnlockHeld, ServerPCs, ServerOwnsHeld, TypeOK, Ownership, Walk
<1>2. WaitLocals'
  BY DEF DeleteView, WaitPCs, WaitLocals
<1>3. Ownership'
  BY DEF DeleteView, UnlockHeld, Threads, ServerOwnsServer, ServerOwnsHeld, TypeOK,
           Ownership
<1>4. Tree'
  BY DEF DeleteView, Tree, Walk
<1>5. Request'
  BY DEF DeleteView, Request
<1>6. Walk'
  BY DEF DeleteView, WalkPCs, WaitPCs, Walk
<1>7. Handover'
  BY DEF DeleteView, Handover
<1>8. Hooks'
  BY DEF DeleteView, Hooks
<1> QED BY <1>1, <1>2, <1>3, <1>4, <1>5, <1>6, <1>7, <1>8

\* Wait gives up the server.
LEMMA BeginWaitInv ==
  ASSUME IInv, BeginWait
  PROVE  IInv'
<1>1. TypeOK'
  BY DEF BeginWait, ServerPCs, Threads, WalkPCs, WaitPCs, ServerOwnsHeld, TypeOK,
           Ownership, Walk
<1>2. WaitLocals'
  BY DEF BeginWait, Threads, WalkPCs, WaitPCs, ServerOwnsServer, ServerOwnsHeld,
           TypeOK, WaitLocals, Ownership, Walk
<1>3. Ownership'
  BY DEF BeginWait, Threads, WalkPCs, WaitPCs, ServerOwnsServer, ServerOwnsHeld,
           TypeOK, Ownership, Walk
<1>4. Request'
  BY DEF BeginWait, Request
<1>5. Walk'
  BY DEF BeginWait, Children, WalkPCs, WaitPCs, Walk
<1>6. Handover'
  BY DEF BeginWait, Handover
<1>7. Tree' /\ Hooks'
  BY DEF BeginWait, Tree, Hooks
<1> QED BY <1>1, <1>2, <1>3, <1>4, <1>5, <1>6, <1>7

\* Wait leaves a semaphore and sleeps.
LEMMA SleepOnEnvInv ==
  ASSUME IInv, SleepOnEnv
  PROVE  IInv'
<1>1. TypeOK'
  BY DEF SleepOnEnv, ServerPCs, Threads, WalkPCs, ServerOwnsHeld, TypeOK,
           WaitLocals, Ownership, Walk
<1>2. WaitLocals'
  BY DEF SleepOnEnv, WaitPCs, WaitLocals
<1>3. Ownership'
  BY DEF SleepOnEnv, Threads, WalkPCs, ServerOwnsServer, ServerOwnsHeld, TypeOK,
           WaitLocals, Ownership, Walk
<1>4. Hooks'
  BY DEF SleepOnEnv, Hooks
<1>5. Request'
  BY DEF SleepOnEnv, Request
<1>6. Walk'
  BY DEF SleepOnEnv, Children, WalkPCs, WaitLocals, Walk
<1>7. Handover'
  BY DEF SleepOnEnv, WalkPCs, TypeOK, WaitLocals, Walk, Handover
<1>8. Tree'
  BY DEF SleepOnEnv, Tree
<1> QED BY <1>1, <1>2, <1>3, <1>4, <1>5, <1>6, <1>7, <1>8

\* The semaphore was posted by the hook that took its environment back.
LEMMA WakeUpInv ==
  ASSUME IInv, WakeUp
  PROVE  IInv'
<1>1. TypeOK'
  BY DEF WakeUp, ServerPCs, TypeOK
<1>2. WaitLocals'
  BY DEF WakeUp, WaitPCs, WaitLocals
<1>3. Ownership'
  BY DEF WakeUp, ServerOwnsServer, ServerOwnsHeld, Ownership
<1>4. Request'
  BY DEF WakeUp, Request
<1>5. Walk'
  BY DEF WakeUp, Children, WalkPCs, WaitLocals, Walk
<1>6. Handover'
  BY DEF WakeUp, Handover, TypeOK
<1>7. Tree' /\ Hooks'
  BY DEF WakeUp, Tree, Hooks
<1> QED BY <1>1, <1>2, <1>3, <1>4, <1>5, <1>6, <1>7

\* Wait owns the window again.
LEMMA RelockLooperInv ==
  ASSUME IInv, RelockLooper
  PROVE  IInv'
<1>1. TypeOK'
  BY DEF RelockLooper, ServerPCs, Threads, WalkPCs, TypeOK, WaitLocals, Walk
<1>2. WaitLocals'
  BY DEF RelockLooper, WaitPCs, WaitLocals
<1>3. Ownership'
  BY DEF RelockLooper, Threads, WalkPCs, ServerOwnsServer, ServerOwnsHeld, TypeOK,
           WaitLocals, Ownership, Walk
<1>4. Request'
  BY DEF RelockLooper, Request
<1>5. Walk'
  BY DEF RelockLooper, Children, WalkPCs, WaitLocals, Walk
<1>6. Handover'
  BY DEF RelockLooper, Handover
<1>7. Tree' /\ Hooks'
  BY DEF RelockLooper, Tree, Hooks
<1> QED BY <1>1, <1>2, <1>3, <1>4, <1>5, <1>6, <1>7

\* Wait got the server without blocking.
LEMMA TryLockServerInv ==
  ASSUME IInv, TryLockServer
  PROVE  IInv'
<1>1. TypeOK'
  BY DEF TryLockServer, ServerPCs, Threads, TypeOK, WaitLocals
<1>2. WaitLocals'
  BY DEF TryLockServer, WaitLocals
<1>3. Ownership'
  BY DEF TryLockServer, Threads, ServerOwnsServer, ServerOwnsHeld, TypeOK,
           WaitLocals, Ownership
<1>4. Request'
  BY DEF TryLockServer, Request
<1>5. Walk'
  BY DEF TryLockServer, Children, WalkPCs, WaitLocals, Walk
<1>6. Handover'
  BY DEF TryLockServer, Handover
<1>7. Tree' /\ Hooks'
  BY DEF TryLockServer, Tree, Hooks
<1> QED BY <1>1, <1>2, <1>3, <1>4, <1>5, <1>6, <1>7

\* Wait could not, and gives the window up as well.
LEMMA TryLockFailsInv ==
  ASSUME IInv, TryLockFails
  PROVE  IInv'
<1>1. TypeOK'
  BY DEF TryLockFails, ServerPCs, Threads, WalkPCs, ServerOwnsHeld, TypeOK,
           WaitLocals, Ownership, Walk
<1>2. WaitLocals'
  BY DEF TryLockFails, WaitPCs, WaitLocals
<1>3. Ownership'
  BY DEF TryLockFails, Threads, WalkPCs, ServerOwnsServer, ServerOwnsHeld, TypeOK,
           WaitLocals, Ownership, Walk
<1>4. Request'
  BY DEF TryLockFails, Request
<1>5. Walk'
  BY DEF TryLockFails, Children, WalkPCs, WaitLocals, Walk
<1>6. Handover'
  BY DEF TryLockFails, Handover
<1>7. Tree' /\ Hooks'
  BY DEF TryLockFails, Tree, Hooks
<1> QED BY <1>1, <1>2, <1>3, <1>4, <1>5, <1>6, <1>7

\* Wait takes the server back.
LEMMA LockServerAgainInv ==
  ASSUME IInv, LockServerAgain
  PROVE  IInv'
<1>1. TypeOK'
  BY DEF LockServerAgain, ServerPCs, TypeOK
<1>2. WaitLocals'
  BY DEF LockServerAgain, WaitPCs, WaitLocals
<1>3. Ownership'
  BY DEF LockServerAgain, Threads, ServerOwnsServer, ServerOwnsHeld, TypeOK,
           WaitLocals, Ownership
<1>4. Request'
  BY DEF LockServerAgain, Request
<1>5. Walk'
  BY DEF LockServerAgain, Children, WalkPCs, WaitPCs, Walk
<1>6. Handover'
  BY DEF LockServerAgain, Handover
<1>7. Tree' /\ Hooks'
  BY DEF LockServerAgain, Tree, Hooks
<1> QED BY <1>1, <1>2, <1>3, <1>4, <1>5, <1>6, <1>7

\* Wait takes the window back, and looks at the environment once more.
LEMMA LockLooperAgainInv ==
  ASSUME IInv, LockLooperAgain
  PROVE  IInv'
<1>1. TypeOK'
  <2>1. CASE localLocked = 0
    BY <2>1 DEF LockLooperAgain, TypeOK, ServerPCs
  <2>2. CASE localLocked # 0
    <3>1. cur \in Views /\ looper[cur] \in Windows
      BY DEF LockLooperAgain, TypeOK, Walk, WalkPCs, WaitPCs
    <3>2. owner' \in [Threads -> Threads \cup {Nobody}] /\ depth' \in [Threads -> Nat]
      BY <2>2, <3>1 DEF LockLooperAgain, TypeOK, Threads
    <3> QED BY <2>2, <3>2 DEF LockLooperAgain, TypeOK, WaitLocals
  <2> QED BY <2>1, <2>2
<1>2. WaitLocals'
  BY DEF LockLooperAgain, WaitLocals
<1>3. Ownership'
  BY DEF LockLooperAgain, Threads, WalkPCs, ServerOwnsServer, ServerOwnsHeld,
           TypeOK, WaitLocals, Ownership, Walk
<1>4. Request'
  BY DEF LockLooperAgain, Request
<1>5. Walk'
  BY DEF LockLooperAgain, Children, WalkPCs, WaitPCs, Walk
<1>6. Handover'
  BY DEF LockLooperAgain, Handover
<1>7. Tree' /\ Hooks'
  BY DEF LockLooperAgain, Tree, Hooks
<1> QED BY <1>1, <1>2, <1>3, <1>4, <1>5, <1>6, <1>7

-----------------------------------------------------------------------------
(* The invariant holds in every state.                                      *)

\* Nothing is locked, attached or under way at the start (WaylandEnv.h:10-12).
LEMMA InitInv == Init => IInv
<1> SUFFICES ASSUME Init PROVE IInv
  OBVIOUS
<1>1. TypeOK
  BY DEF Init, TypeOK, Threads, HookPCs, ServerPCs, Ops
<1>2. WaitLocals /\ Request /\ Walk /\ Handover
  BY DEF Init, WaitLocals, WaitPCs, Request, Walk, WalkPCs, Handover
<1>3. Ownership
  BY DEF Init, Ownership, Threads, OwnsServerPCs, OwnsWindowPCs, ServerOwnsServer, ServerOwnsHeld
<1>4. Tree /\ Hooks
  BY DEF Init, Tree, Hooks, EnvPCs
<1> QED BY <1>1, <1>2, <1>3, <1>4

\* A step of somebody else changes nothing the invariant speaks of.
LEMMA StutterInv == ASSUME IInv, UNCHANGED vars PROVE IInv'
<1>1. TypeOK'
  BY DEF vars, TypeOK
<1>2. WaitLocals' /\ Request' /\ Walk' /\ Handover'
  BY DEF vars, WaitLocals, Request, Walk, Children, Handover
<1>3. Ownership' /\ Tree' /\ Hooks'
  BY DEF vars, Ownership, ServerOwnsServer, ServerOwnsHeld, Tree, Hooks
<1> QED BY <1>1, <1>2, <1>3

\* All steps of a hook together: WaylandEnv's constructor, the body, its destructor.
LEMMA HookStepInv == ASSUME IInv, NEW w \in Windows, HookStep(w) PROVE IInv'
<1> QED BY EnterEnvInv, LockServerInv, RunBodyInv, UseWindowInv, LockOtherInv,
           LeaveServerInv, RelockInv, ClearEnvInv, FinishInv DEF HookStep

\* All steps of a request outside Detach.
LEMMA RequestStepInv == ASSUME IInv, RequestStep PROVE IInv'
<1> QED BY AskAttachWindowInv, AskAttachViewInv, AskUseViewInv, AskDetachInv,
           AskOtherInv, LockLooperInv, AttachViewInv, UseViewInv, ReturnInv
        DEF RequestStep

\* All steps of Detach outside Wait.
LEMMA DetachStepInv == ASSUME IInv, DetachStep PROVE IInv'
<1> QED BY DescendInv, ReachSelfInv, RemoveSelfInv, DeleteViewInv DEF DetachStep

\* All steps of WaylandEnv::Wait.
LEMMA WaitStepInv == ASSUME IInv, WaitStep PROVE IInv'
<1> QED BY BeginWaitInv, SleepOnEnvInv, WakeUpInv, RelockLooperInv, TryLockServerInv,
           TryLockFailsInv, LockServerAgainInv, LockLooperAgainInv DEF WaitStep

\* Every step of any thread keeps the invariant.
LEMMA NextInv == IInv /\ [Next]_vars => IInv'
<1> SUFFICES ASSUME IInv, [Next]_vars PROVE IInv'
  OBVIOUS
<1>1. CASE \E w \in Windows, v \in Views \cup {NoView} : Dispatch(w, v)
  BY <1>1, DispatchInv
<1>2. CASE \E w \in Windows : HookStep(w)
  BY <1>2, HookStepInv
<1>3. CASE ServerDispatch
  BY <1>3, ServerDispatchInv
<1>4. CASE ServerStep
  BY <1>4, RequestStepInv, DetachStepInv, WaitStepInv DEF ServerStep
<1>5. CASE UNCHANGED vars
  BY <1>5, StutterInv
<1> QED BY <1>1, <1>2, <1>3, <1>4, <1>5 DEF Next

\* The inductive invariant: who owns which lock, where the views are, and what the
\* hand-over has left to do, at every point of every thread.
THEOREM Invariance == Spec => []IInv
<1> QED BY InitInv, NextInv, PTL DEF Spec

-----------------------------------------------------------------------------
(* What follows from it.                                                    *)

\* The variables keep their types.
THEOREM TypeCorrect == Spec => []TypeOK
<1>1. IInv => TypeOK
  OBVIOUS
<1> QED BY <1>1, Invariance, PTL

\* A hook's view stays in its window, and alive, until the hook returns
\* (HaikuCompositor.cpp:163-273, 359-376).
THEOREM HandlerSeesLiveViewCorrect == Spec => []HandlerSeesLiveView
<1>1. IInv => HandlerSeesLiveView
  BY DEF HandlerSeesLiveView, Hooks, Tree, TypeOK
<1> QED BY <1>1, Invariance, PTL

\* No thread waits for the server's lock while it owns a window's lock
\* (WaylandEnv.h:27, 83-86).
THEOREM NoLockOrderInversionCorrect == Spec => []NoLockOrderInversion
<1>1. ASSUME IInv PROVE NoLockOrderInversion
  <2>1. ASSUME NEW w \in Windows, wpc[w] = "lockServer", NEW u \in Windows PROVE owner[u] # w
    BY <1>1, <2>1 DEF Ownership, OwnsWindowPCs
  <2>2. ASSUME spc = "lockServer", globalLocked > 0, NEW u \in Windows PROVE owner[u] # Server
    BY <1>1, <2>2 DEF Ownership, ServerOwnsHeld, WaitLocals
  <2> QED BY <2>1, <2>2 DEF NoLockOrderInversion
<1> QED BY <1>1, Invariance, PTL

\* The assertions of WaylandEnv.h cannot fail.
THEOREM AssertsHoldCorrect == Spec => []AssertsHold
<1>1. ASSUME IInv PROVE AssertsHold
  <2>1. ASSUME NEW w \in Windows, wpc[w] = "enter"
        PROVE  owner[w] = w /\ depth[w] = 1
    BY <1>1, <2>1 DEF Ownership, OwnsWindowPCs, Threads
  <2>2. ASSUME NEW w \in Windows, wpc[w] = "enter", target[w] # NoView
        PROVE  env[target[w]] = "null"
    BY <1>1, <2>2 DEF Hooks, EnvPCs, TypeOK
  <2>3. ASSUME spc = "checkEnv" PROVE env[cur] # "awaited"
    <3>1. cur \in Views
      BY <1>1, <2>3 DEF Walk, WalkPCs, WaitPCs
    <3> QED BY <1>1, <2>3, <3>1 DEF Handover
  <2> QED BY <2>1, <2>2, <2>3 DEF AssertsHold
<1> QED BY <1>1, Invariance, PTL

\* A view leaves its window under both locks, owned as often as before the wait, and a
\* request leaves nothing locked (WaylandEnv.h:48-95, HaikuCompositor.cpp:359-376).
THEOREM DetachKeepsLocksCorrect == Spec => []DetachKeepsLocks
<1>1. ASSUME IInv PROVE DetachKeepsLocks
  <2>1. spc \in {"walk", "removeSelf", "deleteView", "serving", "return"} =>
          owner[Server] = Server /\ depth[Server] = 1
    BY <1>1 DEF Ownership, ServerOwnsServer, Threads
  <2>2. spc \in {"walk", "removeSelf", "deleteView"} /\ held # NoWindow =>
          owner[held] = Server /\ depth[held] = 1
    BY <1>1 DEF Ownership, ServerOwnsHeld, Threads, TypeOK
  <2>3. spc \in {"serving", "return"} => \A w \in Windows : owner[w] # Server
    BY <1>1 DEF Ownership, ServerOwnsHeld
  <2>4. spc = "idle" => \A l \in Threads : owner[l] # Server
    BY <1>1 DEF Ownership, ServerOwnsHeld, ServerOwnsServer, Threads
  <2> QED BY <2>1, <2>2, <2>3, <2>4 DEF DetachKeepsLocks
<1> QED BY <1>1, Invariance, PTL

\* The server thread does not sleep on a semaphore that will not be posted
\* (WaylandEnv.h:36-43, 59-72).
THEOREM NoLostWakeupCorrect == Spec => []NoLostWakeup
<1>1. ASSUME IInv PROVE NoLostWakeup
  <2> SUFFICES ASSUME spc = "semWait", ~ (sem > 0)
               PROVE  /\ env[cur] = "awaited"
                      /\ \E w \in Windows : wpc[w] # "idle" /\ target[w] = cur
    BY DEF NoLostWakeup
  <2>1. env[cur] = "awaited" /\ cur \in Views
    BY <1>1 DEF Handover, Walk, WalkPCs, WaitPCs
  <2>2. PICK w \in Windows : wpc[w] \in EnvPCs /\ target[w] = cur
    BY <1>1, <2>1 DEF Hooks
  <2> QED BY <2>1, <2>2 DEF EnvPCs
<1> QED BY <1>1, Invariance, PTL

-----------------------------------------------------------------------------
(* fActiveWlEnv is written under the window's lock.                         *)

\* Only EnterEnv and ClearEnv of a hook on v, and SleepOnEnv for v, write env[v]
\* (WaylandEnv.h:17-44, 59-63).
THEOREM EnvWrittenUnderLockCorrect == Spec => EnvWrittenUnderLock
<1> DEFINE Owned(v) == /\ looper[v] # NoWindow
                       /\ \/ owner[looper[v]] = Server
                          \/ owner[looper[v]] = looper[v] /\ target[looper[v]] = v
           Act == \A v \in Views : env'[v] # env[v] => Owned(v)
<1>1. ASSUME IInv, [Next]_vars PROVE Act \/ UNCHANGED vars
  <2> SUFFICES ASSUME NEW v \in Views, env'[v] # env[v] PROVE Owned(v)
    OBVIOUS
  <2>1. ASSUME NEW w \in Windows, EnterEnv(w) \/ ClearEnv(w) PROVE Owned(v)
    <3>1. target[w] = v /\ wpc[w] \in {"enter", "clear"}
      BY <1>1, <2>1 DEF EnterEnv, ClearEnv, TypeOK
    <3>2. looper[v] = w /\ owner[w] = w
      BY <1>1, <3>1 DEF Hooks, Ownership, OwnsWindowPCs
    <3> QED BY <3>1, <3>2
  <2>2. ASSUME SleepOnEnv PROVE Owned(v)
    <3>1. cur = v /\ spc = "checkEnv"
      BY <1>1, <2>2 DEF SleepOnEnv, TypeOK
    <3>2. looper[v] = held /\ held # NoWindow
      BY <1>1, <3>1 DEF Walk, WalkPCs, WaitPCs
    <3>3. owner[held] = Server
      BY <1>1, <3>1, <3>2 DEF Ownership, ServerOwnsHeld, TypeOK
    <3> QED BY <3>2, <3>3
  <2>3. ASSUME NEW w \in Windows, HookStep(w) PROVE Owned(v)
    BY <2>1, <2>3 DEF HookStep, LockServer, RunBody, UseWindow, LockOther, LeaveServer,
                      Relock, Finish
  <2>4. ~ ServerDispatch /\ ~ RequestStep /\ ~ DetachStep
    BY DEF ServerDispatch, RequestStep, AskAttachWindow, AskAttachView, AskUseView,
           AskDetach, Ask, AskOther, LockLooper, AttachView, UseView, Return,
           DetachStep, Descend, ReachSelf, RemoveSelf, DeleteView
  <2>5. ASSUME WaitStep PROVE Owned(v)
    BY <2>2, <2>5 DEF WaitStep, BeginWait, WakeUp, RelockLooper, TryLockServer,
                      TryLockFails, LockServerAgain, LockLooperAgain
  <2>6. ~ UNCHANGED vars /\ \A w \in Windows, x \in Views \cup {NoView} : ~ Dispatch(w, x)
    BY DEF vars, Dispatch
  <2> QED BY <1>1, <2>3, <2>4, <2>5, <2>6 DEF Next, ServerStep
<1>2. IInv /\ [Next]_vars => [Act]_vars
  BY <1>1
<1> QED BY <1>2, Invariance, PTL DEF Spec, EnvWrittenUnderLock

-----------------------------------------------------------------------------
(* The locks implement ViewGate.                                            *)

USE DEF attachedViews, busyViews, Gate!Insert, Gate!BeginHook, Gate!EndHook, Gate!Remove

\* A hook on a view begins; one on the window itself is no step of the gate.
LEMMA DispatchGate ==
  ASSUME IInv, NEW w \in Windows, NEW v \in Views \cup {NoView}, Dispatch(w, v)
  PROVE  Gate!GateNext \/ UNCHANGED Gate!gateVars
<1>1. CASE v = NoView
  BY <1>1 DEF Dispatch, TypeOK, Gate!gateVars
<1>2. CASE v # NoView
  <2>1. v \in Views /\ looper[v] = w
    BY <1>2 DEF Dispatch
  <2>2. v \in attachedViews /\ attachedViews' = attachedViews
    BY <2>1 DEF Dispatch
  <2>3. v \notin busyViews
    BY <2>1 DEF Dispatch, Hooks
  <2>4. busyViews' = busyViews \cup {v}
    BY <2>1 DEF Dispatch, TypeOK
  <2> QED BY <2>1, <2>2, <2>3, <2>4 DEF Gate!GateNext
<1> QED BY <1>1, <1>2

\* It returns: no other window thread has a hook on the same view.
LEMMA FinishGate ==
  ASSUME IInv, NEW w \in Windows, Finish(w)
  PROVE  Gate!GateNext \/ UNCHANGED Gate!gateVars
<1>1. CASE target[w] = NoView
  BY <1>1 DEF Finish, TypeOK, Gate!gateVars
<1>2. CASE target[w] # NoView
  <2> DEFINE v == target[w]
  <2>1. v \in Views /\ v \in busyViews /\ attachedViews' = attachedViews
    BY <1>2 DEF Finish, TypeOK
  <2>2. \A u \in Windows : wpc[u] # "idle" /\ target[u] = v => u = w
    BY <1>2, <2>1 DEF Finish, Hooks
  <2>3. busyViews' = busyViews \ {v}
    BY <1>2, <2>2 DEF Finish, TypeOK
  <2> QED BY <2>1, <2>3 DEF Gate!GateNext
<1> QED BY <1>1, <1>2

\* The other steps of a hook keep it begun.
LEMMA HookStepGate ==
  ASSUME IInv, NEW w \in Windows, HookStep(w)
  PROVE  Gate!GateNext \/ UNCHANGED Gate!gateVars
<1>1. CASE Finish(w)
  BY <1>1, FinishGate
<1>2. CASE ~ Finish(w)
  <2>1. UNCHANGED <<target, looper>> /\ wpc[w] # "idle"
    BY <1>2 DEF HookStep, EnterEnv, LockServer, RunBody, UseWindow, LockOther,
                LeaveServer, Relock, ClearEnv
  <2>2. \E pc \in HookPCs \ {"idle"} : wpc' = [wpc EXCEPT ![w] = pc]
    BY <1>2 DEF HookStep, HookPCs, EnterEnv, LockServer, RunBody, UseWindow, LockOther,
                LeaveServer, Relock, ClearEnv
  <2>3. \A u \in Windows : wpc'[u] # "idle" <=> wpc[u] # "idle"
    BY <2>1, <2>2 DEF TypeOK
  <2> QED BY <2>1, <2>3 DEF Gate!gateVars
<1> QED BY <1>1, <1>2

\* A surface's view enters a window, unless that window is gone already.
LEMMA AttachViewGate ==
  ASSUME IInv, AttachView
  PROVE  Gate!GateNext \/ UNCHANGED Gate!gateVars
<1>1. req \in Views /\ looper[req] = NoWindow /\ busyViews' = busyViews
  BY DEF AttachView, Request
<1>2. looper' = [looper EXCEPT ![req] = held]
  BY DEF AttachView
<1>3. CASE held = NoWindow
  BY <1>1, <1>2, <1>3 DEF TypeOK, Gate!gateVars
<1>4. CASE held # NoWindow
  <2>1. req \notin attachedViews /\ attachedViews' = attachedViews \cup {req}
    BY <1>1, <1>2, <1>4 DEF TypeOK
  <2> QED BY <1>1, <2>1 DEF Gate!GateNext
<1> QED BY <1>3, <1>4

\* A view leaves its window without an environment: no hook of it is between its
\* dispatch and its return, for those own the window or have an environment.
LEMMA RemoveSelfGate ==
  ASSUME IInv, RemoveSelf
  PROVE  Gate!GateNext \/ UNCHANGED Gate!gateVars
<1>1. cur \in Views /\ looper[cur] = held /\ env[cur] = "null" /\ spc = "removeSelf"
  BY DEF RemoveSelf, Walk, WalkPCs, Handover
<1>2. looper' = [looper EXCEPT ![cur] = NoWindow] /\ busyViews' = busyViews
  BY DEF RemoveSelf
<1>3. CASE held = NoWindow
  BY <1>1, <1>2, <1>3 DEF TypeOK, Gate!gateVars
<1>4. CASE held # NoWindow
  <2>1. held \in Windows /\ owner[held] = Server
    BY <1>1, <1>4 DEF Ownership, ServerOwnsHeld, TypeOK
  <2>2. cur \notin busyViews
    <3> SUFFICES ASSUME NEW w \in Windows, wpc[w] # "idle", target[w] = cur PROVE FALSE
      OBVIOUS
    <3>1. w = held
      BY <1>1 DEF Hooks
    <3>2. wpc[w] \notin OwnsWindowPCs
      BY <2>1, <3>1 DEF Ownership
    <3>3. wpc[w] \in EnvPCs
      BY <3>2 DEF OwnsWindowPCs, EnvPCs, HookPCs, TypeOK
    <3> QED BY <1>1, <3>3 DEF Hooks
  <2>3. cur \in attachedViews /\ attachedViews' = attachedViews \ {cur}
    BY <1>1, <1>2, <1>4 DEF TypeOK
  <2> QED BY <1>1, <1>2, <2>2, <2>3 DEF Gate!GateNext
<1> QED BY <1>3, <1>4

\* Of the server thread's steps, only those two move a view.
LEMMA ServerStepGate ==
  ASSUME IInv, ServerStep
  PROVE  Gate!GateNext \/ UNCHANGED Gate!gateVars
<1>1. CASE AttachView
  BY <1>1, AttachViewGate
<1>2. CASE RemoveSelf
  BY <1>2, RemoveSelfGate
<1>3. CASE ~ AttachView /\ ~ RemoveSelf
  <2>1. CASE RequestStep
    BY <1>3, <2>1 DEF RequestStep, AskAttachWindow, AskAttachView, AskUseView, AskDetach,
                      Ask, AskOther, LockLooper, UseView, Return, Gate!gateVars
  <2>2. CASE DetachStep
    BY <1>3, <2>2 DEF DetachStep, Descend, ReachSelf, DeleteView, Gate!gateVars
  <2>3. CASE WaitStep
    BY <2>3 DEF WaitStep, BeginWait, SleepOnEnv, WakeUp, RelockLooper, TryLockServer,
                TryLockFails, LockServerAgain, LockLooperAgain, Gate!gateVars
  <2> QED BY <2>1, <2>2, <2>3 DEF ServerStep
<1> QED BY <1>1, <1>2, <1>3

\* For any number of windows and views the locks, the semaphore and the retries of
\* WaylandEnv.h amount to ViewGate: a view leaves its window only between its hooks.
THEOREM ImplementsGateCorrect == Spec => ImplementsGate
<1>1. Init => Gate!GateInit
  BY DEF Init, Gate!GateInit
<1>2. IInv /\ [Next]_vars => [Gate!GateNext]_(Gate!gateVars)
  <2> SUFFICES ASSUME IInv, [Next]_vars
               PROVE  Gate!GateNext \/ UNCHANGED Gate!gateVars
    OBVIOUS
  <2>1. CASE \E w \in Windows, v \in Views \cup {NoView} : Dispatch(w, v)
    BY <2>1, DispatchGate
  <2>2. CASE \E w \in Windows : HookStep(w)
    BY <2>2, HookStepGate
  <2>3. CASE ServerDispatch
    BY <2>3 DEF ServerDispatch, Gate!gateVars
  <2>4. CASE ServerStep
    BY <2>4, ServerStepGate
  <2>5. CASE UNCHANGED vars
    BY <2>5 DEF vars, Gate!gateVars
  <2> QED BY <2>1, <2>2, <2>3, <2>4, <2>5 DEF Next
<1> QED BY <1>1, <1>2, Invariance, PTL DEF Spec, ImplementsGate, Gate!GateSpec
=============================================================================
