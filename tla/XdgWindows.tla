----------------------------- MODULE XdgWindows -----------------------------
(***************************************************************************)
(* How the windows of toplevels and popups begin and end                    *)
(* (HaikuXdgToplevel.cpp, HaikuXdgPopup.cpp): a window may be asked to quit *)
(* by the user and by the application, and its role is destroyed by the     *)
(* client.                                                                  *)
(*                                                                         *)
(* A hook owns the server's lock and is one step, up to its return; a       *)
(* client request is one step too, unless it waits in Detach for a hook of  *)
(* the view, when it gives the lock up (WaylandEnv).                        *)
(***************************************************************************)
EXTENDS Naturals

CONSTANTS
  Toplevels, Popups,  \* roles, each with the window it creates
  MaxCloses           \* a bound on how often a window is asked to quit from outside

ASSUME RolesAssumption == Toplevels \cap Popups = {}
ASSUME MaxClosesAssumption == MaxCloses \in Nat

Roles == Toplevels \cup Popups

VARIABLES
  role,         \* the HaikuXdgToplevel or HaikuXdgPopup
  named,        \* the window's fToplevel or fPopup is not NULL
  window,       \* the BWindow; "quit" when its QuitRequested has agreed
  view,         \* the surface's view is in the window
  inbox,        \* the B_QUIT_REQUESTED messages the window has yet to handle
  closes,       \* how many of them came from outside
  asked,        \* the client was sent close or popup_done
  badDeletion,  \* ~WaylandView found that its surface still had it
  crashed       \* a null pointer, or what was deleted, was used

vars == <<role, named, window, view, inbox, closes, asked, badDeletion, crashed>>

TypeOK ==
  /\ role \in [Roles -> {"none", "alive", "dying", "destroyed"}]
  /\ named \in [Roles -> BOOLEAN]
  /\ window \in [Roles -> {"none", "open", "quit", "gone"}]
  /\ view \in [Roles -> BOOLEAN]
  /\ inbox \in [Roles -> Nat]
  /\ closes \in [Roles -> 0..MaxCloses]
  /\ asked \in [Roles -> BOOLEAN]
  /\ badDeletion \in [Roles -> BOOLEAN]
  /\ crashed \in BOOLEAN
  /\ \A r \in Roles : window[r] = "none" <=> role[r] = "none"

Init ==
  /\ role = [r \in Roles |-> "none"]
  /\ named = [r \in Roles |-> FALSE]
  /\ window = [r \in Roles |-> "none"]
  /\ view = [r \in Roles |-> FALSE]
  /\ inbox = [r \in Roles |-> 0]
  /\ closes = [r \in Roles |-> 0]
  /\ asked = [r \in Roles |-> FALSE]
  /\ badDeletion = [r \in Roles |-> FALSE]
  /\ crashed = FALSE

-----------------------------------------------------------------------------
(* Requests.                                                                *)

\* The server thread is not waiting in the destructor of a role.
Serving == ~ crashed /\ \A r \in Roles : role[r] # "dying"

\* HaikuXdgToplevel::Create, HaikuXdgPopup::Create.
Create(r) ==
  /\ Serving /\ role[r] = "none"
  /\ role' = [role EXCEPT ![r] = "alive"]
  /\ named' = [named EXCEPT ![r] = TRUE]
  /\ window' = [window EXCEPT ![r] = "open"]
  /\ view' = [view EXCEPT ![r] = TRUE]
  /\ UNCHANGED <<inbox, closes, asked, badDeletion, crashed>>

\* Fault: the view stays where it is.
DestroyAttached(r) ==
  /\ role' = [role EXCEPT ![r] = "destroyed"]
  /\ named' = [named EXCEPT ![r] = FALSE]
  /\ inbox' = [inbox EXCEPT ![r] = @ + 1]
  /\ UNCHANGED <<view, window, closes, asked, badDeletion, crashed>>

\* Fault: the window is told to quit only when the client was asked to close it.
DestroyQuietly(r) ==
  IF window[r] = "gone"
  THEN crashed' = TRUE /\ UNCHANGED <<role, named, view, inbox, window, closes, asked, badDeletion>>
  ELSE /\ role' = [role EXCEPT ![r] = "destroyed"]
       /\ named' = [named EXCEPT ![r] = FALSE]
       /\ view' = [view EXCEPT ![r] = FALSE]
       /\ inbox' = IF asked[r] THEN [inbox EXCEPT ![r] = @ + 1] ELSE inbox
       /\ UNCHANGED <<window, closes, asked, badDeletion, crashed>>

\* Detach, which locks the window by way of the view, fToplevel = NULL or fPopup = NULL,
\* and PostMessage(B_QUIT_REQUESTED): none of it can be done with a window that is gone.
Destroy(r) ==
  IF window[r] = "gone"
  THEN crashed' = TRUE /\ UNCHANGED <<role, named, view, inbox, window, closes, asked, badDeletion>>
  ELSE /\ role' = [role EXCEPT ![r] = "destroyed"]
       /\ named' = [named EXCEPT ![r] = FALSE]
       /\ view' = [view EXCEPT ![r] = FALSE]
       /\ inbox' = [inbox EXCEPT ![r] = @ + 1]
       /\ UNCHANGED <<window, closes, asked, badDeletion, crashed>>

DestroyRole(r) == Serving /\ role[r] = "alive" /\ Destroy(r)

\* The destructor finds a hook of the view running, and waits in Detach.
DestroyWaits(r) ==
  /\ Serving /\ role[r] = "alive" /\ window[r] = "open"
  /\ role' = [role EXCEPT ![r] = "dying"]
  /\ UNCHANGED <<named, window, view, inbox, closes, asked, badDeletion, crashed>>

Detached(r) == ~ crashed /\ role[r] = "dying" /\ Destroy(r)

-----------------------------------------------------------------------------
(* The window.                                                              *)

\* The user closes the window, or the application is told to quit.
Close(r) ==
  /\ ~ crashed /\ window[r] = "open" /\ closes[r] < MaxCloses
  /\ closes' = [closes EXCEPT ![r] = @ + 1]
  /\ inbox' = [inbox EXCEPT ![r] = @ + 1]
  /\ UNCHANGED <<role, named, window, view, asked, badDeletion, crashed>>

\* WaylandWindow::QuitRequested: it is for the client to destroy the toplevel.
CloseToplevel(r) == /\ asked' = [asked EXCEPT ![r] = @ \/ named[r]]
                    /\ window' = [window EXCEPT ![r] = IF named[r] THEN @ ELSE "quit"]

\* WaylandPopupWindow::QuitRequested: it quits, whatever the client does.
ClosePopup(r) == /\ asked' = [asked EXCEPT ![r] = @ \/ named[r]]
                 /\ window' = [window EXCEPT ![r] = "quit"]

QuitRequested(r) ==
  /\ ~ crashed /\ window[r] = "open" /\ inbox[r] > 0
  /\ inbox' = [inbox EXCEPT ![r] = @ - 1]
  /\ IF r \in Popups THEN ClosePopup(r) ELSE CloseToplevel(r)
  /\ UNCHANGED <<role, named, view, closes, badDeletion, crashed>>

\* The hook has its looper back: the window is deleted with the views in it.
Quit(r) ==
  /\ ~ crashed /\ window[r] = "quit"
  /\ window' = [window EXCEPT ![r] = "gone"]
  /\ inbox' = [inbox EXCEPT ![r] = 0]
  /\ badDeletion' = [badDeletion EXCEPT ![r] = view[r]]
  /\ UNCHANGED <<role, named, view, closes, asked, crashed>>

\* FrameResized and WindowActivated of a toplevel's window use fToplevel unseen.
UseToplevel(r) ==
  /\ ~ crashed /\ r \in Toplevels /\ window[r] = "open"
  /\ crashed' = ~ named[r]
  /\ UNCHANGED <<role, named, window, view, inbox, closes, asked, badDeletion>>

WindowStep(r) == QuitRequested(r) \/ Quit(r)

Next == \E r \in Roles : \/ Create(r) \/ DestroyRole(r) \/ DestroyWaits(r) \/ Detached(r)
                         \/ Close(r) \/ WindowStep(r) \/ UseToplevel(r)

Spec == Init /\ [][Next]_vars

\* A window's looper handles its messages, and a hook the server waits for ends.
FairSpec == Spec /\ \A r \in Roles : WF_vars(WindowStep(r)) /\ WF_vars(Detached(r))

-----------------------------------------------------------------------------
(* Properties.                                                              *)

\* The user cannot take a toplevel's window from the client, however often and whenever
\* it is asked to quit, also while the client is destroying the toplevel: it is deleted
\* only when its view is out of it and nothing names it (HaikuXdgToplevel.cpp:49-56,
\* 283-294).
ToplevelWindowIsReleased ==
  \A r \in Toplevels : window[r] \in {"quit", "gone"} =>
    role[r] = "destroyed" /\ ~ view[r] /\ ~ named[r]

\* No window is left behind: when the client has destroyed a role, its window goes away.
WindowsGo == \A r \in Roles : role[r] = "destroyed" ~> window[r] = "gone" \/ crashed

\* A view is deleted by its surface, never with the window it is in: what ~WaylandView
\* tests, debugger("[!] ~WaylandView: bad deletion") (HaikuCompositor.cpp:156-161).  A
\* popup's window agrees to quit while the popup lives (HaikuXdgPopup.cpp:34-40).
NoBadDeletion == \A r \in Roles : ~ badDeletion[r]

=============================================================================
