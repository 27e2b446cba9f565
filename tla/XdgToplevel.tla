---------------------------- MODULE XdgToplevel ----------------------------
(***************************************************************************)
(* A toplevel window and its client: configure, ack and commit              *)
(* (HaikuXdgSurface.cpp), user resizes, activation and full screen          *)
(* (HaikuXdgToplevel.cpp), and the decoration the client asks for           *)
(* (HaikuServerDecoration.cpp).                                             *)
(*                                                                         *)
(* Requests run on the server thread and hooks on the window thread; both   *)
(* own the server's lock (WaylandEnv), so each is one step, except that the *)
(* window has a resize to report before its hook gets that lock.            *)
(* A size stands for width and height together, 0 for that of BRect(). What *)
(* nothing here reads is left out: positions, size limits, the title.       *)
(***************************************************************************)
EXTENDS Naturals, Sequences

CONSTANTS
  Decorations, NoDecoration,  \* the decoration objects the client makes for the surface
  Sizes,      \* sizes the user, the client and the screen may choose ...
  Screen,     \* ... the screen's
  Offsets,    \* where the window's geometry begins in its surface
  MaxSerial,  \* a bound on the configure events sent
  MaxResizes  \* a bound on the resizes the window has yet to report

ASSUME SizesAssumption == Sizes \subseteq Nat \ {0} /\ Screen \in Sizes
ASSUME DecorationsAssumption == NoDecoration \notin Decorations
ASSUME BoundsAssumption == MaxSerial \in Nat /\ MaxResizes \in Nat

VARIABLES
  toplevel,         \* the xdg_toplevel and its window exist
  decoration,       \* fServerDecoration of the surface
  mode,             \* fMode of each decoration, or "absent" or "released"
  told,             \* the mode the client was last sent, as the default or for the decoration
  look,             \* the window's look
  styled,           \* history: the decoration that look was last set from
  undefined,        \* a decoration was followed that is no more
  geometry,         \* fGeometry and fPendingGeometry
  pendingGeometry,
  bitmap,           \* the size of the surface's buffer, 0 for none
  serial,           \* fSerial, fAckSerial, fResizeSerial
  ackSerial,
  resizeSerial,
  configureCalled,
  shown,            \* fSurfaceInitalized: the window was shown
  width,            \* fWidth and fHeight
  sizeChanged,      \* fSizeChanged
  fullscreen, activated,    \* fState
  saved,            \* fSavedPos
  frame,            \* the window's frame
  resizes,          \* the resizes the app_server has yet to report to it
  reported,         \* the size of the FrameResized that waits for the lock, if any
  unacked           \* the configures for user resizes the client has not acked

surface == <<geometry, pendingGeometry, bitmap, configureCalled, shown>>
serials == <<serial, ackSerial, resizeSerial>>
decor == <<decoration, mode, told, look, styled, undefined>>
states == <<fullscreen, activated, saved>>
window == <<frame, resizes, reported>>
vars == <<toplevel, decor, surface, serials, width, sizeChanged, states, window, unacked>>

Modes == {"none", "client", "server"}
\* What is announced when a client binds the decoration manager.
DefaultMode == "server"

NoGeometry == [valid |-> FALSE, x |-> 0, size |-> 0]
Geometries == {NoGeometry} \cup [valid : {TRUE}, x : Offsets, size : Sizes]

TypeOK ==
  /\ toplevel \in BOOLEAN
  /\ decoration \in Decorations \cup {NoDecoration}
  /\ mode \in [Decorations -> Modes \cup {"absent", "released"}]
  /\ told \in [Decorations -> Modes]
  /\ look \in {"noBorder", "titled"}
  /\ styled \in Decorations \cup {NoDecoration}
  /\ undefined \in BOOLEAN
  /\ geometry \in Geometries /\ pendingGeometry \in Geometries
  /\ bitmap \in Sizes \cup {0}
  /\ serial \in Nat /\ ackSerial \in 1..serial /\ resizeSerial \in 0..(serial - 1)
  /\ configureCalled \in BOOLEAN /\ shown \in BOOLEAN
  /\ width \in Sizes \cup {0}
  /\ sizeChanged \in BOOLEAN
  /\ fullscreen \in BOOLEAN /\ activated \in BOOLEAN
  /\ saved \in Sizes \cup {0}
  /\ frame \in Sizes \cup {0}
  /\ resizes \in Seq(Sizes \cup {0})
  /\ reported \in {<<>>} \cup {<<size>> : size \in Sizes \cup {0}}
  /\ unacked \subseteq Nat

Init ==
  /\ toplevel = FALSE
  /\ decoration = NoDecoration
  /\ mode = [d \in Decorations |-> "absent"]
  /\ told = [d \in Decorations |-> DefaultMode]
  /\ look = "noBorder" /\ styled = NoDecoration
  /\ undefined = FALSE
  /\ geometry = NoGeometry /\ pendingGeometry = NoGeometry
  /\ bitmap = 0
  /\ serial = 1 /\ ackSerial = 1 /\ resizeSerial = 0
  /\ configureCalled = FALSE /\ shown = FALSE
  /\ width = 0 /\ sizeChanged = FALSE
  /\ fullscreen = FALSE /\ activated = FALSE /\ saved = 0
  /\ frame = 0 /\ resizes = <<>> /\ reported = <<>>
  /\ unacked = {}

-----------------------------------------------------------------------------
\* DoSendConfigure with fWidth and fState, and SendConfigure(NextSerial()).
SendConfigure == serial <= MaxSerial /\ serial' = serial + 1

\* BWindow::ResizeTo: the app_server will report the new size.
ResizeTo(size) ==
  IF size = frame THEN UNCHANGED <<frame, resizes>>
  ELSE /\ Len(resizes) < MaxResizes
       /\ frame' = size
       /\ resizes' = Append(resizes, size)

HasServerDecoration ==
  geometry.valid /\ decoration # NoDecoration /\ mode[decoration] = "server"

Look(m) == IF m = "server" THEN "titled" ELSE "noBorder"

\* The surface keeps its pointer to a decoration that is released.
Released == decoration # NoDecoration /\ mode[decoration] = "released"

-----------------------------------------------------------------------------
(* Requests.                                                                *)

GetToplevel ==
  /\ ~ toplevel
  /\ toplevel' = TRUE
  /\ UNCHANGED <<decor, surface, serials, width, sizeChanged, states, window, unacked>>

\* A surface may be given a decoration again: the new one takes the place of the old one,
\* which the window keeps the look of.
CreateDecoration(d) ==
  /\ mode[d] = "absent"
  /\ mode' = [mode EXCEPT ![d] = "none"]
  /\ decoration' = d
  /\ UNCHANGED <<toplevel, told, look, styled, undefined, surface, serials, width, sizeChanged,
                 states, window, unacked>>

\* Fault: the mode is left to the first commit.
HandleRequestModeLater(d, m) ==
  /\ mode[d] \in Modes
  /\ mode' = [mode EXCEPT ![d] = m]
  /\ UNCHANGED <<toplevel, decoration, told, look, styled, undefined, surface, serials, width,
                 sizeChanged, states, window, unacked>>

\* A decoration sets the look of the window also when another has taken its place.
HandleRequestMode(d, m) ==
  /\ mode[d] \in Modes
  /\ mode' = [mode EXCEPT ![d] = m]
  /\ IF toplevel THEN look' = Look(m) /\ styled' = d ELSE UNCHANGED <<look, styled>>
  /\ UNCHANGED <<toplevel, decoration, told, undefined, surface, serials, width, sizeChanged,
                 states, window, unacked>>

\* Its destructor does not tell the surface.
ReleaseDecoration(d) ==
  /\ mode[d] \in Modes
  /\ mode' = [mode EXCEPT ![d] = "released"]
  /\ UNCHANGED <<toplevel, decoration, told, look, styled, undefined, surface, serials, width,
                 sizeChanged, states, window, unacked>>

\* HasServerDecoration, in a commit or in FrameResized, or the first show follows a
\* decoration that is no more.
UseReleased ==
  /\ toplevel /\ Released
  /\ geometry.valid \/ ~ shown
  /\ undefined' = TRUE
  /\ UNCHANGED <<toplevel, decoration, mode, told, look, styled, surface, serials, width,
                 sizeChanged, states, window, unacked>>

HandleSetWindowGeometry(g) ==
  /\ toplevel
  /\ pendingGeometry' = g
  /\ UNCHANGED <<toplevel, decor, geometry, bitmap, configureCalled, shown, serials, width,
                 sizeChanged, states, window, unacked>>

\* A client acks the configures it was sent, in their order; an ack covers the earlier ones.
HandleAckConfigure(s) ==
  /\ ackSerial <= s /\ s < serial
  /\ ackSerial' = s
  /\ unacked' = {r \in unacked : r > s}
  /\ UNCHANGED <<toplevel, decor, surface, serial, resizeSerial, width, sizeChanged, states,
                 window>>

\* Fault: the commit wins over a resize the client has not acked.
CommitDecoratedAlways ==
  IF geometry = pendingGeometry \/ pendingGeometry.size = width
  THEN UNCHANGED <<width, sizeChanged, frame, resizes>>
  ELSE /\ sizeChanged' = TRUE
       /\ width' = pendingGeometry.size
       /\ ResizeTo(pendingGeometry.size)

\* The window takes the size of the client's new geometry, unless the client has not
\* acked the last resize by the user.
CommitDecorated ==
  IF resizeSerial > ackSerial \/ geometry = pendingGeometry \/ pendingGeometry.size = width
  THEN UNCHANGED <<width, sizeChanged, frame, resizes>>
  ELSE /\ sizeChanged' = TRUE
       /\ width' = pendingGeometry.size
       /\ ResizeTo(pendingGeometry.size)

\* Without a decoration the window takes the size of the buffer.
CommitUndecorated(size) ==
  /\ IF size = 0 THEN UNCHANGED <<frame, resizes>> ELSE ResizeTo(size)
  /\ UNCHANGED <<width, sizeChanged>>

\* wl_surface.commit with a buffer of that size: XdgSurfaceHook::HandleCommit.
HandleCommit(size) ==
  /\ toplevel
  /\ ~ (Released /\ (geometry.valid \/ (~ shown /\ size # 0)))
  /\ bitmap' = size
  /\ IF HasServerDecoration THEN CommitDecorated ELSE CommitUndecorated(size)
  /\ geometry' = pendingGeometry
  /\ shown' = (shown \/ size # 0)
  /\ IF ~ shown /\ size # 0 /\ decoration # NoDecoration
     THEN look' = Look(mode[decoration]) /\ styled' = decoration
     ELSE UNCHANGED <<look, styled>>
  /\ configureCalled' = TRUE
  /\ IF configureCalled THEN UNCHANGED serial ELSE SendConfigure
  /\ UNCHANGED <<toplevel, decoration, mode, told, undefined, pendingGeometry, ackSerial,
                 resizeSerial, states, reported, unacked>>

HandleSetFullscreen ==
  /\ toplevel /\ ~ fullscreen
  /\ fullscreen' = TRUE
  /\ sizeChanged' = TRUE
  /\ saved' = frame
  /\ ResizeTo(Screen)
  /\ width' = Screen
  /\ SendConfigure
  /\ UNCHANGED <<toplevel, decor, surface, ackSerial, resizeSerial, activated, reported,
                 unacked>>

HandleUnsetFullscreen ==
  /\ toplevel /\ fullscreen
  /\ fullscreen' = FALSE
  /\ sizeChanged' = TRUE
  /\ ResizeTo(saved)
  /\ width' = saved
  /\ SendConfigure
  /\ UNCHANGED <<toplevel, decor, surface, ackSerial, resizeSerial, activated, saved,
                 reported, unacked>>

-----------------------------------------------------------------------------
(* The window.                                                              *)

\* The user drags a border of the visible window.
UserResize(size) ==
  /\ shown
  /\ Len(resizes) < MaxResizes
  /\ resizes' = Append(resizes, size)
  /\ UNCHANGED <<toplevel, decor, surface, serials, width, sizeChanged, states, frame,
                 reported, unacked>>

\* BWindow adopts the next size it is told and calls FrameResized, which waits for the
\* server's lock.
ReportResize ==
  /\ resizes # <<>> /\ reported = <<>>
  /\ frame' = Head(resizes)
  /\ reported' = <<Head(resizes)>>
  /\ resizes' = Tail(resizes)
  /\ UNCHANGED <<toplevel, decor, surface, serials, width, sizeChanged, states, unacked>>

ConfigureResize(size) ==
  /\ width' = size
  /\ resizeSerial' = serial
  /\ SendConfigure
  /\ unacked' = unacked \cup {serial}

\* A resize the program asked for is passed over; one by the user is sent to the client.
FrameResized ==
  /\ reported # <<>>
  /\ ~ (~ sizeChanged /\ geometry.valid /\ Released)
  /\ reported' = <<>>
  /\ IF sizeChanged
     THEN sizeChanged' = FALSE /\ UNCHANGED <<width, serial, resizeSerial, unacked>>
     ELSE /\ UNCHANGED sizeChanged
          /\ IF ~ HasServerDecoration \/ reported[1] = width
             THEN UNCHANGED <<width, serial, resizeSerial, unacked>>
             ELSE ConfigureResize(reported[1])
  /\ UNCHANGED <<toplevel, decor, surface, ackSerial, states, frame, resizes>>

WindowActivated ==
  /\ shown
  /\ activated' = ~ activated
  /\ SendConfigure
  /\ UNCHANGED <<toplevel, decor, surface, ackSerial, resizeSerial, width, sizeChanged,
                 fullscreen, saved, window, unacked>>

DecorationNext ==
  \E d \in Decorations : \/ CreateDecoration(d) \/ ReleaseDecoration(d)
                         \/ \E m \in Modes : HandleRequestMode(d, m)

ToplevelNext ==
  \/ GetToplevel \/ UseReleased
  \/ \E g \in Geometries \ {NoGeometry} : HandleSetWindowGeometry(g)
  \/ \E s \in 1..MaxSerial : HandleAckConfigure(s)
  \/ \E size \in Sizes \cup {0} : HandleCommit(size)
  \/ HandleSetFullscreen \/ HandleUnsetFullscreen

WindowNext ==
  \/ \E size \in Sizes : UserResize(size)
  \/ ReportResize \/ FrameResized \/ WindowActivated

\* Nothing is known of what follows once a decoration was used that is no more.
Next == ~ undefined /\ (DecorationNext \/ ToplevelNext \/ WindowNext)

Spec == Init /\ [][Next]_vars

\* The window's looper handles what is queued for it.
FairSpec == Spec /\ WF_vars(~ undefined /\ ReportResize) /\ WF_vars(~ undefined /\ FrameResized)

-----------------------------------------------------------------------------
(* Properties.                                                              *)

\* A commit does not undo a resize by the user that the client has not heard of: the
\* window of a decorated surface follows a commit only when the client has acked every
\* configure for such a resize, whatever other configures, acks and commits came between
\* (HaikuXdgSurface.cpp:56-73, HaikuXdgToplevel.cpp:76-98).
UserResizeWins ==
  [][(\E size \in Sizes \cup {0} : HandleCommit(size)) /\ HasServerDecoration /\ frame' # frame
       => unacked = {}]_vars

\* A visible window looks as the mode of its decoration says, in whatever order the client
\* made the decoration, its mode, the toplevel and its first buffer, and whatever
\* decorations took its place or were released since: that decoration is the one the look
\* was last set from, which a new one without a request does not change, or else the
\* surface's (HaikuXdgSurface.cpp:95-104, HaikuServerDecoration.cpp:58-92).
LookFollowsMode ==
  shown => LET d == IF styled = NoDecoration THEN decoration ELSE styled
           IN  d # NoDecoration /\ mode[d] \in Modes => look = Look(mode[d])

\* A client knows the mode of its decoration.  "When a new server decoration object is
\* created this new object will be in the default mode until the first request_mode is
\* requested", the mode event "is emitted directly after the decoration is created", and of
\* a request it is said that "The server will acknowledge this by another event with the
\* same mode" (protocols/server-decoration.xml:51-54, 77, 84).  A new decoration is in
\* modeNone, not the modeServer that was announced
\* (HaikuServerDecoration.h:22, HaikuServerDecoration.cpp:45), and no mode event is sent
\* (HaikuServerDecoration.cpp:58-92).
ModeIsKnown ==
  \A d \in Decorations, m \in Modes :
    mode[d] = m ~> (told[d] = m \/ mode[d] # m \/ undefined)

=============================================================================
