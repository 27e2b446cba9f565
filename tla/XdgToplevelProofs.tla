-------------------------- MODULE XdgToplevelProofs --------------------------
(***************************************************************************)
(* What XdgToplevel guarantees for any sizes, offsets, and bounds.          *)
(***************************************************************************)
EXTENDS XdgToplevel, TLAPS

\* Until the first configure the window has nothing to report; after it a serial the client
\* has acked is older than the next one.
SerialsBegin ==
  /\ serial = 1 => ~ configureCalled /\ resizes = <<>> /\ reported = <<>>
  /\ shown => configureCalled /\ toplevel
  /\ serial > 1 => ackSerial < serial

\* The configures the client has not acked are not newer than fResizeSerial.
UnackedIsRecorded == \A r \in unacked : ackSerial < r /\ r <= resizeSerial

\* The look is plain until it is first set from a decoration, and stays that of the decoration
\* it was last set from.  A mode asked for while there is a window is its look at once, so
\* that a window which was shown without one has only decorations that were asked for none.
LookIsStyled ==
  /\ decoration = NoDecoration =>
       styled = NoDecoration /\ \A d \in Decorations : mode[d] = "absent"
  /\ decoration # NoDecoration => mode[decoration] # "absent"
  /\ styled = NoDecoration => look = "noBorder"
  /\ styled = NoDecoration /\ shown => \A d \in Decorations : mode[d] \notin {"client", "server"}
  /\ styled # NoDecoration => toplevel /\ mode[styled] # "absent"
  /\ styled # NoDecoration /\ mode[styled] \in Modes => look = Look(mode[styled])

IInv == TypeOK /\ SerialsBegin /\ UnackedIsRecorded /\ LookIsStyled

-----------------------------------------------------------------------------
LEMMA GeometryTypes == NoGeometry \in Geometries
  BY DEF Geometries

LEMMA GeometrySize == \A g \in Geometries : g.size \in Sizes \cup {0}
<1> TAKE g \in Geometries
<1>1. CASE g = NoGeometry
  BY <1>1 DEF NoGeometry
<1>2. CASE g \in [valid : {TRUE}, x : Offsets, size : Sizes]
  BY <1>2
<1> QED BY <1>1, <1>2 DEF Geometries

\* What ResizeTo does to the frame and the resizes that are to be reported.
LEMMA ResizeToTypes ==
  ASSUME NEW size \in Sizes \cup {0}, TypeOK, ResizeTo(size)
  PROVE  frame' \in Sizes \cup {0} /\ resizes' \in Seq(Sizes \cup {0})
<1> DEFINE S == Sizes \cup {0}
<1>1. frame \in S /\ resizes \in Seq(S)
  BY DEF TypeOK
<1>2. CASE size = frame
  BY <1>1, <1>2 DEF ResizeTo
<1>3. CASE size # frame
  <2>1. frame' = size /\ resizes' = Append(resizes, size)
    BY <1>3 DEF ResizeTo
  <2> HIDE DEF S
  <2>2. Append(resizes, size) \in Seq(S)
    BY <1>1 DEF S
  <2> QED BY <2>1, <2>2 DEF S
<1> QED BY <1>2, <1>3

LEMMA InitIInv == Init => IInv
<1> SUFFICES ASSUME Init  PROVE IInv
  OBVIOUS
<1>1. TypeOK
  <2>1. /\ serial \in Nat /\ ackSerial \in 1..serial /\ resizeSerial \in 0..(serial - 1)
    BY DEF Init
  <2>2. resizes \in Seq(Sizes \cup {0})
    BY DEF Init
  <2> QED BY <2>1, <2>2, GeometryTypes DEF Init, TypeOK, Modes, DefaultMode
<1>2. SerialsBegin /\ UnackedIsRecorded
  BY DEF Init, SerialsBegin, UnackedIsRecorded
<1>3. LookIsStyled
  BY DEF Init, LookIsStyled
<1> QED BY <1>1, <1>2, <1>3 DEF IInv

-----------------------------------------------------------------------------
(* Requests.                                                                *)

LEMMA GetToplevelIInv == ASSUME IInv, GetToplevel  PROVE IInv'
  BY DEF GetToplevel, IInv, TypeOK, SerialsBegin, UnackedIsRecorded, LookIsStyled, Look, decor,
         surface, serials, states, window

\* A new decoration is in no mode, in which the window has no border.
LEMMA CreateDecorationIInv ==
  ASSUME IInv, NEW d \in Decorations, CreateDecoration(d)  PROVE IInv'
<1>1. /\ mode[d] = "absent" /\ decoration' = d /\ d # NoDecoration
      /\ mode' \in [Decorations -> Modes \cup {"absent", "released"}]
      /\ \A e \in Decorations : mode'[e] = IF e = d THEN "none" ELSE mode[e]
  BY DecorationsAssumption DEF CreateDecoration, IInv, TypeOK, Modes
<1>2. TypeOK' /\ SerialsBegin' /\ UnackedIsRecorded'
  BY <1>1 DEF CreateDecoration, IInv, TypeOK, SerialsBegin, UnackedIsRecorded, surface, serials,
              states, window
<1>3. LookIsStyled'
  BY <1>1 DEF CreateDecoration, IInv, TypeOK, LookIsStyled, Look, Modes, surface
<1> QED BY <1>1, <1>2, <1>3 DEF IInv

LEMMA HandleRequestModeIInv ==
  ASSUME IInv, NEW d \in Decorations, NEW m \in Modes, HandleRequestMode(d, m)  PROVE IInv'
<1>1. /\ mode[d] \in Modes /\ d # NoDecoration /\ m # "absent"
      /\ decoration \in Decorations /\ decoration # NoDecoration
      /\ mode' \in [Decorations -> Modes \cup {"absent", "released"}]
      /\ \A e \in Decorations : mode'[e] = IF e = d THEN m ELSE mode[e]
  BY DecorationsAssumption DEF HandleRequestMode, IInv, TypeOK, LookIsStyled, Modes
<1>2. CASE toplevel
  <2>1. /\ look' = Look(m) /\ styled' = d
        /\ UNCHANGED <<toplevel, decoration, told, undefined, surface, serials, width,
                       sizeChanged, states, window, unacked>>
    BY <1>2 DEF HandleRequestMode
  <2>2. TypeOK' /\ SerialsBegin' /\ UnackedIsRecorded'
    BY <1>1, <2>1 DEF IInv, TypeOK, SerialsBegin, UnackedIsRecorded, Look, surface, serials,
                      states, window
  <2>3. LookIsStyled'
    BY <1>1, <1>2, <2>1 DEF IInv, LookIsStyled
  <2> QED BY <2>2, <2>3 DEF IInv
<1>3. CASE ~ toplevel
  <2>1. UNCHANGED <<toplevel, decoration, told, look, styled, undefined, surface, serials, width,
                    sizeChanged, states, window, unacked>>
    BY <1>3 DEF HandleRequestMode
  <2>2. TypeOK' /\ SerialsBegin' /\ UnackedIsRecorded'
    BY <1>1, <2>1 DEF IInv, TypeOK, SerialsBegin, UnackedIsRecorded, surface, serials, states,
           window
  <2>3. ~ shown /\ styled = NoDecoration
    BY <1>3 DEF IInv, SerialsBegin, LookIsStyled
  <2>4. LookIsStyled'
    BY <1>1, <1>3, <2>1, <2>3 DEF IInv, LookIsStyled, surface
  <2> QED BY <2>2, <2>4 DEF IInv
<1> QED BY <1>2, <1>3 DEF IInv, TypeOK

LEMMA ReleaseDecorationIInv ==
  ASSUME IInv, NEW d \in Decorations, ReleaseDecoration(d)  PROVE IInv'
<1>1. /\ mode[d] \in Modes /\ decoration # NoDecoration
      /\ mode' \in [Decorations -> Modes \cup {"absent", "released"}]
      /\ \A e \in Decorations : mode'[e] = IF e = d THEN "released" ELSE mode[e]
  BY DEF ReleaseDecoration, IInv, TypeOK, LookIsStyled, Modes
<1>2. TypeOK' /\ SerialsBegin' /\ UnackedIsRecorded'
  BY <1>1 DEF ReleaseDecoration, IInv, TypeOK, SerialsBegin, UnackedIsRecorded, surface, serials,
              states, window
<1>3. LookIsStyled'
  BY <1>1 DEF ReleaseDecoration, IInv, TypeOK, LookIsStyled, Modes, surface
<1> QED BY <1>2, <1>3 DEF IInv

LEMMA UseReleasedIInv == ASSUME IInv, UseReleased  PROVE IInv'
  BY DEF UseReleased, IInv, TypeOK, SerialsBegin, UnackedIsRecorded, LookIsStyled, Look,
         surface, serials, states, window

LEMMA HandleSetWindowGeometryIInv ==
  ASSUME IInv, NEW g \in Geometries, HandleSetWindowGeometry(g)  PROVE IInv'
  BY DEF HandleSetWindowGeometry, IInv, TypeOK, SerialsBegin, UnackedIsRecorded, LookIsStyled,
         Look, decor, serials, states, window

\* What an ack leaves unacked is newer than it, and recorded as before.
LEMMA HandleAckConfigureIInv ==
  ASSUME IInv, NEW s \in 1..MaxSerial, HandleAckConfigure(s)  PROVE IInv'
<1>1. TypeOK'
  <2>1. ackSerial' \in 1..serial /\ unacked' \subseteq Nat
    <3>1. s \in Nat /\ ackSerial <= s /\ s < serial /\ ackSerial' = s
      BY BoundsAssumption DEF HandleAckConfigure
    <3>2. ackSerial \in Nat \ {0} /\ serial \in Nat /\ unacked \subseteq Nat
      BY DEF IInv, TypeOK
    <3>3. unacked' \subseteq Nat
      BY <3>2 DEF HandleAckConfigure
    <3> QED BY <3>1, <3>2, <3>3
  <2>2. UNCHANGED <<toplevel, decoration, mode, told, look, styled, undefined, geometry,
                    pendingGeometry, bitmap,
                    configureCalled, shown, serial, resizeSerial, width, sizeChanged,
                    fullscreen, activated, saved, frame, resizes, reported>>
    BY DEF HandleAckConfigure, decor, surface, states, window
  <2> QED BY <2>1, <2>2 DEF IInv, TypeOK
<1>2. SerialsBegin' /\ UnackedIsRecorded'
  BY BoundsAssumption DEF HandleAckConfigure, IInv, TypeOK, SerialsBegin, UnackedIsRecorded,
         surface, window
<1>3. LookIsStyled'
  BY DEF HandleAckConfigure, IInv, LookIsStyled, Look, decor, surface
<1> QED BY <1>1, <1>2, <1>3 DEF IInv

\* Whether the window follows the commit or not, it keeps its types.
LEMMA CommitSizeTypes ==
  ASSUME IInv, NEW size \in Sizes \cup {0},
         IF HasServerDecoration THEN CommitDecorated ELSE CommitUndecorated(size)
  PROVE  /\ width' \in Sizes \cup {0} /\ sizeChanged' \in BOOLEAN
         /\ frame' \in Sizes \cup {0} /\ resizes' \in Seq(Sizes \cup {0})
<1>1. TypeOK /\ pendingGeometry.size \in Sizes \cup {0}
  BY GeometrySize DEF IInv, TypeOK
<1>2. CASE UNCHANGED <<width, sizeChanged, frame, resizes>>
  BY <1>1, <1>2 DEF TypeOK
<1>3. CASE sizeChanged' = TRUE /\ width' = pendingGeometry.size /\ ResizeTo(pendingGeometry.size)
  BY <1>1, <1>3, ResizeToTypes
<1>4. CASE UNCHANGED <<width, sizeChanged>> /\ ResizeTo(size)
  BY <1>1, <1>4, ResizeToTypes DEF TypeOK
<1> QED BY <1>2, <1>3, <1>4 DEF CommitDecorated, CommitUndecorated

LEMMA HandleCommitIInv ==
  ASSUME IInv, NEW size \in Sizes \cup {0}, HandleCommit(size)  PROVE IInv'
<1> USE DEF HandleCommit, IInv
<1>1. /\ width' \in Sizes \cup {0} /\ sizeChanged' \in BOOLEAN
      /\ frame' \in Sizes \cup {0} /\ resizes' \in Seq(Sizes \cup {0})
  BY CommitSizeTypes
<1>2. /\ serial' \in Nat /\ serial <= serial' /\ serial' <= serial + 1
      /\ configureCalled' = TRUE /\ (~ configureCalled => serial' = serial + 1)
      /\ UNCHANGED <<ackSerial, resizeSerial, unacked>>
  BY DEF SendConfigure, TypeOK
<1>3. TypeOK'
  <2>1. serial' \in Nat /\ ackSerial' \in 1..serial' /\ resizeSerial' \in 0..(serial' - 1)
    BY <1>2 DEF TypeOK
  <2>2. look' \in {"noBorder", "titled"} /\ shown' \in BOOLEAN /\ bitmap' \in Sizes \cup {0}
    BY DEF TypeOK, Look
  <2> QED BY <1>1, <1>2, <2>1, <2>2 DEF TypeOK, states
<1>4. SerialsBegin'
  BY <1>2 DEF SerialsBegin, TypeOK
<1>5. UnackedIsRecorded'
  BY <1>2 DEF UnackedIsRecorded
<1>6. LookIsStyled'
  BY DEF LookIsStyled, Look, TypeOK, Modes
<1> QED BY <1>3, <1>4, <1>5, <1>6

-----------------------------------------------------------------------------
(* Changes of the state, and the window.                                    *)

\* A step that sends a configure and leaves the acks, the resize serial, the decoration and
\* the surface alone, and keeps its other variables' types.
LEMMA ConfigureIInv ==
  ASSUME IInv, SendConfigure, TypeOK',
         UNCHANGED <<toplevel, decor, surface, ackSerial, resizeSerial, unacked>>
  PROVE  IInv'
<1>1. SerialsBegin'
  BY DEF SendConfigure, IInv, TypeOK, SerialsBegin, surface
<1>2. UnackedIsRecorded'
  BY DEF IInv, UnackedIsRecorded
<1>3. LookIsStyled'
  BY DEF IInv, LookIsStyled, Look, decor, surface
<1> QED BY <1>1, <1>2, <1>3 DEF IInv

LEMMA HandleSetFullscreenIInv == ASSUME IInv, HandleSetFullscreen  PROVE IInv'
<1>1. frame' \in Sizes \cup {0} /\ resizes' \in Seq(Sizes \cup {0})
  BY ResizeToTypes, SizesAssumption DEF HandleSetFullscreen, IInv
<1>2. TypeOK'
  BY <1>1, SizesAssumption DEF HandleSetFullscreen, SendConfigure, IInv, TypeOK, decor, surface
<1> QED BY <1>2, ConfigureIInv DEF HandleSetFullscreen

LEMMA HandleUnsetFullscreenIInv == ASSUME IInv, HandleUnsetFullscreen  PROVE IInv'
<1>1. saved \in Sizes \cup {0} /\ TypeOK
  BY DEF IInv, TypeOK
<1>2. frame' \in Sizes \cup {0} /\ resizes' \in Seq(Sizes \cup {0})
  BY <1>1, ResizeToTypes DEF HandleUnsetFullscreen
<1>3. TypeOK'
  <2>1. serial' \in Nat /\ ackSerial' \in 1..serial' /\ resizeSerial' \in 0..(serial' - 1)
    BY <1>1 DEF HandleUnsetFullscreen, SendConfigure, TypeOK
  <2> QED BY <1>1, <1>2, <2>1 DEF HandleUnsetFullscreen, TypeOK, decor, surface
<1> QED BY <1>3, ConfigureIInv DEF HandleUnsetFullscreen

LEMMA WindowActivatedIInv == ASSUME IInv, WindowActivated  PROVE IInv'
<1>1. TypeOK'
  BY DEF WindowActivated, SendConfigure, IInv, TypeOK, decor, surface, window
<1> QED BY <1>1, ConfigureIInv DEF WindowActivated

LEMMA UserResizeIInv ==
  ASSUME IInv, NEW size \in Sizes, UserResize(size)  PROVE IInv'
<1> DEFINE S == Sizes \cup {0}
<1>1. resizes' \in Seq(S)
  <2>1. resizes \in Seq(S) /\ size \in S /\ resizes' = Append(resizes, size)
    BY DEF UserResize, IInv, TypeOK
  <2> HIDE DEF S
  <2> QED BY <2>1
<1>2. TypeOK'
  BY <1>1 DEF UserResize, IInv, TypeOK, decor, surface, serials, states
<1>3. SerialsBegin' /\ UnackedIsRecorded'
  BY DEF UserResize, IInv, TypeOK, SerialsBegin, UnackedIsRecorded, surface, serials
<1>4. LookIsStyled'
  BY DEF UserResize, IInv, LookIsStyled, Look, decor, surface
<1> QED BY <1>2, <1>3, <1>4 DEF IInv

LEMMA ReportResizeIInv == ASSUME IInv, ReportResize  PROVE IInv'
<1> DEFINE S == Sizes \cup {0}
<1>1. Head(resizes) \in S /\ Tail(resizes) \in Seq(S)
  <2>1. resizes \in Seq(S) /\ resizes # <<>>
    BY DEF ReportResize, IInv, TypeOK
  <2> HIDE DEF S
  <2> QED BY <2>1
<1>2. TypeOK'
  BY <1>1 DEF ReportResize, IInv, TypeOK, decor, surface, serials, states
<1>3. SerialsBegin' /\ UnackedIsRecorded'
  BY DEF ReportResize, IInv, TypeOK, SerialsBegin, UnackedIsRecorded, surface, serials
<1>4. LookIsStyled'
  BY DEF ReportResize, IInv, LookIsStyled, Look, decor, surface
<1> QED BY <1>2, <1>3, <1>4 DEF IInv

\* The serial a resize is recorded under is newer than what the client has acked.
LEMMA FrameResizedIInv == ASSUME IInv, FrameResized  PROVE IInv'
<1>1. CASE UNCHANGED <<width, serial, resizeSerial, unacked>>
  <2>1. TypeOK'
    <3>1. sizeChanged' \in BOOLEAN /\ reported' \in {<<>>}
      BY DEF FrameResized, IInv, TypeOK
    <3> QED BY <1>1, <3>1 DEF FrameResized, IInv, TypeOK, decor, surface, states
  <2>2. SerialsBegin' /\ UnackedIsRecorded'
    BY <1>1 DEF FrameResized, IInv, SerialsBegin, UnackedIsRecorded, surface
  <2>3. LookIsStyled'
    BY DEF FrameResized, IInv, LookIsStyled, Look, decor, surface
  <2> QED BY <2>1, <2>2, <2>3 DEF IInv
<1>2. CASE ConfigureResize(reported[1]) /\ UNCHANGED sizeChanged
  <2>1. reported[1] \in Sizes \cup {0}
    BY DEF FrameResized, IInv, TypeOK
  <2>2. TypeOK'
    BY <1>2, <2>1 DEF FrameResized, ConfigureResize, SendConfigure, IInv, TypeOK, decor,
           surface, states
  <2>3. SerialsBegin' /\ UnackedIsRecorded'
    <3>1. serial \in Nat /\ serial > 1 /\ ackSerial < serial /\ ackSerial \in Nat /\ resizeSerial < serial
      BY DEF FrameResized, IInv, TypeOK, SerialsBegin
    <3>2. serial' = serial + 1 /\ resizeSerial' = serial /\ unacked' = unacked \cup {serial}
      BY <1>2 DEF ConfigureResize, SendConfigure
    <3>3. UnackedIsRecorded'
      BY <3>1, <3>2 DEF FrameResized, IInv, TypeOK, UnackedIsRecorded
    <3> QED BY <3>1, <3>2, <3>3 DEF FrameResized, IInv, SerialsBegin, surface
  <2>4. LookIsStyled'
    BY DEF FrameResized, IInv, LookIsStyled, Look, decor, surface
  <2> QED BY <2>2, <2>3, <2>4 DEF IInv
<1> QED BY <1>1, <1>2 DEF FrameResized

-----------------------------------------------------------------------------
LEMMA NextIInv == IInv /\ [Next]_vars => IInv'
<1> SUFFICES ASSUME IInv, [Next]_vars  PROVE IInv'
  OBVIOUS
<1>1. CASE UNCHANGED vars
  BY <1>1 DEF vars, decor, surface, serials, states, window, IInv, TypeOK, SerialsBegin,
              UnackedIsRecorded, LookIsStyled, Look
<1>2. ASSUME GetToplevel \/ UseReleased  PROVE IInv'
  BY <1>2, GetToplevelIInv, UseReleasedIInv
<1>3. ASSUME DecorationNext  PROVE IInv'
  BY <1>3, CreateDecorationIInv, ReleaseDecorationIInv, HandleRequestModeIInv DEF DecorationNext
<1>4. ASSUME NEW g \in Geometries \ {NoGeometry}, HandleSetWindowGeometry(g)  PROVE IInv'
  BY <1>4, HandleSetWindowGeometryIInv
<1>5. ASSUME NEW s \in 1..MaxSerial, HandleAckConfigure(s)  PROVE IInv'
  BY <1>5, HandleAckConfigureIInv
<1>6. ASSUME NEW size \in Sizes \cup {0}, HandleCommit(size)  PROVE IInv'
  BY <1>6, HandleCommitIInv
<1>7. ASSUME HandleSetFullscreen \/ HandleUnsetFullscreen \/ WindowActivated  PROVE IInv'
  BY <1>7, HandleSetFullscreenIInv, HandleUnsetFullscreenIInv, WindowActivatedIInv
<1>8. ASSUME NEW size \in Sizes, UserResize(size)  PROVE IInv'
  BY <1>8, UserResizeIInv
<1>9. ASSUME ReportResize \/ FrameResized  PROVE IInv'
  BY <1>9, ReportResizeIInv, FrameResizedIInv
<1> QED BY <1>1, <1>2, <1>3, <1>4, <1>5, <1>6, <1>7, <1>8, <1>9 DEF Next, ToplevelNext, WindowNext

\* The inductive invariant: serials, acks and the resizes under way stay in order.
THEOREM Invariance == Spec => []IInv
<1>1. Init => IInv
  BY InitIInv
<1>2. IInv /\ [Next]_vars => IInv'
  BY NextIInv
<1> QED BY <1>1, <1>2, PTL DEF Spec

\* TypeOK holds: fAckSerial and fResizeSerial stay behind fSerial.
THEOREM TypeCorrect == Spec => []TypeOK
<1>1. IInv => TypeOK
  BY DEF IInv
<1> QED BY <1>1, Invariance, PTL

\* A visible window looks as the mode of the decoration it was last given a look from, or else
\* of the surface's, for any number of decorations made, replaced and released in any order
\* with their modes, the toplevel and its buffers (HaikuXdgSurface.cpp:95-104,
\* HaikuServerDecoration.cpp:58-92).
THEOREM LookFollowsModeCorrect == Spec => []LookFollowsMode
<1>1. IInv => LookFollowsMode
  <2> SUFFICES ASSUME TypeOK, LookIsStyled, shown  PROVE LookFollowsMode
    BY DEF IInv, LookFollowsMode
  <2>1. CASE styled = NoDecoration
    <3>1. decoration # NoDecoration /\ mode[decoration] \in Modes => mode[decoration] = "none"
      BY <2>1 DEF TypeOK, LookIsStyled, Modes
    <3>2. look = "noBorder" /\ Look("none") = "noBorder"
      BY <2>1 DEF LookIsStyled, Look
    <3> QED BY <2>1, <3>1, <3>2 DEF LookFollowsMode
  <2>2. CASE styled # NoDecoration
    BY <2>2 DEF LookIsStyled, LookFollowsMode
  <2> QED BY <2>1, <2>2
<1> QED BY <1>1, Invariance, PTL

\* A commit never undoes a resize by the user that the client has not acked, for any sizes
\* and any number of configures (HaikuXdgSurface.cpp:56-73, HaikuXdgToplevel.cpp:76-98).
THEOREM UserResizeWinsCorrect == Spec => UserResizeWins
<1> DEFINE Wins == (\E size \in Sizes \cup {0} : HandleCommit(size)) /\ HasServerDecoration /\ frame' # frame
                     => unacked = {}
<1>1. IInv /\ [Next]_vars => [Wins]_vars
  <2> SUFFICES ASSUME IInv, NEW size \in Sizes \cup {0}, HandleCommit(size),
                      HasServerDecoration, frame' # frame
               PROVE  unacked = {}
    OBVIOUS
  <2>1. ~ (resizeSerial > ackSerial)
    BY DEF HandleCommit, CommitDecorated
  <2> QED BY <2>1 DEF IInv, TypeOK, UnackedIsRecorded
<1> QED BY <1>1, Invariance, PTL DEF Spec, UserResizeWins
=============================================================================
