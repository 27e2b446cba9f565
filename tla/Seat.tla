-------------------------------- MODULE Seat --------------------------------
(***************************************************************************)
(* Pointer and keyboard focus: HaikuSeat.cpp.  Messages of the app_server   *)
(* reach the seat on window threads, through WaylandView's hooks; client    *)
(* requests reach it on the server thread.  Both own the server's lock, so  *)
(* a handler is one action.                                                 *)
(*                                                                         *)
(* The client keeps a picture of the focus too, made of the enter, leave    *)
(* and button events it is sent: `told' is that picture.                    *)
(***************************************************************************)
EXTENDS FiniteSets, Naturals

CONSTANTS
  Surfaces,   \* wl_surfaces the client creates, one after the other or together
  Pointers,   \* wl_pointer objects
  Keyboards,  \* wl_keyboard objects
  Buttons,    \* mouse buttons
  None        \* no surface

ASSUME NoneAssumption == None \notin Surfaces
ASSUME ObjectsAssumption == /\ Pointers \cap Keyboards = {}
                            /\ "device" \notin Pointers \cup Keyboards

Focus == Surfaces \cup {None}
TrackIds == {"none", "client", "move", "resize", "drag"}

VARIABLES
  life,       \* of each surface: "new", "live", "dying", "dead"
  pointers,   \* fPointerIfaces
  keyboards,  \* fKeyboardIfaces
  device,     \* fDataDevice # NULL
  late,       \* the pointers and keyboards, and the data device, that were
              \* created while the client had that kind of focus already
  seat,       \* fPointerFocus, fKeyboardFocus, fTrack, fOldMouseBtns
  told,       \* what the client has been told
  down        \* the buttons that are really down

vars == <<life, pointers, keyboards, device, late, seat, told, down>>

SeatStates == [focus : Focus, keyboard : Focus, track : TrackIds,
               captured : BOOLEAN, inside : BOOLEAN, btns : SUBSET Buttons]

\* pointer, keyboard, drag: the surface each object was last told it is on; held: the
\* buttons some pointer was told are pressed, since the last enter; missed: those of
\* them whose release was not given to the focus; unpaired: objects that were sent a
\* leave without an enter, or an enter without a leave.
ToldStates == [pointer : [Pointers -> Focus], keyboard : [Keyboards -> Focus],
               drag : Focus, held : SUBSET Buttons, missed : SUBSET Buttons,
               unpaired : SUBSET (Pointers \cup Keyboards \cup {"device"})]

TypeOK == /\ life \in [Surfaces -> {"new", "live", "dying", "dead"}]
          /\ pointers \subseteq Pointers
          /\ keyboards \subseteq Keyboards
          /\ device \in BOOLEAN
          /\ late \subseteq Pointers \cup Keyboards \cup {"device"}
          /\ seat \in SeatStates
          /\ seat.focus = None <=> seat.track = "none"
          /\ told \in ToldStates
          /\ down \subseteq Buttons

Init == /\ life = [s \in Surfaces |-> "new"]
        /\ pointers = {}
        /\ keyboards = {}
        /\ device = FALSE
        /\ late = {}
        /\ seat = [focus |-> None, keyboard |-> None, track |-> "none",
                   captured |-> FALSE, inside |-> FALSE, btns |-> {}]
        /\ told = [pointer |-> [p \in Pointers |-> None],
                   keyboard |-> [k \in Keyboards |-> None],
                   drag |-> None, held |-> {}, missed |-> {}, unpaired |-> {}]
        /\ down = {}

-----------------------------------------------------------------------------
(* Events, as they change the client's picture t.                           *)

PointerLeave(t, s) ==
  [t EXCEPT !.pointer = [p \in Pointers |-> IF p \in pointers THEN None ELSE @[p]],
            !.held = {}, !.missed = {},
            !.unpaired = @ \cup {p \in pointers : t.pointer[p] # s}]

PointerEnter(t, s) ==
  [t EXCEPT !.pointer = [p \in Pointers |-> IF p \in pointers THEN s ELSE @[p]],
            !.unpaired = @ \cup {p \in pointers : t.pointer[p] # None}]

DragLeave(t, s) ==
  IF ~ device THEN t
  ELSE [t EXCEPT !.drag = None,
                 !.unpaired = IF t.drag = s THEN @ ELSE @ \cup {"device"}]

DragEnter(t, s) ==
  IF ~ device THEN t
  ELSE [t EXCEPT !.drag = s,
                 !.unpaired = IF t.drag = None THEN @ ELSE @ \cup {"device"}]

KeyboardLeave(t, s) ==
  [t EXCEPT !.keyboard = [k \in Keyboards |-> IF k \in keyboards THEN None ELSE @[k]],
            !.unpaired = @ \cup {k \in keyboards : t.keyboard[k] # s}]

KeyboardEnter(t, s) ==
  [t EXCEPT !.keyboard = [k \in Keyboards |-> IF k \in keyboards THEN s ELSE @[k]],
            !.unpaired = @ \cup {k \in keyboards : t.keyboard[k] # None}]

ButtonEvents(t, pressed, released) ==
  IF pointers = {} THEN t
  ELSE [t EXCEPT !.held = (@ \cup pressed) \ released, !.missed = @ \ released]

-----------------------------------------------------------------------------
(* SetPointerFocus and SetKeyboardFocus, on a pair of seat and picture.     *)

Both(q, t) == [seat |-> q, told |-> t]

LeaveFocus(q, t) == CASE q.focus # None /\ q.track = "client" -> PointerLeave(t, q.focus)
                      [] q.focus # None /\ q.track = "drag" -> DragLeave(t, q.focus)
                      [] OTHER -> t

EnterFocus(q, t) == CASE q.focus # None /\ q.track = "client" -> PointerEnter(t, q.focus)
                      [] q.focus # None /\ q.track = "drag" -> DragEnter(t, q.focus)
                      [] OTHER -> t

\* Fault: nobody is told when only the track changes.
SetPointerFocusOnce(st, surface, btns, trackId) ==
  LET q == st.seat
      new == [q EXCEPT !.focus = surface,
                       !.track = IF surface = None THEN "none" ELSE trackId,
                       !.captured = @ /\ surface # None, !.inside = @ /\ surface # None,
                       !.btns = IF q.focus = surface THEN @
                                ELSE IF surface = None THEN {} ELSE btns]
  IN Both(new, IF q.focus = surface THEN st.told ELSE EnterFocus(new, LeaveFocus(q, st.told)))

\* Fault: the old focus is not told that it is left.
SetPointerFocusUnleft(st, surface, btns, trackId) ==
  LET q == st.seat
      id == IF surface = None THEN "none" ELSE trackId
      new == [q EXCEPT !.focus = surface, !.track = id,
                       !.captured = @ /\ surface # None, !.inside = @ /\ surface # None,
                       !.btns = IF q.focus = surface THEN @
                                ELSE IF surface = None THEN {} ELSE btns]
  IN IF q.focus = surface /\ q.track = id THEN st ELSE Both(new, EnterFocus(new, st.told))

\* Fault: the buttons are forgotten whenever the track changes.
SetPointerFocusForgetting(st, surface, btns, trackId) ==
  LET q == st.seat
      id == IF surface = None THEN "none" ELSE trackId
      new == [q EXCEPT !.focus = surface, !.track = id,
                       !.captured = @ /\ surface # None, !.inside = @ /\ surface # None,
                       !.btns = IF surface = None THEN {} ELSE btns]
  IN IF q.focus = surface /\ q.track = id THEN st
     ELSE Both(new, EnterFocus(new, LeaveFocus(q, st.told)))

\* SetPointerFocus(surface, msg, trackId); btns are the buttons in msg, if any.
SetPointerFocus(st, surface, btns, trackId) ==
  LET q == st.seat
      id == IF surface = None THEN "none" ELSE trackId
      new == [q EXCEPT !.focus = surface, !.track = id,
                       !.captured = @ /\ surface # None,
                       !.inside = @ /\ surface # None,
                       !.btns = IF q.focus = surface THEN @
                                ELSE IF surface = None THEN {} ELSE btns]
  IN IF q.focus = surface /\ q.track = id THEN st
     ELSE Both(new, EnterFocus(new, LeaveFocus(q, st.told)))

\* SetPointerFocus(surface, setFocus, msg, trackId).
GivePointerFocus(st, surface, setFocus, btns, trackId) ==
  IF setFocus THEN SetPointerFocus(st, surface, btns, trackId)
  ELSE IF st.seat.focus = surface THEN SetPointerFocus(st, None, btns, trackId)
  ELSE st

SetKeyboardFocus(st, surface, setFocus) ==
  LET q == st.seat
      left == IF q.keyboard = None THEN st.told ELSE KeyboardLeave(st.told, q.keyboard)
  IN IF setFocus /\ q.keyboard # surface
     THEN Both([q EXCEPT !.keyboard = surface], KeyboardEnter(left, surface))
     ELSE IF ~ setFocus /\ q.keyboard = surface
     THEN Both([q EXCEPT !.keyboard = None], left)
     ELSE st

-----------------------------------------------------------------------------
(* Messages.  The app_server chooses the view, and the view may pass a      *)
(* message on to the surface it is a subsurface of: any surface with a view *)
(* can get any message.                                                     *)

\* A handler follows fPointerFocus and fKeyboardFocus; what it does when they name a
\* surface that is gone is not defined.
Defined == \A s \in {seat.focus, seat.keyboard} \ {None} : life[s] # "dead"

Now == Both(seat, told)

Becomes(st) == seat' = st.seat /\ told' = st.told

OnView(s) == Defined /\ life[s] \in {"live", "dying"}

Capture(st, c) == [st EXCEPT !.seat.captured = c]

\* msg->WasDropped(): of no interest unless it ends a drag.  Nothing says which buttons, if
\* any, are in such a message.
Drop(s, hasData, btns) ==
  /\ OnView(s)
  /\ hasData \/ seat.track = "drag"
  /\ Becomes(GivePointerFocus(Capture(Now, FALSE), s, TRUE, btns, "client"))
  /\ UNCHANGED <<life, pointers, keyboards, device, late, down>>

\* Fault: motion takes the focus also while it is captured.
FocusOfAnyMove(s, transit, isDrag) ==
  IF isDrag
  THEN IF seat.track = "drag" THEN Now
       ELSE GivePointerFocus(Capture(Now, TRUE), s, TRUE, down, "drag")
  ELSE IF transit \in {"entered", "inside"} THEN GivePointerFocus(Now, s, TRUE, down, "client")
  ELSE IF transit = "exited" THEN GivePointerFocus(Now, s, FALSE, {}, "client")
  ELSE Now

\* B_MOUSE_MOVED, with or without drag data.
FocusOfMove(s, transit, isDrag) ==
  IF isDrag
  THEN IF seat.track = "drag" THEN Now
       ELSE GivePointerFocus(Capture(Now, TRUE), s, TRUE, down, "drag")
  ELSE IF seat.captured THEN Now
  ELSE IF transit \in {"entered", "inside"} THEN GivePointerFocus(Now, s, TRUE, down, "client")
  ELSE IF transit = "exited" THEN GivePointerFocus(Now, s, FALSE, {}, "client")
  ELSE Now

InsideOfMove(st, s, transit) ==
  IF st.seat.focus # s THEN st
  ELSE IF transit \in {"entered", "inside"} THEN [st EXCEPT !.seat.inside = TRUE]
  ELSE LET out == [st EXCEPT !.seat.inside = FALSE]
       IN IF out.seat.track = "drag"
          THEN GivePointerFocus(Capture(out, FALSE), s, FALSE, {}, "client")
          ELSE out

MouseMoved(s, transit, isDrag) ==
  /\ OnView(s)
  /\ Becomes(InsideOfMove(FocusOfMove(s, transit, isDrag), s, transit))
  /\ UNCHANGED <<life, pointers, keyboards, device, late, down>>

\* B_MOUSE_DOWN.  The client is told unless it let the seat move or resize the window.
MouseDown(s, b) ==
  /\ OnView(s)
  /\ down' = down \cup {b}
  /\ IF seat.focus # s THEN UNCHANGED <<seat, told>>
     ELSE /\ seat' = [seat EXCEPT !.captured = @ \/ seat.btns = {}, !.btns = down']
          /\ told' = IF seat.track \in {"none", "client"}
                     THEN ButtonEvents(told, down' \ seat.btns, {}) ELSE told
  /\ UNCHANGED <<life, pointers, keyboards, device, late>>

\* B_MOUSE_UP.  When the last button is up the grab is over, and the focus goes to the
\* surface the pointer is in.
MouseUp(s, b) ==
  /\ OnView(s)
  /\ b \in down
  /\ down' = down \ {b}
  /\ IF seat.focus # s
     THEN /\ told' = [told EXCEPT !.missed = @ \cup ({b} \cap told.held)]
          /\ UNCHANGED seat
     ELSE LET events == IF seat.track \in {"none", "client"}
                        THEN ButtonEvents(told, {}, seat.btns \ down') ELSE told
              ends == seat.btns # {} /\ down' = {} /\ seat.track # "drag"
              st == Both([seat EXCEPT !.captured = @ /\ ~ ends], events)
              refocused == IF st.seat.captured THEN st
                           ELSE GivePointerFocus(st, s, seat.inside, down', "client")
          IN Becomes([refocused EXCEPT !.seat.btns = down'])
  /\ UNCHANGED <<life, pointers, keyboards, device, late>>

\* WaylandView::WindowActivated.
WindowActivated(s, active) ==
  /\ OnView(s)
  /\ Becomes(SetKeyboardFocus(Now, s, active))
  /\ UNCHANGED <<life, pointers, keyboards, device, late, down>>

-----------------------------------------------------------------------------
(* Client requests.                                                         *)

\* Requests are served one at a time, and not while one waits in Detach.
Serving == Defined /\ \A s \in Surfaces : life[s] # "dying"

CreateSurface(s) ==
  /\ Serving
  /\ life[s] = "new"
  /\ life' = [life EXCEPT ![s] = "live"]
  /\ UNCHANGED <<pointers, keyboards, device, late, seat, told, down>>

\* Fault: the keyboard focus is left behind.
TakePointerFocus(s) == GivePointerFocus(Now, s, FALSE, {}, "client")

\* ~HaikuSurface takes both focuses from the surface, then Detach waits for the hook
\* that is running on its view and gives up the server's lock meanwhile.
TakeFocus(s) ==
  SetKeyboardFocus(GivePointerFocus(Now, s, FALSE, {}, "client"), s, FALSE)

DestroySurface(s, hookRuns) ==
  /\ Serving
  /\ life[s] = "live"
  /\ Becomes(TakeFocus(s))
  /\ life' = [life EXCEPT ![s] = IF hookRuns THEN "dying" ELSE "dead"]
  /\ UNCHANGED <<pointers, keyboards, device, late, down>>

Detached(s) ==
  /\ life[s] = "dying"
  /\ life' = [life EXCEPT ![s] = "dead"]
  /\ UNCHANGED <<pointers, keyboards, device, late, seat, told, down>>

\* A wl_pointer is added to the list, and told nothing of a focus there is.
HandleGetPointer(p) ==
  /\ Serving
  /\ p \notin pointers
  /\ pointers' = pointers \cup {p}
  /\ late' = IF seat.track = "client" THEN late \cup {p} ELSE late \ {p}
  /\ told' = [told EXCEPT !.pointer[p] = None, !.unpaired = @ \ {p}]
  /\ UNCHANGED <<life, keyboards, device, seat, down>>

ReleasePointer(p) ==
  /\ Serving
  /\ p \in pointers
  /\ pointers' = pointers \ {p}
  /\ told' = IF pointers # {p} THEN told ELSE [told EXCEPT !.held = {}, !.missed = {}]
  /\ UNCHANGED <<life, keyboards, device, late, seat, down>>

HandleGetKeyboard(k) ==
  /\ Serving
  /\ k \notin keyboards
  /\ keyboards' = keyboards \cup {k}
  /\ late' = IF seat.keyboard # None THEN late \cup {k} ELSE late \ {k}
  /\ told' = [told EXCEPT !.keyboard[k] = None, !.unpaired = @ \ {k}]
  /\ UNCHANGED <<life, pointers, device, seat, down>>

ReleaseKeyboard(k) ==
  /\ Serving
  /\ k \in keyboards
  /\ keyboards' = keyboards \ {k}
  /\ UNCHANGED <<life, pointers, device, late, seat, told, down>>

\* HaikuDataDevice::Create stores the device in the seat.
GetDataDevice ==
  /\ Serving
  /\ ~ device
  /\ device' = TRUE
  /\ late' = IF seat.track = "drag" THEN late \cup {"device"} ELSE late
  /\ UNCHANGED <<life, pointers, keyboards, seat, told, down>>

\* xdg_toplevel.move and resize.
DoTrack(id) ==
  /\ Serving
  /\ seat.track = "client"
  /\ seat.btns # {}
  /\ seat.focus # None
  /\ Becomes(SetPointerFocus(Now, seat.focus, {}, id))
  /\ UNCHANGED <<life, pointers, keyboards, device, late, down>>

\* Nothing is said of the program any more.
Undefined == ~ Defined /\ UNCHANGED vars

Messages ==
  \E s \in Surfaces :
    \/ \E data \in BOOLEAN, btns \in SUBSET Buttons : Drop(s, data, btns)
    \/ \E transit \in {"entered", "inside", "exited", "outside"}, drag \in BOOLEAN :
         MouseMoved(s, transit, drag)
    \/ \E b \in Buttons : MouseDown(s, b) \/ MouseUp(s, b)
    \/ \E active \in BOOLEAN : WindowActivated(s, active)

Requests ==
  \/ \E s \in Surfaces : CreateSurface(s) \/ \E h \in BOOLEAN : DestroySurface(s, h)
  \/ \E p \in Pointers : HandleGetPointer(p) \/ ReleasePointer(p)
  \/ \E k \in Keyboards : HandleGetKeyboard(k) \/ ReleaseKeyboard(k)
  \/ GetDataDevice
  \/ \E id \in {"move", "resize"} : DoTrack(id)

Next == Messages \/ Requests \/ (\E s \in Surfaces : Detached(s)) \/ Undefined

Spec == Init /\ [][Next]_vars

-----------------------------------------------------------------------------
(* Properties.                                                              *)

\* Every pointer, keyboard and data device of the client was last told of the focus the
\* seat has, and was told to leave each focus it had before, whatever sequence of moves,
\* grabs, drags, drops and destroyed surfaces led there; only an object created while
\* there was such a focus may not know of it
\* (HaikuSeat.cpp:278-380, 695-724).
FocusIsTold ==
  /\ told.unpaired \subseteq late
  /\ Defined =>
       /\ \A p \in pointers \ late :
            told.pointer[p] = IF seat.track = "client" THEN seat.focus ELSE None
       /\ \A k \in keyboards \ late : told.keyboard[k] = seat.keyboard
       /\ device /\ "device" \notin late =>
            told.drag = IF seat.track = "drag" THEN seat.focus ELSE None

\* A button the client was told is pressed is a button the seat will tell it is released:
\* the seat forgets one only if its release went to another surface, which happens when
\* the pointer is outside the input region of a subsurface (HaikuCompositor.cpp:214-222).
PressedIsKnown == told.held \subseteq seat.btns \cup told.missed

\* The pointer is captured for a reason that will end: a button of the focus, or a drag.
GrabHasReason ==
  /\ seat.captured => seat.focus # None /\ (seat.btns # {} \/ seat.track = "drag")
  /\ seat.track \in {"move", "resize"} => seat.focus # None /\ seat.btns # {}

\* While a button holds the pointer, motion over other surfaces does not take the focus.
GrabKeepsFocus ==
  [][seat.captured /\ seat'.captured /\ "drag" \notin {seat.track, seat'.track}
       => seat'.focus = seat.focus]_vars

\* The seat is left with a surface that is gone only when a hook of it ran while ~HaikuSurface
\* waited in Detach, after it had taken the focus away (HaikuCompositor.cpp:301-311).
DanglesOnlyAfterLateHook ==
  [][Defined /\ ~ Defined' => \E s \in Surfaces : life[s] = "dying"]_vars
=============================================================================
