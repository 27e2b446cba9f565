----------------------------- MODULE SeatProofs -----------------------------
(***************************************************************************)
(* What Seat guarantees for any number of surfaces, pointers, keyboards and *)
(* buttons.                                                                 *)
(***************************************************************************)
EXTENDS Seat, TLAPS

\* The objects there are.
Objects == /\ pointers \subseteq Pointers /\ keyboards \subseteq Keyboards /\ device \in BOOLEAN
           /\ late \subseteq Pointers \cup Keyboards \cup {"device"}

\* What the picture t says of the focus that q has.
Pictured(q, t) ==
  /\ t.unpaired \subseteq late
  /\ \A p \in pointers \ late : t.pointer[p] = IF q.track = "client" THEN q.focus ELSE None
  /\ \A k \in keyboards \ late : t.keyboard[k] = q.keyboard
  /\ device /\ "device" \notin late => t.drag = IF q.track = "drag" THEN q.focus ELSE None
  /\ ~ device => t.drag = None

\* The buttons the client was told are pressed, when those that are down are d: none before a
\* pointer is there and the focus is the client's.
Held(q, t, d) ==
  /\ t.held \subseteq q.btns \cup t.missed
  /\ t.held \subseteq d \cup t.missed
  /\ q.track # "client" => t.held = {}
  /\ pointers = {} => t.held = {}

Good(st, d) ==
  /\ st.seat \in SeatStates /\ st.told \in ToldStates
  /\ st.seat.focus = None <=> st.seat.track = "none"
  /\ Pictured(st.seat, st.told)
  /\ Held(st.seat, st.told, d)

IInv == Objects /\ TypeOK /\ Good(Now, down) /\ GrabHasReason

\* The steps of the two action properties.
GrabKept == seat.captured /\ seat'.captured /\ "drag" \notin {seat.track, seat'.track}
              => seat'.focus = seat.focus
DanglesLate == Defined /\ ~ Defined' => \E s \in Surfaces : life[s] = "dying"

-----------------------------------------------------------------------------
(* Events: what they leave alone, and what they set.                        *)

LEMMA PointerLeaveFields ==
  ASSUME Objects, NEW t \in ToldStates, NEW s
  PROVE  LET u == PointerLeave(t, s) IN
         /\ u \in ToldStates
         /\ u.keyboard = t.keyboard /\ u.drag = t.drag /\ u.held = {} /\ u.missed = {}
         /\ \A p \in pointers : u.pointer[p] = None
         /\ u.unpaired = t.unpaired \cup {p \in pointers : t.pointer[p] # s}
  BY DEF Objects, PointerLeave, ToldStates, Focus

LEMMA PointerEnterFields ==
  ASSUME Objects, NEW t \in ToldStates, NEW s \in Focus
  PROVE  LET u == PointerEnter(t, s) IN
         /\ u \in ToldStates
         /\ u.keyboard = t.keyboard /\ u.drag = t.drag /\ u.held = t.held /\ u.missed = t.missed
         /\ \A p \in pointers : u.pointer[p] = s
         /\ u.unpaired = t.unpaired \cup {p \in pointers : t.pointer[p] # None}
  BY DEF Objects, PointerEnter, ToldStates

LEMMA DragLeaveFields ==
  ASSUME Objects, NEW t \in ToldStates, NEW s
  PROVE  LET u == DragLeave(t, s) IN
         /\ u \in ToldStates
         /\ u.keyboard = t.keyboard /\ u.pointer = t.pointer /\ u.held = t.held /\ u.missed = t.missed
         /\ u.drag = IF device THEN None ELSE t.drag
         /\ u.unpaired = t.unpaired \cup IF device /\ t.drag # s THEN {"device"} ELSE {}
  BY DEF Objects, DragLeave, ToldStates, Focus

LEMMA DragEnterFields ==
  ASSUME Objects, NEW t \in ToldStates, NEW s \in Focus
  PROVE  LET u == DragEnter(t, s) IN
         /\ u \in ToldStates
         /\ u.keyboard = t.keyboard /\ u.pointer = t.pointer /\ u.held = t.held /\ u.missed = t.missed
         /\ u.drag = IF device THEN s ELSE t.drag
         /\ u.unpaired = t.unpaired \cup IF device /\ t.drag # None THEN {"device"} ELSE {}
  BY DEF Objects, DragEnter, ToldStates

LEMMA KeyboardLeaveFields ==
  ASSUME Objects, NEW t \in ToldStates, NEW s
  PROVE  LET u == KeyboardLeave(t, s) IN
         /\ u \in ToldStates
         /\ u.pointer = t.pointer /\ u.drag = t.drag /\ u.held = t.held /\ u.missed = t.missed
         /\ \A k \in keyboards : u.keyboard[k] = None
         /\ u.unpaired = t.unpaired \cup {k \in keyboards : t.keyboard[k] # s}
  BY DEF Objects, KeyboardLeave, ToldStates, Focus

LEMMA KeyboardEnterFields ==
  ASSUME Objects, NEW t \in ToldStates, NEW s \in Focus
  PROVE  LET u == KeyboardEnter(t, s) IN
         /\ u \in ToldStates
         /\ u.pointer = t.pointer /\ u.drag = t.drag /\ u.held = t.held /\ u.missed = t.missed
         /\ \A k \in keyboards : u.keyboard[k] = s
         /\ u.unpaired = t.unpaired \cup {k \in keyboards : t.keyboard[k] # None}
  BY DEF Objects, KeyboardEnter, ToldStates

-----------------------------------------------------------------------------
(* The focus is left, then entered.                                         *)

\* A picture of no pointer focus.
Unfocused(t) ==
  /\ t \in ToldStates
  /\ t.unpaired \subseteq late
  /\ \A p \in pointers \ late : t.pointer[p] = None
  /\ device /\ "device" \notin late => t.drag = None
  /\ ~ device => t.drag = None
  /\ t.held = {}

LEMMA LeaveFocusLeaves ==
  ASSUME Objects, NEW st, NEW d, Good(st, d)
  PROVE  /\ Unfocused(LeaveFocus(st.seat, st.told))
         /\ LeaveFocus(st.seat, st.told).keyboard = st.told.keyboard
<1>1. CASE st.seat.focus # None /\ st.seat.track = "client"
  <2>1. LeaveFocus(st.seat, st.told) = PointerLeave(st.told, st.seat.focus)
    BY <1>1 DEF LeaveFocus
  <2>2. QED
    BY <1>1, <2>1, PointerLeaveFields DEF Good, Pictured, Unfocused, Objects
<1>2. CASE st.seat.focus # None /\ st.seat.track = "drag"
  <2>1. LeaveFocus(st.seat, st.told) = DragLeave(st.told, st.seat.focus)
    BY <1>2 DEF LeaveFocus
  <2>2. QED
    BY <1>2, <2>1, DragLeaveFields DEF Good, Pictured, Held, Unfocused, Objects
<1>3. CASE ~ (st.seat.focus # None /\ st.seat.track \in {"client", "drag"})
  <2>1. LeaveFocus(st.seat, st.told) = st.told
    BY <1>3 DEF LeaveFocus
  <2>2. QED
    BY <1>3, <2>1 DEF Good, Pictured, Held, Unfocused
<1>4. QED
  BY <1>1, <1>2, <1>3

LEMMA EnterFocusEnters ==
  ASSUME Objects, NEW q \in SeatStates, NEW t, Unfocused(t),
         q.focus = None <=> q.track = "none",
         \A k \in keyboards \ late : t.keyboard[k] = q.keyboard
  PROVE  /\ EnterFocus(q, t) \in ToldStates
         /\ Pictured(q, EnterFocus(q, t))
         /\ EnterFocus(q, t).held = {}
<1>0. q.focus \in Focus /\ t \in ToldStates
  BY DEF SeatStates, Unfocused
<1>1. CASE q.focus # None /\ q.track = "client"
  <2>1. EnterFocus(q, t) = PointerEnter(t, q.focus)
    BY <1>1 DEF EnterFocus
  <2>2. QED
    BY <1>0, <1>1, <2>1, PointerEnterFields DEF Pictured, Unfocused, Objects
<1>2. CASE q.focus # None /\ q.track = "drag"
  <2>1. EnterFocus(q, t) = DragEnter(t, q.focus)
    BY <1>2 DEF EnterFocus
  <2>2. QED
    BY <1>0, <1>2, <2>1, DragEnterFields DEF Pictured, Unfocused, Objects
<1>3. CASE ~ (q.focus # None /\ q.track \in {"client", "drag"})
  <2>1. EnterFocus(q, t) = t
    BY <1>3 DEF EnterFocus
  <2>2. QED
    BY <1>0, <1>3, <2>1 DEF Pictured, Unfocused
<1>4. QED
  BY <1>1, <1>2, <1>3

\* What SetPointerFocus makes of st is the picture of the focus it sets.
LEMMA SetPointerFocusIsGood ==
  ASSUME Objects, NEW st, NEW d, Good(st, d), NEW surface \in Focus,
         NEW btns \in SUBSET Buttons, NEW id \in TrackIds \ {"none"}
  PROVE  LET r == SetPointerFocus(st, surface, btns, id) IN
         /\ Good(r, d)
         /\ r.seat.focus = surface
         /\ r.seat.track = IF surface = None THEN "none" ELSE id
         /\ surface # None => (r.seat.captured <=> st.seat.captured)
         /\ r.seat.captured => st.seat.captured
         /\ st.seat.focus # None /\ surface = None => ~ r.seat.captured
         /\ r.seat.keyboard = st.seat.keyboard
         /\ st.seat.focus = surface => r.seat.btns = st.seat.btns
         /\ st.seat.focus # surface /\ surface # None => r.seat.btns = btns
<1> DEFINE q == st.seat
           track == IF surface = None THEN "none" ELSE id
           new == [q EXCEPT !.focus = surface, !.track = track,
                            !.captured = @ /\ surface # None, !.inside = @ /\ surface # None,
                            !.btns = IF q.focus = surface THEN @
                                     ELSE IF surface = None THEN {} ELSE btns]
           left == LeaveFocus(q, st.told)
           r == SetPointerFocus(st, surface, btns, id)
<1>1. CASE q.focus = surface /\ q.track = track
  <2>1. r = st
    BY <1>1 DEF SetPointerFocus
  <2>2. QED
    BY <1>1, <2>1 DEF Good, SeatStates
<1>2. CASE ~ (q.focus = surface /\ q.track = track)
  <2>1. r.seat = new /\ r.told = EnterFocus(new, left)
    BY <1>2 DEF SetPointerFocus, Both
  <2>2. q \in SeatStates
    BY DEF Good
  <2>3. /\ new \in SeatStates
        /\ new.focus = surface /\ new.track = track /\ new.keyboard = q.keyboard
        /\ new.captured <=> q.captured /\ surface # None
        /\ new.btns = IF q.focus = surface THEN q.btns ELSE IF surface = None THEN {} ELSE btns
    BY <2>2 DEF SeatStates, TrackIds
  <2>4. new.focus = None <=> new.track = "none"
    BY <2>3
  <2>5. Unfocused(left) /\ \A k \in keyboards \ late : left.keyboard[k] = new.keyboard
    BY <2>3, LeaveFocusLeaves DEF Good, Pictured
  <2> HIDE DEF new, left
  <2>6. r.told \in ToldStates /\ Pictured(new, r.told) /\ r.told.held = {}
    BY <2>1, <2>3, <2>4, <2>5, EnterFocusEnters
  <2>7. QED
    BY <2>1, <2>3, <2>4, <2>6 DEF Good, Held
<1>3. QED
  BY <1>1, <1>2

\* A surface is given the pointer focus, and is deprived of it.
LEMMA GivenFocus ==
  ASSUME Objects, NEW st, NEW d, Good(st, d), NEW surface \in Surfaces,
         NEW btns \in SUBSET Buttons, NEW id \in {"client", "drag"}
  PROVE  LET r == SetPointerFocus(st, surface, btns, id) IN
         /\ Good(r, d)
         /\ r.seat.focus = surface /\ r.seat.track = id
         /\ r.seat.captured <=> st.seat.captured
         /\ r.seat.keyboard = st.seat.keyboard
<1>1. surface # None /\ surface \in Focus /\ id \in TrackIds \ {"none"}
  BY NoneAssumption DEF Focus, TrackIds
<1> QED BY <1>1, SetPointerFocusIsGood

Taken(st, surface, btns) ==
  IF st.seat.focus = surface THEN SetPointerFocus(st, None, btns, "client") ELSE st

LEMMA TakenFocus ==
  ASSUME Objects, NEW st, NEW d, Good(st, d), NEW surface \in Surfaces,
         NEW btns \in SUBSET Buttons
  PROVE  LET r == Taken(st, surface, btns) IN
         /\ Good(r, d)
         /\ st.seat.focus # surface => r = st
         /\ st.seat.focus = surface =>
              r.seat.focus = None /\ r.seat.track = "none" /\ ~ r.seat.captured
         /\ r.seat.keyboard = st.seat.keyboard
<1>0. surface # None /\ None \in Focus /\ "client" \in TrackIds \ {"none"}
  BY NoneAssumption DEF Focus, TrackIds
<1>1. CASE st.seat.focus = surface
  <2>1. LET r == SetPointerFocus(st, None, btns, "client") IN
        /\ Good(r, d)
        /\ r.seat.focus = None /\ r.seat.track = "none" /\ ~ r.seat.captured
        /\ r.seat.keyboard = st.seat.keyboard
    BY <1>0, <1>1, SetPointerFocusIsGood
  <2> QED BY <1>1, <2>1 DEF Taken
<1>2. CASE st.seat.focus # surface
  BY <1>2 DEF Taken
<1> QED BY <1>1, <1>2

LEMMA CapturedIsGood ==
  ASSUME NEW st, NEW d, Good(st, d)
  PROVE  LET r == [st EXCEPT !.seat.captured = TRUE] IN
         /\ Good(r, d)
         /\ r.seat.captured
         /\ r.seat.focus = st.seat.focus /\ r.seat.track = st.seat.track
         /\ r.seat.btns = st.seat.btns /\ r.seat.keyboard = st.seat.keyboard
<1> DEFINE r == [st EXCEPT !.seat.captured = TRUE]
<1>1. /\ r.seat = [st.seat EXCEPT !.captured = TRUE] /\ r.told = st.told
      /\ st.seat \in SeatStates
  BY DEF Good
<1> HIDE DEF r
<1>2. r.seat \in SeatStates
  BY <1>1 DEF SeatStates
<1>3. r.seat.captured
  BY <1>1 DEF SeatStates
<1>4. /\ r.seat.focus = st.seat.focus /\ r.seat.track = st.seat.track
      /\ r.seat.btns = st.seat.btns /\ r.seat.keyboard = st.seat.keyboard
  BY <1>1 DEF SeatStates
<1>5. Good(r, d)
  BY <1>1, <1>2, <1>4 DEF Good, Pictured, Held
<1> QED BY <1>3, <1>4, <1>5 DEF r

LEMMA FreedIsGood ==
  ASSUME NEW st, NEW d, Good(st, d)
  PROVE  LET r == [st EXCEPT !.seat.captured = FALSE] IN
         /\ Good(r, d)
         /\ ~ r.seat.captured
         /\ r.seat.focus = st.seat.focus /\ r.seat.track = st.seat.track
         /\ r.seat.btns = st.seat.btns /\ r.seat.keyboard = st.seat.keyboard
<1> DEFINE r == [st EXCEPT !.seat.captured = FALSE]
<1>1. /\ r.seat = [st.seat EXCEPT !.captured = FALSE] /\ r.told = st.told
      /\ st.seat \in SeatStates
  BY DEF Good
<1> HIDE DEF r
<1>2. r.seat \in SeatStates
  BY <1>1 DEF SeatStates
<1>3. ~ r.seat.captured
  BY <1>1 DEF SeatStates
<1>4. /\ r.seat.focus = st.seat.focus /\ r.seat.track = st.seat.track
      /\ r.seat.btns = st.seat.btns /\ r.seat.keyboard = st.seat.keyboard
  BY <1>1 DEF SeatStates
<1>5. Good(r, d)
  BY <1>1, <1>2, <1>4 DEF Good, Pictured, Held
<1> QED BY <1>3, <1>4, <1>5 DEF r

LEMMA SetKeyboardFocusIsGood ==
  ASSUME Objects, NEW st, NEW d, Good(st, d), NEW surface \in Surfaces, NEW setFocus \in BOOLEAN
  PROVE  LET r == SetKeyboardFocus(st, surface, setFocus) IN
         /\ Good(r, d)
         /\ r.seat.focus = st.seat.focus /\ r.seat.track = st.seat.track
         /\ r.seat.btns = st.seat.btns /\ (r.seat.captured <=> st.seat.captured)
         /\ r.seat.keyboard = IF setFocus THEN surface
                              ELSE IF st.seat.keyboard = surface THEN None ELSE st.seat.keyboard
<1> DEFINE q == st.seat
           left == IF q.keyboard = None THEN st.told ELSE KeyboardLeave(st.told, q.keyboard)
           r == SetKeyboardFocus(st, surface, setFocus)
<1>0. surface # None /\ surface \in Focus
  BY NoneAssumption DEF Focus
<1>1. /\ left \in ToldStates /\ left.unpaired \subseteq late
      /\ left.pointer = st.told.pointer /\ left.drag = st.told.drag
      /\ left.held = st.told.held /\ left.missed = st.told.missed
      /\ \A k \in keyboards \ late : left.keyboard[k] = None
  <2>1. CASE q.keyboard = None
    BY <2>1 DEF Good, Pictured
  <2>2. CASE q.keyboard # None
    BY <2>2, KeyboardLeaveFields DEF Good, Pictured, Objects
  <2>3. QED
    BY <2>1, <2>2
<1> HIDE DEF left
<1>2. CASE setFocus /\ q.keyboard # surface
  <2>1. r.seat = [q EXCEPT !.keyboard = surface] /\ r.told = KeyboardEnter(left, surface)
    BY <1>2 DEF SetKeyboardFocus, Both, left
  <2>2. /\ r.told \in ToldStates /\ r.told.unpaired \subseteq late
        /\ r.told.pointer = st.told.pointer /\ r.told.drag = st.told.drag
        /\ r.told.held = st.told.held /\ r.told.missed = st.told.missed
        /\ \A k \in keyboards \ late : r.told.keyboard[k] = surface
    BY <1>0, <1>1, <2>1, KeyboardEnterFields DEF Objects
  <2> HIDE DEF r
  <2>3. r.seat \in SeatStates /\ r.seat.keyboard = surface
    BY <1>0, <2>1 DEF Good, SeatStates
  <2>4. r.seat.captured <=> st.seat.captured
    BY <2>1 DEF Good, SeatStates
  <2>5. /\ r.seat.focus = st.seat.focus /\ r.seat.track = st.seat.track
        /\ r.seat.btns = st.seat.btns
    BY <2>1 DEF Good, SeatStates
  <2>6. Good(r, d)
    BY <2>2, <2>3, <2>5 DEF Good, Pictured, Held
  <2>7. QED
    BY <1>2, <2>3, <2>4, <2>5, <2>6 DEF r
<1>3. CASE ~ setFocus /\ q.keyboard = surface
  <2>1. r.seat = [q EXCEPT !.keyboard = None] /\ r.told = left
    BY <1>3 DEF SetKeyboardFocus, Both, left
  <2>2. QED
    BY <1>0, <1>1, <1>3, <2>1 DEF Good, Pictured, Held, SeatStates, Focus
<1>4. CASE ~ (setFocus /\ q.keyboard # surface) /\ ~ (~ setFocus /\ q.keyboard = surface)
  BY <1>4 DEF SetKeyboardFocus
<1>5. QED
  BY <1>2, <1>3, <1>4

-----------------------------------------------------------------------------
(* Messages.  None of them makes the seat follow a surface that is gone.    *)

\* GrabHasReason, of any state of the seat.
Reason(q) ==
  /\ q.captured => q.focus # None /\ (q.btns # {} \/ q.track = "drag")
  /\ q.track \in {"move", "resize"} => q.focus # None /\ q.btns # {}

\* A handler that leaves the objects alone and makes the seat r.
LEMMA Handled ==
  ASSUME IInv, NEW r, Becomes(r), Good(r, down'), Reason(r.seat), down' \in SUBSET Buttons,
         life' \in [Surfaces -> {"new", "live", "dying", "dead"}],
         UNCHANGED <<pointers, keyboards, device, late>>
  PROVE  IInv'
<1>1. Objects' /\ Objects
  BY DEF IInv, Objects
<1>2. Good(Now, down)'
  BY DEF Good, Pictured, Held, Now, Both, Becomes
<1>3. TypeOK'
  BY <1>1, <1>2 DEF TypeOK, Objects, Good, Now, Both
<1>4. GrabHasReason'
  BY DEF GrabHasReason, Reason, Becomes
<1>5. QED
  BY <1>1, <1>2, <1>3, <1>4 DEF IInv

\* The facts of the invariant that the handlers start from.
LEMMA Start ==
  ASSUME IInv
  PROVE  /\ Objects /\ Good(Now, down) /\ Reason(seat)
         /\ Now.seat = seat /\ Now.told = told
         /\ seat \in SeatStates /\ told \in ToldStates /\ down \in SUBSET Buttons
         /\ life \in [Surfaces -> {"new", "live", "dying", "dead"}]
         /\ seat.focus = None <=> seat.track = "none"
  BY DEF IInv, TypeOK, GrabHasReason, Reason, Now, Both

LEMMA DropSafe ==
  ASSUME IInv, NEW s \in Surfaces, NEW data \in BOOLEAN, NEW btns \in SUBSET Buttons,
         Drop(s, data, btns)
  PROVE  IInv' /\ GrabKept /\ DanglesLate
<1> DEFINE c == [Now EXCEPT !.seat.captured = FALSE]
           r == SetPointerFocus(c, s, btns, "client")
<1>1. Good(c, down) /\ ~ c.seat.captured /\ c.seat.keyboard = seat.keyboard
  BY Start, FreedIsGood
<1>2. /\ Becomes(r)
      /\ UNCHANGED <<life, pointers, keyboards, device, late, down>>
      /\ OnView(s)
  BY DEF Drop, Capture, GivePointerFocus
<1> HIDE DEF c
<1>3. /\ Good(r, down)
      /\ r.seat.focus = s /\ r.seat.track = "client" /\ ~ r.seat.captured
      /\ r.seat.keyboard = seat.keyboard
  BY <1>1, Start, GivenFocus
<1> HIDE DEF r
<1>4. IInv'
  BY <1>2, <1>3, NoneAssumption, Start, Handled DEF Reason
<1>5. GrabKept /\ DanglesLate
  BY <1>2, <1>3 DEF GrabKept, DanglesLate, Becomes, OnView, Defined
<1>6. QED
  BY <1>4, <1>5

Transits == {"entered", "inside", "exited", "outside"}

LEMMA FocusOfMoveFields ==
  ASSUME IInv, NEW s \in Surfaces, NEW transit \in Transits, NEW isDrag \in BOOLEAN
  PROVE  LET r == FocusOfMove(s, transit, isDrag) IN
         /\ Good(r, down) /\ Reason(r.seat)
         /\ r.seat.focus \in {seat.focus, s, None} /\ r.seat.keyboard = seat.keyboard
         /\ seat.captured /\ r.seat.captured /\ r.seat.track # "drag" => r.seat.focus = seat.focus
<1> DEFINE r == FocusOfMove(s, transit, isDrag)
           c == [Now EXCEPT !.seat.captured = TRUE]
<1>1. CASE isDrag /\ seat.track # "drag"
  <2>1. r = SetPointerFocus(c, s, down, "drag")
    BY <1>1 DEF FocusOfMove, Capture, GivePointerFocus
  <2>2. Good(c, down) /\ c.seat.keyboard = seat.keyboard
    BY Start, CapturedIsGood
  <2> HIDE DEF c, r
  <2>3. /\ Good(r, down)
        /\ r.seat.focus = s /\ r.seat.track = "drag" /\ r.seat.keyboard = seat.keyboard
    BY <2>1, <2>2, Start, GivenFocus
  <2> QED BY <2>3, NoneAssumption DEF Reason, r
<1>2. CASE ~ isDrag /\ ~ seat.captured /\ transit \in {"entered", "inside"}
  <2>1. r = SetPointerFocus(Now, s, down, "client")
    BY <1>2 DEF FocusOfMove, GivePointerFocus
  <2> HIDE DEF r
  <2>2. /\ Good(r, down) /\ ~ r.seat.captured
        /\ r.seat.focus = s /\ r.seat.track = "client" /\ r.seat.keyboard = seat.keyboard
    BY <1>2, <2>1, Start, GivenFocus
  <2> QED BY <2>2, NoneAssumption DEF Reason, r
<1>3. CASE ~ isDrag /\ ~ seat.captured /\ transit = "exited"
  <2>1. r = Taken(Now, s, {})
    BY <1>3, Start DEF FocusOfMove, GivePointerFocus, Taken
  <2> HIDE DEF r
  <2>2. /\ Good(r, down) /\ r.seat.keyboard = seat.keyboard
        /\ seat.focus # s => r = Now
        /\ seat.focus = s => r.seat.focus = None /\ r.seat.track = "none" /\ ~ r.seat.captured
    BY <2>1, Start, TakenFocus
  <2> QED BY <2>2, Start DEF Reason, r
<1>4. CASE \/ isDrag /\ seat.track = "drag"
           \/ ~ isDrag /\ (seat.captured \/ transit = "outside")
  <2>1. r = Now
    BY <1>4 DEF FocusOfMove, Transits
  <2> QED BY <2>1, Start
<1> QED BY <1>1, <1>2, <1>3, <1>4 DEF Transits

LEMMA InsideOfMoveFields ==
  ASSUME Objects, NEW st, Good(st, down), Reason(st.seat), NEW s \in Surfaces, NEW transit \in Transits
  PROVE  LET r == InsideOfMove(st, s, transit) IN
         /\ Good(r, down) /\ Reason(r.seat)
         /\ r.seat.keyboard = st.seat.keyboard
         /\ \/ /\ r.seat.focus = st.seat.focus /\ r.seat.track = st.seat.track
               /\ r.seat.captured <=> st.seat.captured
            \/ r.seat.focus = None /\ ~ r.seat.captured
<1> DEFINE r == InsideOfMove(st, s, transit)
           enter == [st EXCEPT !.seat.inside = TRUE]
           out == [st EXCEPT !.seat.inside = FALSE]
           free == [out EXCEPT !.seat.captured = FALSE]
<1>1. /\ Good(enter, down) /\ Reason(enter.seat) /\ enter.seat.keyboard = st.seat.keyboard
      /\ enter.seat.focus = st.seat.focus /\ enter.seat.track = st.seat.track
      /\ enter.seat.captured <=> st.seat.captured
  <2>1. enter.seat = [st.seat EXCEPT !.inside = TRUE] /\ enter.told = st.told /\ st.seat \in SeatStates
    BY DEF Good
  <2> HIDE DEF enter
  <2>2. enter.seat \in SeatStates
    BY <2>1 DEF SeatStates
  <2>3. enter.seat.captured <=> st.seat.captured
    BY <2>1 DEF SeatStates
  <2>4. /\ enter.seat.focus = st.seat.focus /\ enter.seat.track = st.seat.track
        /\ enter.seat.btns = st.seat.btns /\ enter.seat.keyboard = st.seat.keyboard
    BY <2>1 DEF SeatStates
  <2>5. Good(enter, down)
    BY <2>1, <2>2, <2>4 DEF Good, Pictured, Held
  <2> QED BY <2>3, <2>4, <2>5 DEF Reason
<1>2. /\ Good(out, down) /\ Reason(out.seat) /\ out.seat.keyboard = st.seat.keyboard
      /\ out.seat.focus = st.seat.focus /\ out.seat.track = st.seat.track
      /\ out.seat.captured <=> st.seat.captured
  <2>1. out.seat = [st.seat EXCEPT !.inside = FALSE] /\ out.told = st.told /\ st.seat \in SeatStates
    BY DEF Good
  <2> HIDE DEF out
  <2>2. out.seat \in SeatStates
    BY <2>1 DEF SeatStates
  <2>3. out.seat.captured <=> st.seat.captured
    BY <2>1 DEF SeatStates
  <2>4. /\ out.seat.focus = st.seat.focus /\ out.seat.track = st.seat.track
        /\ out.seat.btns = st.seat.btns /\ out.seat.keyboard = st.seat.keyboard
    BY <2>1 DEF SeatStates
  <2>5. Good(out, down)
    BY <2>1, <2>2, <2>4 DEF Good, Pictured, Held
  <2> QED BY <2>3, <2>4, <2>5 DEF Reason
<1>3. r = IF st.seat.focus # s THEN st
          ELSE IF transit \in {"entered", "inside"} THEN enter
          ELSE IF out.seat.track = "drag" THEN Taken(free, s, {}) ELSE out
  <2>1. free.seat.focus = s => Taken(free, s, {}) = SetPointerFocus(free, None, {}, "client")
    BY DEF Taken
  <2> QED BY <2>1 DEF InsideOfMove, Capture, GivePointerFocus, Taken
<1> HIDE DEF r, enter, out
<1>4. CASE st.seat.focus = s /\ transit \notin {"entered", "inside"} /\ out.seat.track = "drag"
  <2>1. r = Taken(free, s, {})
    BY <1>3, <1>4
  <2>2. /\ Good(free, down) /\ free.seat.focus = s /\ free.seat.keyboard = st.seat.keyboard
    BY <1>2, <1>4, FreedIsGood
  <2> HIDE DEF free
  <2>3. /\ Good(r, down) /\ r.seat.keyboard = st.seat.keyboard
        /\ r.seat.focus = None /\ r.seat.track = "none" /\ ~ r.seat.captured
    BY <2>1, <2>2, TakenFocus
  <2> QED BY <2>3 DEF Reason, r
<1>5. CASE ~ (st.seat.focus = s /\ transit \notin {"entered", "inside"} /\ out.seat.track = "drag")
  BY <1>1, <1>2, <1>3, <1>5 DEF r
<1> QED BY <1>4, <1>5

LEMMA MouseMovedSafe ==
  ASSUME IInv, NEW s \in Surfaces, NEW transit \in Transits, NEW isDrag \in BOOLEAN,
         MouseMoved(s, transit, isDrag)
  PROVE  IInv' /\ GrabKept /\ DanglesLate
<1> DEFINE f == FocusOfMove(s, transit, isDrag)
           r == InsideOfMove(f, s, transit)
<1>1. /\ Becomes(r)
      /\ UNCHANGED <<life, pointers, keyboards, device, late, down>>
      /\ OnView(s)
  BY DEF MouseMoved
<1>2. /\ Good(f, down) /\ Reason(f.seat)
      /\ f.seat.focus \in {seat.focus, s, None} /\ f.seat.keyboard = seat.keyboard
      /\ seat.captured /\ f.seat.captured /\ f.seat.track # "drag" => f.seat.focus = seat.focus
  BY FocusOfMoveFields
<1> HIDE DEF f
<1>3. /\ Good(r, down) /\ Reason(r.seat)
      /\ r.seat.keyboard = f.seat.keyboard
      /\ \/ /\ r.seat.focus = f.seat.focus /\ r.seat.track = f.seat.track
            /\ r.seat.captured <=> f.seat.captured
         \/ r.seat.focus = None /\ ~ r.seat.captured
  BY <1>2, Start, InsideOfMoveFields
<1> HIDE DEF r
<1>4. IInv'
  BY <1>1, <1>3, Start, Handled
<1>5. GrabKept /\ DanglesLate
  BY <1>1, <1>2, <1>3 DEF GrabKept, DanglesLate, Becomes, OnView, Defined
<1> QED BY <1>4, <1>5

LEMMA MouseDownSafe ==
  ASSUME IInv, NEW s \in Surfaces, NEW b \in Buttons, MouseDown(s, b)
  PROVE  IInv' /\ GrabKept /\ DanglesLate
<1> DEFINE r == Both(seat', told')
<1>0. /\ Becomes(r) /\ OnView(s)
      /\ UNCHANGED <<life, pointers, keyboards, device, late>>
      /\ down' = down \cup {b} /\ r.seat = seat' /\ r.told = told'
  BY DEF MouseDown, Becomes, Both
<1>1. CASE seat.focus # s
  <2>1. UNCHANGED <<seat, told>>
    BY <1>1 DEF MouseDown
  <2>2. Good(r, down') /\ Reason(r.seat)
    BY <1>0, <2>1, Start DEF Good, Held, Pictured, Reason
  <2> HIDE DEF r
  <2>3. IInv'
    BY <1>0, <2>2, Start, Handled
  <2> QED BY <1>0, <2>1, <2>3 DEF GrabKept, DanglesLate, Defined
<1>2. CASE seat.focus = s
  <2>1. /\ seat' = [seat EXCEPT !.captured = @ \/ seat.btns = {}, !.btns = down']
        /\ told' = IF seat.track \in {"none", "client"}
                   THEN ButtonEvents(told, down' \ seat.btns, {}) ELSE told
    BY <1>2 DEF MouseDown
  <2>2. /\ seat' \in SeatStates /\ seat'.btns = down' /\ down' \in SUBSET Buttons /\ down' # {}
        /\ seat'.focus = seat.focus /\ seat'.track = seat.track /\ seat'.keyboard = seat.keyboard
    BY <1>0, <2>1, Start DEF SeatStates
  <2>3. ASSUME seat.track = "client"  PROVE Good(r, down')
    <3>1. told' = ButtonEvents(told, down' \ seat.btns, {})
      BY <2>1, <2>3
    <3>2. down' \ seat.btns \in SUBSET Buttons
      BY <2>2
    <3>3. /\ told' \in ToldStates /\ told'.pointer = told.pointer /\ told'.keyboard = told.keyboard
          /\ told'.drag = told.drag /\ told'.unpaired = told.unpaired
          /\ told'.held = IF pointers = {} THEN told.held ELSE (told.held \cup (down' \ seat.btns)) \ {}
          /\ told'.missed = IF pointers = {} THEN told.missed ELSE told.missed \ {}
      BY <3>1, <3>2, Start DEF ButtonEvents, ToldStates
    <3> HIDE DEF r
    <3> QED BY <1>0, <2>2, <2>3, <3>3, Start DEF Good, Held, Pictured
  <2>4. ASSUME seat.track # "client"  PROVE Good(r, down')
    <3>1. told' = told
      BY <1>2, <2>1, <2>4, Start, NoneAssumption
    <3> HIDE DEF r
    <3> QED BY <1>0, <2>2, <2>4, <3>1, Start DEF Good, Held, Pictured
  <2> HIDE DEF r
  <2>5. Reason(r.seat)
    BY <1>0, <1>2, <2>2, NoneAssumption DEF Reason
  <2>6. IInv'
    BY <1>0, <2>2, <2>3, <2>4, <2>5, Start, Handled
  <2> QED BY <1>0, <2>2, <2>6 DEF GrabKept, DanglesLate, Defined
<1> QED BY <1>1, <1>2

\* The button events of a release, before the focus moves.
LEMMA ReleaseIsGood ==
  ASSUME IInv, NEW b \in down, seat.focus # None,
         NEW rest, rest = down \ {b}, NEW c \in BOOLEAN
  PROVE  LET events == IF seat.track \in {"none", "client"}
                       THEN ButtonEvents(told, {}, seat.btns \ rest) ELSE told
             st == Both([seat EXCEPT !.captured = c], events)
         IN /\ Good(st, rest)
            /\ st.seat.captured <=> c
            /\ st.seat.focus = seat.focus /\ st.seat.track = seat.track
            /\ st.seat.keyboard = seat.keyboard
<1> DEFINE events == IF seat.track \in {"none", "client"}
                     THEN ButtonEvents(told, {}, seat.btns \ rest) ELSE told
           q == [seat EXCEPT !.captured = c]
           st == Both(q, events)
<1>1. /\ q \in SeatStates /\ q.focus = seat.focus /\ q.track = seat.track
      /\ q.keyboard = seat.keyboard /\ q.btns = seat.btns /\ (q.captured <=> c)
  BY Start DEF SeatStates
<1>2. /\ events \in ToldStates /\ events.pointer = told.pointer /\ events.keyboard = told.keyboard
      /\ events.drag = told.drag /\ events.unpaired = told.unpaired
      /\ events.held \subseteq rest \cup events.missed
      /\ events.held \subseteq seat.btns \cup events.missed
      /\ events.held \subseteq told.held
  <2>1. CASE seat.track = "client" /\ pointers # {}
    <3>1. events = [told EXCEPT !.held = (@ \cup {}) \ (seat.btns \ rest), !.missed = @ \ (seat.btns \ rest)]
      BY <2>1 DEF ButtonEvents
    <3> HIDE DEF events
    <3>2. /\ events \in ToldStates /\ events.pointer = told.pointer /\ events.keyboard = told.keyboard
          /\ events.drag = told.drag /\ events.unpaired = told.unpaired
          /\ events.held = told.held \ (seat.btns \ rest) /\ events.missed = told.missed \ (seat.btns \ rest)
      BY <3>1, Start DEF ToldStates
    <3> QED BY <3>2, Start DEF Good, Held
  <2>2. CASE seat.track # "client" \/ pointers = {}
    <3>1. events = told
      BY <2>2, Start DEF ButtonEvents
    <3>2. told.held = {}
      BY <2>2, Start DEF Good, Held
    <3> QED BY <3>1, <3>2, Start
  <2> QED BY <2>1, <2>2
<1> HIDE DEF q, events
<1>3. st.seat = q /\ st.told = events
  BY DEF Both
<1> HIDE DEF st
<1>4. Good(st, rest)
  BY <1>1, <1>2, <1>3, Start DEF Good, Pictured, Held
<1> QED BY <1>1, <1>3, <1>4 DEF st, q, events

LEMMA MouseUpSafe ==
  ASSUME IInv, NEW s \in Surfaces, NEW b \in Buttons, MouseUp(s, b)
  PROVE  IInv' /\ GrabKept /\ DanglesLate
<1> DEFINE r == Both(seat', told')
<1>0. /\ Becomes(r) /\ OnView(s) /\ s # None
      /\ UNCHANGED <<life, pointers, keyboards, device, late>>
      /\ b \in down /\ down' = down \ {b} /\ down' \in SUBSET Buttons
      /\ r.seat = seat' /\ r.told = told'
  BY Start, NoneAssumption DEF MouseUp, Becomes, Both
<1> HIDE DEF r
<1>1. CASE seat.focus # s
  <2>1. told' = [told EXCEPT !.missed = @ \cup ({b} \cap told.held)] /\ UNCHANGED seat
    BY <1>1 DEF MouseUp
  <2>2. /\ told' \in ToldStates /\ told'.pointer = told.pointer /\ told'.keyboard = told.keyboard
        /\ told'.drag = told.drag /\ told'.unpaired = told.unpaired /\ told'.held = told.held
        /\ told'.missed = told.missed \cup ({b} \cap told.held)
    BY <2>1, Start DEF ToldStates
  <2>3. Good(r, down') /\ Reason(r.seat)
    BY <1>0, <2>1, <2>2, Start DEF Good, Held, Pictured, Reason
  <2>4. IInv'
    BY <1>0, <2>3, Start, Handled
  <2> QED BY <1>0, <2>1, <2>4 DEF GrabKept, DanglesLate, Defined
<1>2. CASE seat.focus = s
  <2> DEFINE events == IF seat.track \in {"none", "client"}
                       THEN ButtonEvents(told, {}, seat.btns \ down') ELSE told
             ends == seat.btns # {} /\ down' = {} /\ seat.track # "drag"
             c == seat.captured /\ ~ ends
             st == Both([seat EXCEPT !.captured = c], events)
             refocused == IF st.seat.captured THEN st
                          ELSE IF seat.inside THEN SetPointerFocus(st, s, down', "client")
                          ELSE Taken(st, s, down')
  <2>1. /\ Good(st, down') /\ (st.seat.captured <=> c) /\ st.seat.focus = s
        /\ st.seat.track = seat.track /\ st.seat.keyboard = seat.keyboard
    BY <1>0, <1>2, ReleaseIsGood
  <2>2. Becomes([refocused EXCEPT !.seat.btns = down'])
    <3>1. st.seat.inside = seat.inside
      BY Start DEF Both, SeatStates
    <3> QED BY <1>2, <3>1 DEF MouseUp, GivePointerFocus, Taken
  <2> HIDE DEF st
  <2>3. /\ Good(refocused, down') /\ refocused.seat.keyboard = seat.keyboard
        /\ c => refocused.seat.focus = s /\ refocused.seat.track = seat.track
        /\ ~ c => /\ refocused.seat.focus \in {s, None} /\ ~ refocused.seat.captured
                  /\ refocused.seat.track \in {"client", "none"}
    <3>1. CASE st.seat.captured
      BY <2>1, <3>1
    <3>2. CASE ~ st.seat.captured /\ seat.inside
      <4>1. refocused = SetPointerFocus(st, s, down', "client")
        BY <3>2
      <4> HIDE DEF refocused
      <4> QED BY <1>0, <2>1, <3>2, <4>1, Start, GivenFocus
    <3>3. CASE ~ st.seat.captured /\ ~ seat.inside
      <4>1. refocused = Taken(st, s, down')
        BY <3>3
      <4> HIDE DEF refocused
      <4> QED BY <1>0, <2>1, <3>3, <4>1, Start, TakenFocus
    <3> QED BY <3>1, <3>2, <3>3
  <2> HIDE DEF refocused, c
  <2>4. /\ seat' = [refocused.seat EXCEPT !.btns = down'] /\ told' = refocused.told
    BY <2>2 DEF Becomes
  <2>5. /\ seat' \in SeatStates /\ seat'.btns = down' /\ seat'.focus = refocused.seat.focus
        /\ seat'.track = refocused.seat.track /\ seat'.keyboard = seat.keyboard
        /\ seat'.captured <=> refocused.seat.captured
    BY <1>0, <2>3, <2>4 DEF Good, SeatStates
  <2>6. Good(r, down')
    BY <1>0, <2>3, <2>4, <2>5 DEF Good, Held, Pictured
  <2>7. Reason(r.seat)
    <3>1. CASE c
      <4>1. seat.btns = {} \/ down' # {} \/ seat.track = "drag"
        BY <3>1 DEF c
      <4>2. seat.captured
        BY <3>1 DEF c
      <4> QED BY <1>0, <2>3, <2>5, <3>1, <4>1, <4>2, Start DEF Reason
    <3>2. CASE ~ c
      BY <1>0, <2>3, <2>5, <3>2 DEF Reason
    <3> QED BY <3>1, <3>2
  <2>8. IInv'
    BY <1>0, <2>6, <2>7, Start, Handled
  <2>9. GrabKept
    BY <1>2, <2>3, <2>5 DEF GrabKept, c
  <2>10. DanglesLate
    BY <1>0, <2>3, <2>5 DEF DanglesLate, OnView, Defined
  <2> QED BY <2>8, <2>9, <2>10
<1> QED BY <1>1, <1>2

LEMMA WindowActivatedSafe ==
  ASSUME IInv, NEW s \in Surfaces, NEW active \in BOOLEAN, WindowActivated(s, active)
  PROVE  IInv' /\ GrabKept /\ DanglesLate
<1> DEFINE r == SetKeyboardFocus(Now, s, active)
<1>1. /\ Becomes(r)
      /\ UNCHANGED <<life, pointers, keyboards, device, late, down>>
      /\ OnView(s)
  BY DEF WindowActivated
<1>2. /\ Good(r, down)
      /\ r.seat.focus = seat.focus /\ r.seat.track = seat.track /\ r.seat.btns = seat.btns
      /\ r.seat.captured <=> seat.captured
      /\ r.seat.keyboard \in {s, None, seat.keyboard}
  BY Start, SetKeyboardFocusIsGood
<1> HIDE DEF r
<1>3. IInv'
  BY <1>1, <1>2, Start, Handled DEF Reason
<1>4. GrabKept /\ DanglesLate
  BY <1>1, <1>2 DEF GrabKept, DanglesLate, Becomes, OnView, Defined
<1> QED BY <1>3, <1>4

-----------------------------------------------------------------------------
(* Requests.                                                                *)

LEMMA DestroySurfaceSafe ==
  ASSUME IInv, NEW s \in Surfaces, NEW hook \in BOOLEAN, DestroySurface(s, hook)
  PROVE  IInv' /\ GrabKept /\ DanglesLate
<1> DEFINE p == Taken(Now, s, {})
           r == SetKeyboardFocus(p, s, FALSE)
<1>1. /\ Becomes(r) /\ Defined
      /\ UNCHANGED <<pointers, keyboards, device, late, down>>
      /\ life' = [life EXCEPT ![s] = IF hook THEN "dying" ELSE "dead"]
  BY DEF DestroySurface, Serving, TakeFocus, GivePointerFocus, Taken
<1>2. /\ Good(p, down) /\ p.seat.keyboard = seat.keyboard
      /\ seat.focus # s => p = Now
      /\ seat.focus = s => p.seat.focus = None /\ p.seat.track = "none" /\ ~ p.seat.captured
  BY Start, TakenFocus
<1> HIDE DEF p
<1>3. /\ Good(r, down)
      /\ r.seat.focus = p.seat.focus /\ r.seat.track = p.seat.track /\ r.seat.btns = p.seat.btns
      /\ r.seat.captured <=> p.seat.captured
      /\ r.seat.keyboard = IF p.seat.keyboard = s THEN None ELSE p.seat.keyboard
  <2>1. r = IF p.seat.keyboard = s
            THEN Both([p.seat EXCEPT !.keyboard = None],
                      IF p.seat.keyboard = None THEN p.told ELSE KeyboardLeave(p.told, p.seat.keyboard))
            ELSE p
    BY DEF SetKeyboardFocus
  <2>2. \A setFocus \in BOOLEAN : ~ setFocus => SetKeyboardFocus(p, s, setFocus) = r
    BY <2>1 DEF SetKeyboardFocus
  <2>3. PICK setFocus \in BOOLEAN : ~ setFocus
    OBVIOUS
  <2>4. SetKeyboardFocus(p, s, setFocus) = r
    BY <2>2, <2>3
  <2> HIDE DEF r
  <2> QED BY <1>2, <2>3, <2>4, Start, SetKeyboardFocusIsGood
<1> HIDE DEF r
<1>4. /\ Reason(r.seat) /\ r.seat.focus # s /\ r.seat.keyboard # s
      /\ r.seat.focus \in {seat.focus, None} /\ r.seat.keyboard \in {seat.keyboard, None}
  BY <1>2, <1>3, NoneAssumption, Start DEF Reason
<1>5. IInv'
  <2>1. life' \in [Surfaces -> {"new", "live", "dying", "dead"}]
    BY <1>1, Start
  <2> QED BY <1>1, <1>3, <1>4, <2>1, Start, Handled
<1>6. GrabKept
  BY <1>1, <1>2, <1>3, Start DEF GrabKept, Becomes
<1>7. DanglesLate
  <2>1. \A t \in Surfaces \ {s} : life'[t] = life[t]
    BY <1>1, Start
  <2>2. r.seat.focus \in Focus /\ r.seat.keyboard \in Focus
    BY <1>3 DEF Good, SeatStates
  <2> QED BY <1>1, <1>4, <2>1, <2>2 DEF DanglesLate, Defined, Becomes, Focus
<1> QED BY <1>5, <1>6, <1>7

LEMMA DoTrackSafe ==
  ASSUME IInv, NEW id \in {"move", "resize"}, DoTrack(id)
  PROVE  IInv' /\ GrabKept /\ DanglesLate
<1> DEFINE r == SetPointerFocus(Now, seat.focus, {}, id)
<1>1. /\ Becomes(r) /\ Defined /\ seat.focus # None /\ seat.btns # {}
      /\ UNCHANGED <<life, pointers, keyboards, device, late, down>>
  BY DEF DoTrack, Serving
<1>2. /\ Good(r, down) /\ r.seat.focus = seat.focus /\ r.seat.track = id
      /\ r.seat.keyboard = seat.keyboard /\ r.seat.btns = seat.btns
  <2>1. seat.focus \in Focus /\ id \in TrackIds \ {"none"} /\ {} \in SUBSET Buttons
    BY Start DEF SeatStates, TrackIds
  <2> QED BY <1>1, <2>1, Start, SetPointerFocusIsGood
<1> HIDE DEF r
<1>3. IInv'
  BY <1>1, <1>2, Start, Handled DEF Reason
<1> QED BY <1>1, <1>2, <1>3 DEF GrabKept, DanglesLate, Defined, Becomes

LEMMA SurfaceSafe ==
  ASSUME IInv, NEW s \in Surfaces, CreateSurface(s) \/ Detached(s)
  PROVE  IInv' /\ GrabKept /\ DanglesLate
<1>1. UNCHANGED <<pointers, keyboards, device, late, seat, told, down>>
  BY DEF CreateSurface, Detached
<1>2. life' \in [Surfaces -> {"new", "live", "dying", "dead"}]
  BY Start DEF CreateSurface, Detached
<1>3. Becomes(Now) /\ Good(Now, down') /\ Reason(Now.seat)
  BY <1>1, Start DEF Becomes
<1>4. IInv'
  BY <1>1, <1>2, <1>3, Start, Handled
<1>5. DanglesLate
  <2>1. CASE Detached(s)
    BY <2>1 DEF Detached, DanglesLate
  <2>2. CASE CreateSurface(s)
    <3>1. \A t \in Surfaces : life'[t] = IF t = s THEN "live" ELSE life[t]
      BY <2>2, Start DEF CreateSurface
    <3> QED BY <1>1, <3>1, Start DEF DanglesLate, Defined, SeatStates, Focus
  <2> QED BY <2>1, <2>2
<1> QED BY <1>1, <1>4, <1>5 DEF GrabKept

LEMMA HandleGetPointerSafe ==
  ASSUME IInv, NEW p \in Pointers, HandleGetPointer(p)
  PROVE  IInv'
<1>0. p \notin Keyboards /\ p # "device"
  BY ObjectsAssumption
<1>1. /\ pointers' = pointers \cup {p}
      /\ late' = IF seat.track = "client" THEN late \cup {p} ELSE late \ {p}
      /\ told' = [told EXCEPT !.pointer[p] = None, !.unpaired = @ \ {p}]
      /\ UNCHANGED <<life, keyboards, device, seat, down>>
  BY DEF HandleGetPointer
<1>2. /\ told' \in ToldStates /\ told'.pointer = [told.pointer EXCEPT ![p] = None]
      /\ told'.keyboard = told.keyboard /\ told'.drag = told.drag /\ told'.held = told.held
      /\ told'.missed = told.missed /\ told'.unpaired = told.unpaired \ {p}
  BY <1>1, Start DEF ToldStates, Focus
<1>3. Objects'
  BY <1>1, Start DEF Objects
<1>4. Good(Now, down)'
  <2>1. \A x \in pointers' \ late' : told'.pointer[x] = IF seat.track = "client" THEN seat.focus ELSE None
    <3>1. \A x \in Pointers \ {p} : told'.pointer[x] = told.pointer[x]
      BY <1>2, Start DEF ToldStates
    <3>2. told'.pointer[p] = None
      BY <1>2, Start DEF ToldStates
    <3> QED BY <1>1, <3>1, <3>2, Start DEF Good, Pictured, Objects
  <2>2. \A k \in keyboards' \ late' : told'.keyboard[k] = seat.keyboard
    BY <1>0, <1>1, <1>2, Start DEF Good, Pictured, Objects
  <2>3. told'.unpaired \subseteq late' /\ ("device" \in late <=> "device" \in late')
    BY <1>0, <1>1, <1>2, Start DEF Good, Pictured
  <2>4. Pictured(seat, told)'
    <3>1. /\ device /\ "device" \notin late => told.drag = IF seat.track = "drag" THEN seat.focus ELSE None
          /\ ~ device => told.drag = None
      BY Start DEF Good, Pictured
    <3> QED BY <1>1, <1>2, <2>1, <2>2, <2>3, <3>1 DEF Pictured
  <2>5. Held(seat, told, down)'
    BY <1>1, <1>2, Start DEF Good, Held
  <2>6. /\ (seat \in SeatStates)' /\ (told \in ToldStates)'
        /\ (seat.focus = None <=> seat.track = "none")'
    BY <1>1, <1>2, Start
  <2> QED BY <2>4, <2>5, <2>6 DEF Good, Now, Both
<1> QED BY <1>1, <1>2, <1>3, <1>4, Start DEF IInv, TypeOK, Objects, GrabHasReason, Reason

LEMMA ReleasePointerSafe ==
  ASSUME IInv, NEW p \in Pointers, ReleasePointer(p)
  PROVE  IInv'
<1>1. /\ pointers' = pointers \ {p}
      /\ told' = IF pointers # {p} THEN told ELSE [told EXCEPT !.held = {}, !.missed = {}]
      /\ p \in pointers
      /\ UNCHANGED <<life, keyboards, device, late, seat, down>>
  BY DEF ReleasePointer
<1>2. /\ told' \in ToldStates /\ told'.pointer = told.pointer /\ told'.keyboard = told.keyboard
      /\ told'.drag = told.drag /\ told'.unpaired = told.unpaired
      /\ told'.held = {} \/ (told'.held = told.held /\ told'.missed = told.missed)
      /\ pointers' = {} => told'.held = {}
  BY <1>1, Start DEF ToldStates
<1>3. Objects'
  BY <1>1, Start DEF Objects
<1>4. Good(Now, down)'
  BY <1>1, <1>2, Start DEF Good, Pictured, Held, Now, Both
<1> QED BY <1>1, <1>2, <1>3, <1>4, Start DEF IInv, TypeOK, Objects, GrabHasReason, Reason

LEMMA HandleGetKeyboardSafe ==
  ASSUME IInv, NEW k \in Keyboards, HandleGetKeyboard(k)
  PROVE  IInv'
<1>0. k \notin Pointers /\ k # "device"
  BY ObjectsAssumption
<1>1. /\ keyboards' = keyboards \cup {k}
      /\ late' = IF seat.keyboard # None THEN late \cup {k} ELSE late \ {k}
      /\ told' = [told EXCEPT !.keyboard[k] = None, !.unpaired = @ \ {k}]
      /\ UNCHANGED <<life, pointers, device, seat, down>>
  BY DEF HandleGetKeyboard
<1>2. /\ told' \in ToldStates /\ told'.keyboard = [told.keyboard EXCEPT ![k] = None]
      /\ told'.pointer = told.pointer /\ told'.drag = told.drag /\ told'.held = told.held
      /\ told'.missed = told.missed /\ told'.unpaired = told.unpaired \ {k}
  BY <1>1, Start DEF ToldStates, Focus
<1>3. Objects'
  BY <1>1, Start DEF Objects
<1>4. Good(Now, down)'
  <2>1. \A x \in keyboards' \ late' : told'.keyboard[x] = seat.keyboard
    <3>1. \A x \in Keyboards \ {k} : told'.keyboard[x] = told.keyboard[x]
      BY <1>2, Start DEF ToldStates
    <3>2. told'.keyboard[k] = None
      BY <1>2, Start DEF ToldStates
    <3> QED BY <1>1, <3>1, <3>2, Start DEF Good, Pictured, Objects
  <2>2. \A x \in pointers' \ late' : told'.pointer[x] = IF seat.track = "client" THEN seat.focus ELSE None
    BY <1>0, <1>1, <1>2, Start DEF Good, Pictured, Objects
  <2>3. told'.unpaired \subseteq late' /\ ("device" \in late <=> "device" \in late')
    BY <1>0, <1>1, <1>2, Start DEF Good, Pictured
  <2>4. Pictured(seat, told)'
    <3>1. /\ device /\ "device" \notin late => told.drag = IF seat.track = "drag" THEN seat.focus ELSE None
          /\ ~ device => told.drag = None
      BY Start DEF Good, Pictured
    <3> QED BY <1>1, <1>2, <2>1, <2>2, <2>3, <3>1 DEF Pictured
  <2>5. Held(seat, told, down)'
    BY <1>1, <1>2, Start DEF Good, Held
  <2>6. /\ (seat \in SeatStates)' /\ (told \in ToldStates)'
        /\ (seat.focus = None <=> seat.track = "none")'
    BY <1>1, <1>2, Start
  <2> QED BY <2>4, <2>5, <2>6 DEF Good, Now, Both
<1> QED BY <1>1, <1>2, <1>3, <1>4, Start DEF IInv, TypeOK, Objects, GrabHasReason, Reason

LEMMA ReleaseKeyboardSafe ==
  ASSUME IInv, NEW k \in Keyboards, ReleaseKeyboard(k)
  PROVE  IInv'
<1>1. /\ keyboards' = keyboards \ {k}
      /\ UNCHANGED <<life, pointers, device, late, seat, told, down>>
  BY DEF ReleaseKeyboard
<1>2. Objects' /\ Good(Now, down)'
  BY <1>1, Start DEF Objects, Good, Pictured, Held, Now, Both
<1> QED BY <1>1, <1>2, Start DEF IInv, TypeOK, Objects, GrabHasReason, Reason

LEMMA GetDataDeviceSafe ==
  ASSUME IInv, GetDataDevice
  PROVE  IInv'
<1>1. /\ device' = TRUE /\ ~ device
      /\ late' = IF seat.track = "drag" THEN late \cup {"device"} ELSE late
      /\ UNCHANGED <<life, pointers, keyboards, seat, told, down>>
  BY DEF GetDataDevice
<1>2. Objects' /\ late \subseteq late'
  BY <1>1, Start DEF Objects
<1>3. Good(Now, down)'
  BY <1>1, <1>2, Start, ObjectsAssumption DEF Objects, Good, Pictured, Held, Now, Both
<1> QED BY <1>1, <1>2, <1>3, Start DEF IInv, TypeOK, Objects, GrabHasReason, Reason

-----------------------------------------------------------------------------
(* The specification.                                                       *)

LEMMA InitIInv == Init => IInv
<1> SUFFICES ASSUME Init PROVE IInv
  OBVIOUS
<1>1. Objects
  BY DEF Init, Objects
<1>2. /\ seat \in SeatStates /\ told \in ToldStates /\ down \in SUBSET Buttons
      /\ life \in [Surfaces -> {"new", "live", "dying", "dead"}]
  BY DEF Init, SeatStates, ToldStates, Focus, TrackIds
<1>3. Good(Now, down)
  BY <1>2 DEF Init, Good, Pictured, Held, Now, Both
<1> QED BY <1>1, <1>2, <1>3 DEF Init, IInv, TypeOK, Objects, GrabHasReason

\* A request that makes or releases an object of the client.
Object == \/ \E p \in Pointers : HandleGetPointer(p) \/ ReleasePointer(p)
          \/ \E k \in Keyboards : HandleGetKeyboard(k) \/ ReleaseKeyboard(k)
          \/ GetDataDevice

LEMMA NextSafe ==
  ASSUME IInv, [Next]_vars
  PROVE  IInv' /\ (GrabKept \/ UNCHANGED vars) /\ (DanglesLate \/ UNCHANGED vars)
<1>1. CASE UNCHANGED vars
  BY <1>1 DEF vars, IInv, Objects, TypeOK, Good, Pictured, Held, Now, Both, GrabHasReason
<1>2. CASE Messages
  <2>1. PICK s \in Surfaces :
          \/ \E data \in BOOLEAN, btns \in SUBSET Buttons : Drop(s, data, btns)
          \/ \E transit \in Transits, drag \in BOOLEAN : MouseMoved(s, transit, drag)
          \/ \E b \in Buttons : MouseDown(s, b) \/ MouseUp(s, b)
          \/ \E active \in BOOLEAN : WindowActivated(s, active)
    BY <1>2 DEF Messages, Transits
  <2> QED BY <2>1, DropSafe, MouseMovedSafe, MouseDownSafe, MouseUpSafe, WindowActivatedSafe
<1>3. CASE \E s \in Surfaces : CreateSurface(s) \/ Detached(s) \/ \E h \in BOOLEAN : DestroySurface(s, h)
  BY <1>3, SurfaceSafe, DestroySurfaceSafe
<1>4. CASE \E id \in {"move", "resize"} : DoTrack(id)
  BY <1>4, DoTrackSafe
<1>5. CASE Object
  <2>1. IInv'
    BY <1>5, HandleGetPointerSafe, ReleasePointerSafe, HandleGetKeyboardSafe, ReleaseKeyboardSafe,
       GetDataDeviceSafe DEF Object
  <2>2. UNCHANGED <<life, seat>>
    BY <1>5 DEF Object, HandleGetPointer, ReleasePointer, HandleGetKeyboard, ReleaseKeyboard, GetDataDevice
  <2> QED BY <2>1, <2>2 DEF GrabKept, DanglesLate, Defined
<1>6. CASE Undefined
  BY <1>1, <1>6 DEF Undefined
<1> QED BY <1>1, <1>2, <1>3, <1>4, <1>5, <1>6 DEF Next, Requests, Object

\* The inductive invariant: what the client was told of the focus is true before and after each
\* leave, enter and button event, also between the steps of a handler.
THEOREM Invariance == Spec => []IInv
<1>1. Init => IInv
  BY InitIInv
<1>2. IInv /\ [Next]_vars => IInv'
  BY NextSafe
<1> QED BY <1>1, <1>2, PTL DEF Spec

\* TypeOK holds: the focus is "none" exactly if there is no surface (HaikuSeat.cpp:278-318).
THEOREM TypeCorrect == Spec => []TypeOK
<1>1. IInv => TypeOK
  BY DEF IInv
<1> QED BY <1>1, Invariance, PTL

\* Every object was last told of the focus the seat has, and was sent a leave for each enter,
\* unless it was made while there was such a focus (HaikuSeat.cpp:278-380, 695-724).
THEOREM FocusIsToldCorrect == Spec => []FocusIsTold
<1>1. IInv => FocusIsTold
  BY DEF IInv, Good, Pictured, FocusIsTold, Now, Both
<1> QED BY <1>1, Invariance, PTL

\* A button the client was told is pressed is one the seat will tell is released
\* (HaikuSeat.cpp:447-520).
THEOREM PressedIsKnownCorrect == Spec => []PressedIsKnown
<1>1. IInv => PressedIsKnown
  BY DEF IInv, Good, Held, PressedIsKnown, Now, Both
<1> QED BY <1>1, Invariance, PTL

\* The pointer is captured for a button of the focus, or for a drag (HaikuSeat.cpp:447-520).
THEOREM GrabHasReasonCorrect == Spec => []GrabHasReason
<1>1. IInv => GrabHasReason
  BY DEF IInv
<1> QED BY <1>1, Invariance, PTL

\* While a button holds the pointer, motion does not move the focus.
THEOREM GrabKeepsFocusCorrect == Spec => GrabKeepsFocus
<1>1. IInv /\ [Next]_vars => [GrabKept]_vars
  BY NextSafe
<1> QED BY <1>1, Invariance, PTL DEF Spec, GrabKeepsFocus, GrabKept

\* The seat is left with a surface that is gone only by a hook that ran in ~HaikuSurface's
\* Detach (HaikuCompositor.cpp:301-311).
THEOREM DanglesOnlyAfterLateHookCorrect == Spec => DanglesOnlyAfterLateHook
<1>1. IInv /\ [Next]_vars => [DanglesLate]_vars
  BY NextSafe
<1> QED BY <1>1, Invariance, PTL DEF Spec, DanglesOnlyAfterLateHook, DanglesLate
=============================================================================
