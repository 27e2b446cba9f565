----------------------------- MODULE Positioner -----------------------------
(***************************************************************************)
(* Where a popup goes: HaikuXdgPositioner.cpp, with UpdatePosition of       *)
(* HaikuXdgPopup.cpp, its only user.                                        *)
(*                                                                         *)
(* The code treats the two axes alike, so a positioner is a record for each *)
(* axis.  An anchor or a gravity is the side of the rectangle it names on   *)
(* that axis: -1 for left or top, 1 for right or bottom, 0 for neither.     *)
(***************************************************************************)
EXTENDS Integers

CONSTANTS
  Sizes,      \* size of the popup on an axis: at least 1
  Rects,      \* position of the anchor rectangle
  Extents,    \* size of the anchor rectangle
  Shifts,     \* offset
  WorkArea    \* first and last pixel of the parent's screen, on each axis

ASSUME SizesAssumption == Sizes \subseteq Nat \ {0} /\ 1 \in Sizes
ASSUME RectsAssumption == Rects \subseteq Int /\ 0 \in Rects
ASSUME ExtentsAssumption == Extents \subseteq Nat /\ 0 \in Extents
ASSUME ShiftsAssumption == Shifts \subseteq Int /\ 0 \in Shifts

Axes == {"x", "y"}
Sides == {-1, 0, 1}

ASSUME WorkAreaAssumption == WorkArea \in [Axes -> [lo : Int, hi : Int]]

AxisStates == [size : Sizes, rect : Rects, extent : Extents, offset : Shifts,
               anchor : Sides, gravity : Sides,
               flip : BOOLEAN, slide : BOOLEAN]

Spans == [lo : Int, hi : Int]

VARIABLES
  fState,       \* the positioner
  placed,       \* whether a popup has been placed with it
  fPosition     \* the popup's place, relative to its parent

positionerVars == <<fState, placed, fPosition>>

-----------------------------------------------------------------------------
(* The placement on one axis, before any constraint.                        *)

AnchorPoint(s) == s.rect + (CASE s.anchor = -1 -> 0
                              [] s.anchor = 1 -> s.extent
                              [] OTHER -> s.extent \div 2)

GravityShift(s) == CASE s.gravity = -1 -> s.size
                     [] s.gravity = 1 -> 0
                     [] OTHER -> s.size \div 2

Place(s) == LET lo == s.offset + AnchorPoint(s) - GravityShift(s)
            IN [lo |-> lo, hi |-> lo + s.size - 1]

\* How far a span sticks out of the work area, at its near and at its far end.
Near(a, span) == WorkArea[a].lo - span.lo
Far(a, span) == span.hi - WorkArea[a].hi

Inside(a, span) == Near(a, span) <= 0 /\ Far(a, span) <= 0

IsUnconstrained(pos) == \A a \in Axes : Inside(a, pos[a])

-----------------------------------------------------------------------------
(* The three adjustments, in the order they are tried.                      *)

Flip(s) == [s EXCEPT !.anchor = -@, !.gravity = -@]

Flips(a, s, span) == s.flip /\ ((Near(a, span) > 0) # (Far(a, span) > 0))

\* Fault: the flipped place is taken over unseen.
FlipAnyway(state, pos) ==
  [a \in Axes |-> IF Flips(a, state[a], pos[a]) THEN Place(Flip(state[a])) ELSE pos[a]]

\* If an axis flips, each axis whose place is then inside is taken over.
UnconstrainByFlip(state, pos) ==
  LET flipped == [a \in Axes |-> IF Flips(a, state[a], pos[a]) THEN Flip(state[a])
                                 ELSE state[a]]
  IN [a \in Axes |-> IF /\ \E b \in Axes : Flips(b, state[b], pos[b])
                        /\ Inside(a, Place(flipped[a]))
                     THEN Place(flipped[a]) ELSE pos[a]]

Abs(n) == IF n < 0 THEN -n ELSE n

\* Fault: a wrong sign at the far end.
SlideOut(a, s, span) ==
  LET near == Near(a, span)
      far == Far(a, span)
  IN IF near > 0 /\ far > 0
     THEN IF s.gravity = -1 THEN -far ELSE near
     ELSE IF Abs(near) < Abs(far) THEN near ELSE far

SlideBy(a, s, span) ==
  LET near == Near(a, span)
      far == Far(a, span)
  IN IF near > 0 /\ far > 0
     THEN IF s.gravity = -1 THEN -far ELSE near
     ELSE IF Abs(near) < Abs(far) THEN near ELSE -far

\* Fault: an axis slides because the other one has to.
SlideBoth(a, s, span) ==
  IF s.slide
  THEN [lo |-> span.lo + SlideBy(a, s, span), hi |-> span.hi + SlideBy(a, s, span)]
  ELSE span

Slide(a, s, span) ==
  IF s.slide /\ ~ Inside(a, span)
  THEN [lo |-> span.lo + SlideBy(a, s, span), hi |-> span.hi + SlideBy(a, s, span)]
  ELSE span

UnconstrainBySlide(state, pos) == [a \in Axes |-> Slide(a, state[a], pos[a])]

\* The resized rectangle is computed and its validity tested, but never stored: the
\* popup stays where it is, whether the positioner lets it be resized or not.
UnconstrainByResize(state, pos) == pos

UnconstrainPosition(state, pos) ==
  IF IsUnconstrained(pos) THEN pos
  ELSE LET flipped == UnconstrainByFlip(state, pos)
           slid == UnconstrainBySlide(state, flipped)
       IN IF IsUnconstrained(flipped) THEN flipped
          ELSE IF IsUnconstrained(slid) THEN slid
          ELSE UnconstrainByResize(state, slid)

PlaceBoth(state) == [a \in Axes |-> Place(state[a])]

GetPosition(state) == UnconstrainPosition(state, PlaceBoth(state))

-----------------------------------------------------------------------------
(* The positioner's requests, and the popup's.                              *)

PositionerTypeOK ==
  /\ fState \in [Axes -> AxisStates]
  /\ placed \in BOOLEAN
  /\ fPosition \in [Axes -> Spans]

NoPosition == [a \in Axes |-> [lo |-> 0, hi |-> -1]]

\* A new positioner is zero everywhere, but for the size a popup needs.
PositionerInit ==
  /\ fState = [a \in Axes |->
                 [size |-> 1, rect |-> 0, extent |-> 0, offset |-> 0,
                  anchor |-> 0, gravity |-> 0,
                  flip |-> FALSE, slide |-> FALSE]]
  /\ placed = FALSE
  /\ fPosition = NoPosition

Set(a, s) == /\ ~ placed
             /\ fState' = [fState EXCEPT ![a] = s]
             /\ UNCHANGED <<placed, fPosition>>

HandleSetSize == \E a \in Axes, n \in Sizes : Set(a, [fState[a] EXCEPT !.size = n])

HandleSetAnchorRect == \E a \in Axes, r \in Rects, e \in Extents :
  Set(a, [fState[a] EXCEPT !.rect = r, !.extent = e])

HandleSetAnchor == \E a \in Axes, d \in Sides :
  Set(a, [fState[a] EXCEPT !.anchor = d])

HandleSetGravity == \E a \in Axes, d \in Sides :
  Set(a, [fState[a] EXCEPT !.gravity = d])

HandleSetConstraintAdjustment == \E a \in Axes, f, s \in BOOLEAN :
  Set(a, [fState[a] EXCEPT !.flip = f, !.slide = s])

HandleSetOffset == \E a \in Axes, n \in Shifts :
  Set(a, [fState[a] EXCEPT !.offset = n])

\* HaikuXdgPopup::UpdatePosition: a popup is created, or repositioned.
UpdatePosition == /\ ~ placed
                  /\ placed' = TRUE
                  /\ fPosition' = GetPosition(fState)
                  /\ UNCHANGED fState

\* The client fills in a positioner for another placement.
Reuse == /\ placed
         /\ placed' = FALSE
         /\ fPosition' = NoPosition
         /\ UNCHANGED fState

PositionerNext ==
  \/ HandleSetSize \/ HandleSetAnchorRect \/ HandleSetAnchor
  \/ HandleSetGravity \/ HandleSetConstraintAdjustment \/ HandleSetOffset
  \/ UpdatePosition \/ Reuse

PositionerSpec == PositionerInit /\ [][PositionerNext]_positionerVars

-----------------------------------------------------------------------------
(* Properties.                                                              *)

Fits(a) == fState[a].size <= WorkArea[a].hi - WorkArea[a].lo + 1

\* A popup that may slide on an axis and is not larger than the work area is placed
\* inside it, whatever flipping did before (HaikuXdgPositioner.cpp:95-258).
SlideKeepsInside ==
  placed => \A a \in Axes : fState[a].slide /\ Fits(a) => Inside(a, fPosition[a])

Overflow(a, span) == (IF Near(a, span) > 0 THEN Near(a, span) ELSE 0)
                     + (IF Far(a, span) > 0 THEN Far(a, span) ELSE 0)

\* No adjustment makes more of the popup stick out than did without any, also when the
\* popup is larger than the work area and no place is good.
OverflowNeverGrows ==
  placed => \A a \in Axes :
    Overflow(a, fPosition[a]) <= Overflow(a, Place(fState[a]))

\* The mirror image of the place a popup was given, in its anchor rectangle.
Mirror(s) == LET span == Place([s EXCEPT !.offset = 0])
             IN 2 * s.rect + s.extent - 1 - span.hi + s.offset

\* The adjustments of one axis leave the other alone: an axis on which the popup was
\* inside from the start keeps its place, and one that may only flip goes, if anywhere, to
\* the mirror image, up to the pixel that halving an odd size loses
\* (HaikuXdgPositioner.cpp:95-258).
AxisMovesAsAllowed ==
  placed => \A a \in Axes :
    \/ fPosition[a] = Place(fState[a])
    \/ /\ ~ Inside(a, Place(fState[a]))
       /\ \/ fState[a].slide
          \/ fState[a].flip /\ Abs(fPosition[a].lo - Mirror(fState[a])) <= 1
=============================================================================
