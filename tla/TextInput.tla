------------------------------ MODULE TextInput ------------------------------
(***************************************************************************)
(* Keyboard focus and text input: HaikuTextInput.cpp, with SetKeyboardFocus *)
(* of HaikuSeat.cpp and WindowActivated of HaikuCompositor.cpp.  The        *)
(* app_server activates windows, and an input method composes texts, both   *)
(* by messages to windows.  Each window handles its own in order, on a      *)
(* thread of its own: messages to two windows may overtake each other.      *)
(*                                                                         *)
(* All text inputs of a client share one composition, kept in the global    *)
(* object.  A text is named by its composition; 0 is the empty text.  The   *)
(* requests that change nothing (enable, surrounding text, content type),   *)
(* the cursor rectangle and the serial that counts commits are left out.    *)
(***************************************************************************)
EXTENDS Naturals, Sequences, SequencesExt, FiniteSets

CONSTANTS
  Surfaces,         \* the client's toplevel surfaces, each with its window
  Texts,            \* zwp_text_input_v3 objects
  None,             \* no surface, or a window of another program
  MaxCompositions,  \* bound on the compositions of the input method
  MaxSwitches,      \* bound on the times another window is activated
  MaxWaiting,       \* bound on the messages waiting for a window
  MaxReplies        \* bound on the messages waiting for the input method

ASSUME SurfacesAssumption == None \notin Surfaces
ASSUME BoundsAssumption == {MaxCompositions, MaxSwitches, MaxWaiting, MaxReplies} \subseteq Nat

Compositions == 1..MaxCompositions
Contents == 0..MaxCompositions
Focus == Surfaces \cup {None}

VARIABLES
  active,     \* the window that is active for the user
  switches,   \* how often that has changed
  im,         \* the input method: the composition it is at and its phase and text
  inbox,      \* messages waiting for each window
  replies,    \* STOPPED messages waiting for the input method
  focus,      \* fKeyboardFocus
  global,     \* fString, fActive, fConfirmed and whether fImReplyMsgr is valid
  inputs,     \* fTextInputIfaces
  told,       \* each text input, for the client: the surface it is on, its preedit text
              \* and the texts committed to it
  late,       \* text inputs created while there was a keyboard focus, before the next
  current,    \* the composition of the last STARTED that was accepted
  astray,     \* compositions that a change of focus or a disable came across, or its late reply
  overtaken   \* an activation was handled before an older one

vars == <<active, switches, im, inbox, replies, focus, global, inputs, told, late, current,
          astray, overtaken>>
userVars == <<active, switches>>
clientVars == <<inputs, told, late>>
ghostVars == <<current, astray, overtaken>>

Messages == [kind : {"activated"}, on : BOOLEAN, turn : 1..MaxSwitches]
            \cup [kind : {"started"}, of : Compositions]
            \cup [kind : {"changed"}, of : Compositions, text : Contents, confirmed : BOOLEAN]
            \cup [kind : {"stopped"}, of : Compositions]

TypeOK == /\ active \in Focus
          /\ switches \in 0..MaxSwitches
          /\ im \in [at : Contents, phase : {"off", "composing", "confirmed"}, text : Contents]
          /\ inbox \in [Surfaces -> Seq(Messages)]
          /\ replies \in 0..MaxReplies
          /\ focus \in Focus
          /\ global \in [text : Contents, active : BOOLEAN, confirmed : BOOLEAN, reply : BOOLEAN]
          /\ inputs \subseteq Texts
          /\ told \in [Texts -> [on : Focus, preedit : Contents, committed : Seq(Compositions)]]
          /\ late \subseteq Texts
          /\ current \in Contents
          /\ astray \subseteq Compositions
          /\ overtaken \in BOOLEAN
          /\ ~ global.confirmed
          /\ global.active => global.reply

NoComposition == [text |-> 0, active |-> FALSE, confirmed |-> FALSE, reply |-> FALSE]
NewInput == [on |-> None, preedit |-> 0, committed |-> <<>>]

Init == /\ active = None
        /\ switches = 0
        /\ im = [at |-> 0, phase |-> "off", text |-> 0]
        /\ inbox = [s \in Surfaces |-> <<>>]
        /\ replies = 0
        /\ focus = None
        /\ global = NoComposition
        /\ inputs = {}
        /\ told = [t \in Texts |-> NewInput]
        /\ late = {}
        /\ current = 0
        /\ astray = {}
        /\ overtaken = FALSE

-----------------------------------------------------------------------------
(* The user and the input method.                                           *)

HasRoom(s) == Len(inbox[s]) < MaxWaiting

\* The user activates window w, or one of another program.
Activate(w) ==
  /\ w # active
  /\ switches < MaxSwitches
  /\ \A s \in {active, w} \ {None} : HasRoom(s)
  /\ active' = w
  /\ switches' = switches + 1
  /\ inbox' = [s \in Surfaces |->
       IF s \notin {active, w} THEN inbox[s]
       ELSE Append(inbox[s], [kind |-> "activated", on |-> s = w, turn |-> switches'])]
  /\ astray' = IF im.phase = "off" THEN astray ELSE astray \cup {im.at}
  /\ UNCHANGED <<im, replies, focus, global, clientVars, current, overtaken>>

\* A message goes to the active window; what goes to another program is of no interest.
Post(m) ==
  /\ active # None => HasRoom(active)
  /\ inbox' = [s \in Surfaces |-> IF s = active THEN Append(inbox[s], m) ELSE inbox[s]]

StartComposition ==
  /\ im.phase = "off"
  /\ im.at < MaxCompositions
  /\ im' = [at |-> im.at + 1, phase |-> "composing", text |-> 0]
  /\ Post([kind |-> "started", of |-> im'.at])
  /\ UNCHANGED <<userVars, replies, focus, global, clientVars, ghostVars>>

\* The text is edited, emptied or confirmed.
ChangeComposition(text, confirmed) ==
  /\ im.phase = "composing"
  /\ text \in {0, im.at}
  /\ IF confirmed THEN text # 0 ELSE text # im.text
  /\ im' = IF confirmed THEN [im EXCEPT !.phase = "confirmed", !.text = 0]
           ELSE [im EXCEPT !.text = text]
  /\ Post([kind |-> "changed", of |-> im.at, text |-> text, confirmed |-> confirmed])
  /\ UNCHANGED <<userVars, replies, focus, global, clientVars, ghostVars>>

\* A composition is over when its text was confirmed or emptied.
StopComposition ==
  /\ im.phase # "off"
  /\ im.text = 0
  /\ im' = [im EXCEPT !.phase = "off"]
  /\ Post([kind |-> "stopped", of |-> im.at])
  /\ UNCHANGED <<userVars, replies, focus, global, clientVars, ghostVars>>

\* The input method is told to stop: it drops the composition, or ends it in its own time.
\* What it drops may be a later composition than the one it was told to stop.
HandleReply(drops) ==
  /\ replies > 0
  /\ replies' = replies - 1
  /\ IF drops /\ im.phase # "off"
     THEN /\ im' = [im EXCEPT !.phase = "off", !.text = 0]
          /\ astray' = astray \cup {im.at}
     ELSE UNCHANGED <<im, astray>>
  /\ UNCHANGED <<userVars, inbox, focus, global, clientVars, current, overtaken>>

-----------------------------------------------------------------------------
(* Events to the client.                                                    *)

\* Fault: the text is kept for the next composition.
ClearMarks(g) == [NoComposition EXCEPT !.text = g.text]

Clear(g) == NoComposition

\* SendState: what the client has on receipt of done.
SendState(g, t) ==
  [told[t] EXCEPT !.preedit = IF g.active /\ ~ g.confirmed THEN g.text ELSE 0,
                  !.committed = IF g.active /\ g.confirmed THEN Append(@, g.text) ELSE @]

SendStateToAll(g) == told' = [t \in Texts |-> IF t \in inputs THEN SendState(g, t) ELSE told[t]]

-----------------------------------------------------------------------------
(* Messages to a window.                                                    *)

\* Enter and Leave: every text input is told.
Tell(s) == told' = [t \in Texts |-> IF t \in inputs THEN [told[t] EXCEPT !.on = s] ELSE told[t]]

\* Fault: a window keeps the focus until another takes it.
SetKeyboardFocusKeeping(s, setFocus) ==
  IF setFocus THEN focus' = s /\ Tell(s) /\ late' = {}
  ELSE UNCHANGED <<focus, told, late>>

\* Fault: the text inputs are told only of the focus they lose.
SetKeyboardFocusUntold(s, setFocus) ==
  IF setFocus /\ focus # s THEN focus' = s /\ UNCHANGED <<told, late>>
  ELSE IF ~ setFocus /\ focus = s THEN focus' = None /\ Tell(None) /\ late' = {}
  ELSE UNCHANGED <<focus, told, late>>

\* SetKeyboardFocus(surface, setFocus).
SetKeyboardFocus(s, setFocus) ==
  IF setFocus /\ focus # s THEN focus' = s /\ Tell(s) /\ late' = {}
  ELSE IF ~ setFocus /\ focus = s THEN focus' = None /\ Tell(None) /\ late' = {}
  ELSE UNCHANGED <<focus, told, late>>

First(s) == Head(inbox[s])
Taken(s) == inbox[s] # <<>> /\ inbox' = [inbox EXCEPT ![s] = Tail(@)]

\* An activation older than m waits for another window.
Overtakes(s, m) == \E w \in Surfaces \ {s} : \E i \in DOMAIN inbox[w] :
                     inbox[w][i].kind = "activated" /\ inbox[w][i].turn < m.turn

\* WaylandView::WindowActivated.
WindowActivated(s) ==
  /\ Taken(s)
  /\ First(s).kind = "activated"
  /\ SetKeyboardFocus(s, First(s).on)
  /\ overtaken' = (overtaken \/ Overtakes(s, First(s)))
  /\ astray' = IF global.active /\ focus' # focus THEN astray \cup {current} ELSE astray
  /\ UNCHANGED <<userVars, im, replies, global, inputs, current>>

\* HaikuTextInputGlobal::MessageReceived of an input method event m.

\* Fault: it does not matter who has the keyboard focus.
AcceptsAny(s) == TRUE

Accepts(s) == focus = s

\* It passes an event by when its surface has not the keyboard focus.
NotForFocus(s) ==
  /\ Taken(s)
  /\ First(s).kind # "activated"
  /\ ~ Accepts(s)
  /\ astray' = astray \cup {First(s).of}
  /\ UNCHANGED <<userVars, im, replies, focus, global, clientVars, current, overtaken>>

\* A composition whose message names nobody to reply to is not for the server.
Started(s, hasReply) ==
  /\ Taken(s)
  /\ First(s).kind = "started"
  /\ Accepts(s)
  /\ IF hasReply
     THEN /\ global' = [global EXCEPT !.active = TRUE, !.reply = TRUE]
          /\ current' = First(s).of
     ELSE global' = Clear(global) /\ UNCHANGED current
  /\ UNCHANGED <<userVars, im, replies, focus, clientVars, astray, overtaken>>

TakeText(m) ==
  LET g == [global EXCEPT !.text = m.text, !.confirmed = m.confirmed]
  IN SendStateToAll(g) /\ global' = IF m.confirmed THEN Clear(g) ELSE g

Changed(s) ==
  /\ Taken(s)
  /\ First(s).kind = "changed"
  /\ Accepts(s)
  /\ TakeText(First(s))
  /\ astray' = IF global.active THEN astray ELSE astray \cup {First(s).of}
  /\ UNCHANGED <<userVars, im, replies, focus, inputs, late, current, overtaken>>

Stopped(s) ==
  /\ Taken(s)
  /\ First(s).kind = "stopped"
  /\ Accepts(s)
  /\ SendStateToAll(global)
  /\ global' = Clear(global)
  /\ UNCHANGED <<userVars, im, replies, focus, inputs, late, ghostVars>>

-----------------------------------------------------------------------------
(* Requests of the client.                                                  *)

GetTextInput(t) ==
  /\ t \notin inputs
  /\ inputs' = inputs \cup {t}
  /\ told' = [told EXCEPT ![t] = NewInput]
  /\ late' = IF focus = None THEN late ELSE late \cup {t}
  /\ UNCHANGED <<userVars, im, inbox, replies, focus, global, ghostVars>>

DestroyTextInput(t) ==
  /\ t \in inputs
  /\ inputs' = inputs \ {t}
  /\ late' = late \ {t}
  /\ UNCHANGED <<userVars, im, inbox, replies, focus, global, told, ghostVars>>

\* A text input that is disabled ends the composition, whichever text input it is for.
HandleDisable(t) ==
  /\ t \in inputs
  /\ global.active
  /\ replies < MaxReplies
  /\ replies' = IF global.reply THEN replies + 1 ELSE replies
  /\ global' = Clear(global)
  /\ astray' = astray \cup {current}
  /\ UNCHANGED <<userVars, im, inbox, focus, clientVars, current, overtaken>>

HandleCommit(t) ==
  /\ t \in inputs
  /\ told' = [told EXCEPT ![t] = SendState(global, t)]
  /\ UNCHANGED <<userVars, im, inbox, replies, focus, global, inputs, late, ghostVars>>

-----------------------------------------------------------------------------
User == \E w \in Focus : Activate(w)

InputMethod ==
  \/ StartComposition
  \/ \E text \in Contents, confirmed \in BOOLEAN : ChangeComposition(text, confirmed)
  \/ StopComposition
  \/ \E drops \in BOOLEAN : HandleReply(drops)

WindowThread(s) == \/ WindowActivated(s) \/ NotForFocus(s)
                   \/ \E hasReply \in BOOLEAN : Started(s, hasReply)
                   \/ Changed(s) \/ Stopped(s)

Requests(t) == GetTextInput(t) \/ DestroyTextInput(t) \/ HandleDisable(t) \/ HandleCommit(t)

Next == User \/ InputMethod \/ (\E s \in Surfaces : WindowThread(s)) \/ (\E t \in Texts : Requests(t))

Spec == Init /\ [][Next]_vars

-----------------------------------------------------------------------------
(* Properties.                                                              *)

Quiet == \A s \in Surfaces : \A i \in DOMAIN inbox[s] : inbox[s][i].kind # "activated"

\* The keyboard focus follows the activation of windows on two threads: a surface that has
\* it is that of the active window, or has yet to handle that it is not; and unless one
\* window handled its activation before another an older one, the active window has it
\* once all is handled (HaikuSeat.cpp:347-380, HaikuCompositor.cpp:175-186).
FocusFollowsActivation ==
  /\ focus \in Surfaces \ {active} =>
       \E i \in DOMAIN inbox[focus] :
         inbox[focus][i].kind = "activated" /\ ~ inbox[focus][i].on
  /\ Quiet /\ ~ overtaken => focus = active

\* Every text input was last told of the focus there is, unless it was created after it
\* (HaikuTextInput.cpp:72-86).
InputsKnowFocus == \A t \in inputs \ late : told[t].on = focus

\* A text input is given each confirmed text once, and in the order in which the input
\* method confirmed them unless windows handled their activations out of order, though the
\* texts reach the server through several windows (HaikuTextInput.cpp:88-150, 247-253).
CommittedOnceInOrder ==
  \A t \in inputs : LET texts == told[t].committed IN
    \A i, j \in DOMAIN texts : i < j =>
      texts[i] # texts[j] /\ (texts[i] < texts[j] \/ overtaken)

\* While a text is composed, no text input shows the text of another composition, unless
\* the focus changed or a text input was disabled in the middle of that, or the input method
\* was told then of an earlier disable (HaikuTextInput.cpp:50-70, 101-150, 214-225).
PreeditIsCurrent ==
  global.active => \A t \in inputs : told[t].preedit \in {0, current} \cup astray
=============================================================================
