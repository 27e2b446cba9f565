--------------------------- MODULE TextInputProofs ---------------------------
(***************************************************************************)
(* What TextInput guarantees for any number of windows, text inputs and     *)
(* compositions, and any bounds.                                            *)
(***************************************************************************)
EXTENDS TextInput, TLAPS

Globals == [text : Contents, active : BOOLEAN, confirmed : BOOLEAN, reply : BOOLEAN]
Pictures == [on : Focus, preedit : Contents, committed : Seq(Compositions)]

\* The input method is at a composition when it is not idle, and confirms only its text; the
\* server takes a composition for active only after its STARTED.
CompositionsAreNamed ==
  /\ im.phase # "off" => im.at \in Compositions
  /\ global.active => current \in Compositions
  /\ \A s \in Surfaces : \A i \in DOMAIN inbox[s] :
       inbox[s][i].kind = "changed" /\ inbox[s][i].confirmed => inbox[s][i].text \in Compositions

IInv == TypeOK /\ CompositionsAreNamed /\ InputsKnowFocus

\* What the inboxes hold.
InboxOK ==
  /\ inbox \in [Surfaces -> Seq(Messages)]
  /\ \A s \in Surfaces : \A i \in DOMAIN inbox[s] :
       inbox[s][i].kind = "changed" /\ inbox[s][i].confirmed => inbox[s][i].text \in Compositions

-----------------------------------------------------------------------------
(* Messages.                                                                *)

LEMMA Bounds == {MaxCompositions, MaxSwitches, MaxWaiting, MaxReplies} \subseteq Nat
                  /\ Compositions \subseteq Contents /\ 0 \in Contents
                  /\ Contents = Compositions \cup {0}
  BY BoundsAssumption DEF Compositions, Contents

\* A message has the fields of its kind.
LEMMA MessageKinds ==
  ASSUME NEW m \in Messages
  PROVE  /\ m.kind \in {"activated", "started", "changed", "stopped"}
         /\ m.kind = "activated" => m.on \in BOOLEAN /\ m.turn \in 1..MaxSwitches
         /\ m.kind # "activated" => m.of \in Compositions
         /\ m.kind = "changed" => m.text \in Contents /\ m.confirmed \in BOOLEAN
<1>1. CASE m \in [kind : {"activated"}, on : BOOLEAN, turn : 1..MaxSwitches]
  BY <1>1
<1>2. CASE m \in [kind : {"started"}, of : Compositions]
  BY <1>2
<1>3. CASE m \in [kind : {"changed"}, of : Compositions, text : Contents, confirmed : BOOLEAN]
  BY <1>3
<1>4. CASE m \in [kind : {"stopped"}, of : Compositions]
  BY <1>4
<1> QED BY <1>1, <1>2, <1>3, <1>4 DEF Messages

\* A message put at the end of an inbox keeps what the inboxes hold.
LEMMA AppendInbox ==
  ASSUME IInv, NEW m \in Messages,
         m.kind = "changed" /\ m.confirmed => m.text \in Compositions,
         NEW s \in Surfaces
  PROVE  /\ Append(inbox[s], m) \in Seq(Messages)
         /\ \A i \in DOMAIN Append(inbox[s], m) :
              Append(inbox[s], m)[i].kind = "changed" /\ Append(inbox[s], m)[i].confirmed
                => Append(inbox[s], m)[i].text \in Compositions
<1> DEFINE q == inbox[s]
<1>1. q \in Seq(Messages)
  BY DEF IInv, TypeOK
<1>2. \A i \in DOMAIN q : q[i].kind = "changed" /\ q[i].confirmed => q[i].text \in Compositions
  BY DEF IInv, CompositionsAreNamed
<1> HIDE DEF q
<1>3. Append(q, m) \in Seq(Messages) /\ DOMAIN Append(q, m) = 1..(Len(q) + 1) /\ DOMAIN q = 1..Len(q)
  BY <1>1
<1>4. \A i \in 1..(Len(q) + 1) : Append(q, m)[i] = IF i <= Len(q) THEN q[i] ELSE m
  BY <1>1
<1>5. \A i \in DOMAIN Append(q, m) :
        Append(q, m)[i].kind = "changed" /\ Append(q, m)[i].confirmed => Append(q, m)[i].text \in Compositions
  BY <1>1, <1>2, <1>3, <1>4
<1> QED BY <1>3, <1>5 DEF q

LEMMA PostKeeps ==
  ASSUME IInv, NEW m \in Messages,
         m.kind = "changed" /\ m.confirmed => m.text \in Compositions,
         Post(m)
  PROVE  InboxOK'
<1>1. ASSUME NEW s \in Surfaces
      PROVE  /\ inbox'[s] \in Seq(Messages)
             /\ \A i \in DOMAIN inbox'[s] :
                  inbox'[s][i].kind = "changed" /\ inbox'[s][i].confirmed => inbox'[s][i].text \in Compositions
  <2>1. CASE s = active
    <3>1. inbox'[s] = Append(inbox[s], m)
      BY <2>1 DEF Post
    <3> QED BY <3>1, AppendInbox
  <2>2. CASE s # active
    <3>1. inbox'[s] = inbox[s]
      BY <2>2 DEF Post
    <3> QED BY <3>1 DEF IInv, TypeOK, CompositionsAreNamed
  <2> QED BY <2>1, <2>2
<1>2. inbox' = [s \in Surfaces |-> inbox'[s]]
  BY DEF Post
<1> QED BY <1>1, <1>2 DEF InboxOK

\* Taking the first message keeps what the inboxes hold.
LEMMA TakenKeeps ==
  ASSUME IInv, NEW s \in Surfaces, Taken(s)
  PROVE  InboxOK' /\ First(s) \in Messages
           /\ (First(s).kind = "changed" /\ First(s).confirmed => First(s).text \in Compositions)
<1> DEFINE q == inbox[s]
<1>1. q \in Seq(Messages) /\ q # <<>>
  BY DEF Taken, IInv, TypeOK
<1>2. \A i \in DOMAIN q : q[i].kind = "changed" /\ q[i].confirmed => q[i].text \in Compositions
  BY DEF IInv, CompositionsAreNamed
<1>3. inbox' = [inbox EXCEPT ![s] = Tail(q)] /\ inbox \in [Surfaces -> Seq(Messages)]
  BY DEF Taken, IInv, TypeOK
<1>4. \A w \in Surfaces \ {s} : \A i \in DOMAIN inbox[w] :
        inbox[w][i].kind = "changed" /\ inbox[w][i].confirmed => inbox[w][i].text \in Compositions
  BY DEF IInv, CompositionsAreNamed
<1>5. First(s) = Head(q)
  BY DEF First
<1> HIDE DEF q
<1>6. Head(q) = q[1] /\ 1 \in DOMAIN q /\ q[1] \in Messages
  BY <1>1
<1>7. Tail(q) \in Seq(Messages) /\ \A i \in DOMAIN Tail(q) : i + 1 \in DOMAIN q /\ Tail(q)[i] = q[i + 1]
  BY <1>1
<1>8. \A i \in DOMAIN Tail(q) :
        Tail(q)[i].kind = "changed" /\ Tail(q)[i].confirmed => Tail(q)[i].text \in Compositions
  BY <1>2, <1>7
<1>9. inbox' \in [Surfaces -> Seq(Messages)]
  BY <1>3, <1>7
<1>10. inbox'[s] = Tail(q) /\ \A w \in Surfaces \ {s} : inbox'[w] = inbox[w]
  BY <1>3
<1>11. InboxOK'
  BY <1>4, <1>8, <1>9, <1>10 DEF InboxOK
<1> QED BY <1>2, <1>5, <1>6, <1>11

-----------------------------------------------------------------------------
(* What a client is told.                                                   *)

LEMMA SendStateTypes ==
  ASSUME TypeOK, NEW g \in Globals, g.confirmed => g.text \in Compositions, NEW t \in Texts
  PROVE  SendState(g, t) \in Pictures /\ SendState(g, t).on = told[t].on
<1>1. told[t] \in Pictures
  BY DEF TypeOK, Pictures
<1>2. PICK preedit \in Contents, committed \in Seq(Compositions) :
        SendState(g, t) = [told[t] EXCEPT !.preedit = preedit, !.committed = committed]
  <2> DEFINE p == IF g.active /\ ~ g.confirmed THEN g.text ELSE 0
             c == IF g.active /\ g.confirmed THEN Append(told[t].committed, g.text)
                  ELSE told[t].committed
  <2>1. p \in Contents
    BY Bounds DEF Globals
  <2>2. c \in Seq(Compositions)
    <3>1. told[t].committed \in Seq(Compositions)
      BY <1>1 DEF Pictures
    <3> QED BY <3>1
  <2>3. SendState(g, t) = [told[t] EXCEPT !.preedit = p, !.committed = c]
    BY <1>1 DEF SendState, Pictures
  <2> QED BY <2>1, <2>2, <2>3
<1> QED BY <1>1, <1>2 DEF Pictures

LEMMA SendStateToAllTypes ==
  ASSUME TypeOK, NEW g \in Globals, g.confirmed => g.text \in Compositions, SendStateToAll(g)
  PROVE  told' \in [Texts -> Pictures] /\ \A t \in Texts : told'[t].on = told[t].on
<1>1. \A t \in Texts : told[t] \in Pictures
  BY DEF TypeOK, Pictures
<1>2. \A t \in Texts : SendState(g, t) \in Pictures /\ SendState(g, t).on = told[t].on
  BY SendStateTypes
<1> QED BY <1>1, <1>2 DEF SendStateToAll

LEMMA TellTypes ==
  ASSUME TypeOK, NEW s \in Focus, Tell(s)
  PROVE  told' \in [Texts -> Pictures] /\ \A t \in inputs : told'[t].on = s
<1>1. \A t \in Texts : told[t] \in Pictures
  BY DEF TypeOK, Pictures
<1>2. \A t \in Texts : [told[t] EXCEPT !.on = s] \in Pictures /\ [told[t] EXCEPT !.on = s].on = s
  BY <1>1 DEF Pictures
<1>3. inputs \subseteq Texts
  BY DEF TypeOK
<1> QED BY <1>1, <1>2, <1>3 DEF Tell

\* Whoever gets or loses the focus, every text input is told of it, the late ones too.
LEMMA SetKeyboardFocusKeeps ==
  ASSUME IInv, NEW s \in Surfaces, NEW setFocus \in BOOLEAN, SetKeyboardFocus(s, setFocus), UNCHANGED inputs
  PROVE  /\ focus' \in Focus /\ told' \in [Texts -> Pictures] /\ late' \subseteq Texts
         /\ InputsKnowFocus'
<1>1. TypeOK /\ InputsKnowFocus /\ s \in Focus /\ None \in Focus
  BY DEF IInv, Focus
<1>2. ASSUME NEW f \in Focus, focus' = f, Tell(f), late' = {}
      PROVE  focus' \in Focus /\ told' \in [Texts -> Pictures] /\ late' \subseteq Texts /\ InputsKnowFocus'
  BY <1>1, <1>2, TellTypes DEF InputsKnowFocus
<1>3. ASSUME UNCHANGED <<focus, told, late>>
      PROVE  focus' \in Focus /\ told' \in [Texts -> Pictures] /\ late' \subseteq Texts /\ InputsKnowFocus'
  BY <1>1, <1>3 DEF TypeOK, Pictures, InputsKnowFocus
<1> QED BY <1>1, <1>2, <1>3 DEF SetKeyboardFocus

-----------------------------------------------------------------------------
(* The user and the input method leave the server alone.                    *)

LEMMA InitIInv == Init => IInv
<1> SUFFICES ASSUME Init  PROVE IInv
  OBVIOUS
<1>1. inbox \in [Surfaces -> Seq(Messages)] /\ switches \in 0..MaxSwitches /\ replies \in 0..MaxReplies
  BY Bounds DEF Init
<1>2. told \in [Texts -> Pictures]
  BY Bounds DEF Init, NewInput, Pictures, Focus
<1>3. global \in Globals /\ im \in [at : Contents, phase : {"off", "composing", "confirmed"}, text : Contents]
  BY Bounds DEF Init, NoComposition, Globals
<1>4. TypeOK
  BY <1>1, <1>2, <1>3, Bounds DEF Init, TypeOK, Globals, Pictures, NoComposition, Focus
<1>5. CompositionsAreNamed /\ InputsKnowFocus
  BY DEF Init, CompositionsAreNamed, InputsKnowFocus, NoComposition
<1> QED BY <1>4, <1>5 DEF IInv

\* A step of theirs keeps the types of what it changes.
LEMMA OutsideKeeps ==
  ASSUME IInv, active' \in Focus, switches' \in 0..MaxSwitches, InboxOK', replies' \in 0..MaxReplies,
         im' \in [at : Contents, phase : {"off", "composing", "confirmed"}, text : Contents],
         im'.phase # "off" => im'.at \in Compositions,
         astray' \subseteq Compositions,
         UNCHANGED <<focus, global, clientVars, current, overtaken>>
  PROVE  IInv'
<1>1. TypeOK'
  BY DEF IInv, TypeOK, InboxOK, clientVars
<1>2. CompositionsAreNamed' /\ InputsKnowFocus'
  BY DEF IInv, CompositionsAreNamed, InputsKnowFocus, InboxOK, clientVars
<1> QED BY <1>1, <1>2 DEF IInv

LEMMA ActivateIInv == ASSUME IInv, NEW w \in Focus, Activate(w)  PROVE IInv'
<1>1. switches' \in 0..MaxSwitches /\ switches' \in 1..MaxSwitches
  BY Bounds DEF Activate, IInv, TypeOK
<1>2. ASSUME NEW s \in Surfaces
      PROVE  /\ inbox'[s] \in Seq(Messages)
             /\ \A i \in DOMAIN inbox'[s] :
                  inbox'[s][i].kind = "changed" /\ inbox'[s][i].confirmed => inbox'[s][i].text \in Compositions
  <2> DEFINE m == [kind |-> "activated", on |-> s = w, turn |-> switches']
  <2>1. m \in Messages /\ m.kind # "changed"
    BY <1>1 DEF Messages
  <2>2. inbox'[s] = inbox[s] \/ inbox'[s] = Append(inbox[s], m)
    BY DEF Activate
  <2> HIDE DEF m
  <2>3. CASE inbox'[s] = inbox[s]
    BY <2>3 DEF IInv, TypeOK, CompositionsAreNamed
  <2>4. CASE inbox'[s] = Append(inbox[s], m)
    BY <2>1, <2>4, AppendInbox
  <2> QED BY <2>2, <2>3, <2>4
<1>3. inbox' = [s \in Surfaces |-> inbox'[s]]
  BY DEF Activate
<1>4. InboxOK'
  BY <1>2, <1>3 DEF InboxOK
<1>5. astray' \subseteq Compositions
  BY DEF Activate, IInv, TypeOK, CompositionsAreNamed
<1> QED BY <1>1, <1>4, <1>5, OutsideKeeps DEF Activate, IInv, TypeOK, CompositionsAreNamed

LEMMA StartCompositionIInv == ASSUME IInv, StartComposition  PROVE IInv'
<1>1. /\ im' \in [at : Contents, phase : {"off", "composing", "confirmed"}, text : Contents]
      /\ im'.at \in Compositions
  BY Bounds DEF StartComposition, IInv, TypeOK, Compositions, Contents
<1> DEFINE m == [kind |-> "started", of |-> im'.at]
<1>2. m \in Messages /\ m.kind # "changed" /\ Post(m)
  BY <1>1 DEF StartComposition, Messages
<1> HIDE DEF m
<1>3. InboxOK'
  BY <1>2, PostKeeps
<1> QED BY <1>1, <1>3, OutsideKeeps DEF StartComposition, userVars, ghostVars, IInv, TypeOK

LEMMA ChangeCompositionIInv ==
  ASSUME IInv, NEW text \in Contents, NEW confirmed \in BOOLEAN, ChangeComposition(text, confirmed)
  PROVE  IInv'
<1>1. im.at \in Compositions /\ im.phase = "composing"
  BY DEF ChangeComposition, IInv, CompositionsAreNamed
<1>2. /\ im' \in [at : Contents, phase : {"off", "composing", "confirmed"}, text : Contents]
      /\ im'.at \in Compositions
  <2>1. im \in [at : Contents, phase : {"off", "composing", "confirmed"}, text : Contents] /\ 0 \in Contents
    BY Bounds DEF IInv, TypeOK
  <2> QED BY <1>1, <2>1 DEF ChangeComposition
<1> DEFINE m == [kind |-> "changed", of |-> im.at, text |-> text, confirmed |-> confirmed]
<1>3. m \in Messages /\ Post(m)
  BY <1>1 DEF ChangeComposition, Messages
<1>4. m.confirmed => m.text \in Compositions
  BY Bounds DEF ChangeComposition
<1> HIDE DEF m
<1>5. InboxOK'
  BY <1>3, <1>4, PostKeeps
<1> QED BY <1>2, <1>5, OutsideKeeps DEF ChangeComposition, userVars, ghostVars, IInv, TypeOK

LEMMA StopCompositionIInv == ASSUME IInv, StopComposition  PROVE IInv'
<1>1. im.at \in Compositions
  BY DEF StopComposition, IInv, CompositionsAreNamed
<1>2. /\ im' \in [at : Contents, phase : {"off", "composing", "confirmed"}, text : Contents]
      /\ im'.phase = "off"
  BY DEF StopComposition, IInv, TypeOK
<1> DEFINE m == [kind |-> "stopped", of |-> im.at]
<1>3. m \in Messages /\ m.kind # "changed" /\ Post(m)
  BY <1>1 DEF StopComposition, Messages
<1> HIDE DEF m
<1>4. InboxOK'
  BY <1>3, PostKeeps
<1> QED BY <1>2, <1>4, OutsideKeeps DEF StopComposition, userVars, ghostVars, IInv, TypeOK

LEMMA HandleReplyIInv == ASSUME IInv, NEW drops \in BOOLEAN, HandleReply(drops)  PROVE IInv'
<1>1. im' \in [at : Contents, phase : {"off", "composing", "confirmed"}, text : Contents]
        /\ (im'.phase # "off" => im'.at \in Compositions)
  BY Bounds DEF HandleReply, IInv, TypeOK, CompositionsAreNamed
<1>2. replies' \in 0..MaxReplies /\ astray' \subseteq Compositions
  BY Bounds DEF HandleReply, IInv, TypeOK, CompositionsAreNamed
<1>3. InboxOK'
  BY DEF HandleReply, IInv, TypeOK, CompositionsAreNamed, InboxOK
<1> QED BY <1>1, <1>2, <1>3, OutsideKeeps DEF HandleReply, userVars, IInv, TypeOK

-----------------------------------------------------------------------------
(* The windows.                                                             *)

\* A message of the input method is handled: the focus and the text inputs that are there
\* stay, and so does the surface they were told of.
LEMMA HandledKeeps ==
  ASSUME IInv, InboxOK', global' \in Globals, ~ global'.confirmed, global'.active => global'.reply,
         told' \in [Texts -> Pictures], \A t \in Texts : told'[t].on = told[t].on,
         current' \in Contents, global'.active => current' \in Compositions, astray' \subseteq Compositions,
         UNCHANGED <<userVars, im, replies, focus, inputs, late, overtaken>>
  PROVE  IInv'
<1>1. TypeOK'
  BY DEF IInv, TypeOK, InboxOK, Globals, Pictures, userVars
<1>2. CompositionsAreNamed'
  BY DEF IInv, CompositionsAreNamed, InboxOK
<1>3. InputsKnowFocus'
  BY DEF IInv, TypeOK, InputsKnowFocus
<1> QED BY <1>1, <1>2, <1>3 DEF IInv

LEMMA ClearTypes == NoComposition \in Globals /\ ~ NoComposition.confirmed /\ ~ NoComposition.active
  BY Bounds DEF NoComposition, Globals

LEMMA WindowActivatedIInv == ASSUME IInv, NEW s \in Surfaces, WindowActivated(s)  PROVE IInv'
<1>1. InboxOK' /\ First(s) \in Messages
  BY TakenKeeps DEF WindowActivated
<1>2. First(s).on \in BOOLEAN
  BY <1>1, MessageKinds DEF WindowActivated
<1>3. focus' \in Focus /\ told' \in [Texts -> Pictures] /\ late' \subseteq Texts /\ InputsKnowFocus'
  BY <1>2, SetKeyboardFocusKeeps DEF WindowActivated
<1>4. overtaken' \in BOOLEAN
  BY DEF WindowActivated, Overtakes, IInv, TypeOK
<1>5. astray' \subseteq Compositions
  BY DEF WindowActivated, IInv, TypeOK, CompositionsAreNamed
<1>6. TypeOK'
  BY <1>1, <1>3, <1>4, <1>5 DEF WindowActivated, IInv, TypeOK, InboxOK, Pictures, userVars
<1>7. CompositionsAreNamed'
  BY <1>1 DEF WindowActivated, IInv, CompositionsAreNamed, InboxOK
<1> QED BY <1>3, <1>6, <1>7 DEF IInv

LEMMA NotForFocusIInv == ASSUME IInv, NEW s \in Surfaces, NotForFocus(s)  PROVE IInv'
<1>1. InboxOK' /\ First(s) \in Messages
  BY TakenKeeps DEF NotForFocus
<1>2. First(s).of \in Compositions
  BY <1>1, MessageKinds DEF NotForFocus
<1> QED BY <1>1, <1>2, HandledKeeps DEF NotForFocus, clientVars, IInv, TypeOK, Globals, Pictures, CompositionsAreNamed

LEMMA StartedIInv ==
  ASSUME IInv, NEW s \in Surfaces, NEW hasReply \in BOOLEAN, Started(s, hasReply)  PROVE IInv'
<1>1. InboxOK' /\ First(s) \in Messages
  BY TakenKeeps DEF Started
<1>2. First(s).of \in Compositions
  BY <1>1, MessageKinds DEF Started
<1>3. /\ global' \in Globals /\ ~ global'.confirmed /\ (global'.active => global'.reply)
      /\ current' \in Contents /\ (global'.active => current' \in Compositions)
  <2>1. CASE hasReply
    BY <1>2, <2>1, Bounds DEF Started, IInv, TypeOK, Globals
  <2>2. CASE ~ hasReply
    BY <2>2, ClearTypes DEF Started, Clear, IInv, TypeOK
  <2> QED BY <2>1, <2>2
<1> QED BY <1>1, <1>3, HandledKeeps DEF Started, clientVars, IInv, TypeOK, Pictures

LEMMA ChangedIInv == ASSUME IInv, NEW s \in Surfaces, Changed(s)  PROVE IInv'
<1> DEFINE m == First(s)
           g == [global EXCEPT !.text = m.text, !.confirmed = m.confirmed]
<1>1. InboxOK' /\ m \in Messages /\ (m.kind = "changed" /\ m.confirmed => m.text \in Compositions)
  BY TakenKeeps DEF Changed
<1>2. m.kind = "changed" /\ m.of \in Compositions /\ m.text \in Contents /\ m.confirmed \in BOOLEAN
  BY <1>1, MessageKinds DEF Changed
<1>3. SendStateToAll(g) /\ global' = IF m.confirmed THEN Clear(g) ELSE g
  BY DEF Changed, TakeText
<1> HIDE DEF m
<1>4. g \in Globals /\ (g.confirmed => g.text \in Compositions) /\ g.confirmed = m.confirmed
        /\ (g.active => g.reply) /\ g.active = global.active
  BY <1>1, <1>2 DEF IInv, TypeOK, Globals
<1> HIDE DEF g
<1>5. told' \in [Texts -> Pictures] /\ \A t \in Texts : told'[t].on = told[t].on
  BY <1>3, <1>4, SendStateToAllTypes DEF IInv
<1>6. global' \in Globals /\ ~ global'.confirmed /\ (global'.active => global'.reply)
        /\ (global'.active => global.active)
  BY <1>2, <1>3, <1>4, ClearTypes DEF Clear
<1>7. astray' \subseteq Compositions
  BY <1>2 DEF Changed, IInv, TypeOK, m
<1>8. current' \in Contents /\ (global'.active => current' \in Compositions)
  BY <1>6 DEF Changed, IInv, TypeOK, CompositionsAreNamed
<1> QED BY <1>1, <1>5, <1>6, <1>7, <1>8, HandledKeeps DEF Changed

LEMMA StoppedIInv == ASSUME IInv, NEW s \in Surfaces, Stopped(s)  PROVE IInv'
<1>1. InboxOK'
  BY TakenKeeps DEF Stopped
<1>2. global \in Globals /\ ~ global.confirmed
  BY DEF IInv, TypeOK, Globals
<1>3. told' \in [Texts -> Pictures] /\ \A t \in Texts : told'[t].on = told[t].on
  BY <1>2, SendStateToAllTypes DEF Stopped, IInv
<1> QED BY <1>1, <1>3, ClearTypes, HandledKeeps DEF Stopped, Clear, ghostVars, IInv, TypeOK

-----------------------------------------------------------------------------
(* Requests.                                                                *)

LEMMA GetTextInputIInv == ASSUME IInv, NEW t \in Texts, GetTextInput(t)  PROVE IInv'
<1>1. NewInput \in Pictures /\ NewInput.on = None
  BY Bounds DEF NewInput, Pictures, Focus
<1>2. told' \in [Texts -> Pictures] /\ told'[t] = NewInput /\ \A u \in Texts \ {t} : told'[u] = told[u]
  BY <1>1 DEF GetTextInput, IInv, TypeOK, Pictures
<1>3. TypeOK'
  BY <1>2 DEF GetTextInput, IInv, TypeOK, Pictures, userVars, ghostVars
<1>4. CompositionsAreNamed'
  BY DEF GetTextInput, IInv, CompositionsAreNamed, ghostVars
<1>5. InputsKnowFocus'
  BY <1>1, <1>2 DEF GetTextInput, IInv, TypeOK, InputsKnowFocus
<1> QED BY <1>3, <1>4, <1>5 DEF IInv

LEMMA DestroyTextInputIInv == ASSUME IInv, NEW t \in Texts, DestroyTextInput(t)  PROVE IInv'
<1>1. TypeOK'
  BY DEF DestroyTextInput, IInv, TypeOK, userVars, ghostVars
<1>2. CompositionsAreNamed' /\ InputsKnowFocus'
  BY DEF DestroyTextInput, IInv, CompositionsAreNamed, InputsKnowFocus, ghostVars
<1> QED BY <1>1, <1>2 DEF IInv

LEMMA HandleDisableIInv == ASSUME IInv, NEW t \in Texts, HandleDisable(t)  PROVE IInv'
<1>1. global' \in Globals /\ ~ global'.confirmed /\ ~ global'.active
  BY ClearTypes DEF HandleDisable, Clear
<1>2. astray' \subseteq Compositions /\ replies' \in 0..MaxReplies
  BY Bounds DEF HandleDisable, IInv, TypeOK, CompositionsAreNamed
<1>3. TypeOK'
  BY <1>1, <1>2 DEF HandleDisable, IInv, TypeOK, Globals, userVars, clientVars
<1>4. CompositionsAreNamed' /\ InputsKnowFocus'
  BY <1>1 DEF HandleDisable, IInv, CompositionsAreNamed, InputsKnowFocus, clientVars
<1> QED BY <1>3, <1>4 DEF IInv

LEMMA HandleCommitIInv == ASSUME IInv, NEW t \in Texts, HandleCommit(t)  PROVE IInv'
<1>1. global \in Globals /\ ~ global.confirmed
  BY DEF IInv, TypeOK, Globals
<1>2. SendState(global, t) \in Pictures /\ SendState(global, t).on = told[t].on
  BY <1>1, SendStateTypes DEF IInv
<1>3. told' \in [Texts -> Pictures] /\ \A u \in Texts : told'[u].on = told[u].on
  BY <1>2 DEF HandleCommit, IInv, TypeOK, Pictures
<1>4. InboxOK'
  BY DEF HandleCommit, IInv, TypeOK, CompositionsAreNamed, InboxOK
<1> QED BY <1>1, <1>3, <1>4, HandledKeeps DEF HandleCommit, ghostVars, IInv, TypeOK, CompositionsAreNamed

-----------------------------------------------------------------------------
LEMMA NextIInv == IInv /\ [Next]_vars => IInv'
<1> SUFFICES ASSUME IInv, [Next]_vars  PROVE IInv'
  OBVIOUS
<1>1. CASE UNCHANGED vars
  BY <1>1 DEF vars, userVars, clientVars, ghostVars, IInv, TypeOK, CompositionsAreNamed, InputsKnowFocus
<1>2. CASE User
  BY <1>2, ActivateIInv DEF User
<1>3. CASE InputMethod
  BY <1>3, StartCompositionIInv, ChangeCompositionIInv, StopCompositionIInv, HandleReplyIInv DEF InputMethod
<1>4. ASSUME NEW s \in Surfaces, WindowThread(s)  PROVE IInv'
  BY <1>4, WindowActivatedIInv, NotForFocusIInv, StartedIInv, ChangedIInv, StoppedIInv DEF WindowThread
<1>5. ASSUME NEW t \in Texts, Requests(t)  PROVE IInv'
  BY <1>5, GetTextInputIInv, DestroyTextInputIInv, HandleDisableIInv, HandleCommitIInv DEF Requests
<1> QED BY <1>1, <1>2, <1>3, <1>4, <1>5 DEF Next

\* The inductive invariant: what the messages, the composition and the text inputs say of
\* each other, for any windows, text inputs and compositions.
THEOREM Invariance == Spec => []IInv
<1>1. Init => IInv
  BY InitIInv
<1>2. IInv /\ [Next]_vars => IInv'
  BY NextIInv
<1> QED BY <1>1, <1>2, PTL DEF Spec

\* TypeOK holds: a composition is active only while its input method can be replied to, and
\* fConfirmed never outlasts the message that set it.
THEOREM TypeCorrect == Spec => []TypeOK
<1>1. IInv => TypeOK
  BY DEF IInv
<1> QED BY <1>1, Invariance, PTL

\* Every text input was last told of the focus there is, unless it was created after it
\* (HaikuTextInput.cpp:72-86), for any windows and text inputs.
THEOREM InputsKnowFocusCorrect == Spec => []InputsKnowFocus
<1>1. IInv => InputsKnowFocus
  BY DEF IInv
<1> QED BY <1>1, Invariance, PTL

-----------------------------------------------------------------------------
(* The messages that wait and the texts: the inductive invariant of the     *)
(* focus, of the confirmed texts and of the texts that are shown.           *)

Confirmed(m) == m.kind = "changed" /\ m.confirmed
Activation(m) == m.kind = "activated"
Begins(m) == m.kind \in {"activated", "started"}

\* The positions of the messages that wait for s.
Waiting(s) == DOMAIN inbox[s]

-----------------------------------------------------------------------------
(* The focus.                                                               *)

\* The activations that wait for a window are in their order, and tell the truth about now.
TurnsInOrder == \A s \in Surfaces : \A i \in Waiting(s) :
  Activation(inbox[s][i]) =>
    /\ inbox[s][i].turn <= switches
    /\ inbox[s][i].turn = switches => (inbox[s][i].on <=> s = active)
    /\ \A j \in Waiting(s) : i < j /\ Activation(inbox[s][j]) => inbox[s][i].turn < inbox[s][j].turn

\* The last activation that waits for a window is what it is now; if none waits, the window
\* has handled that it is not active.
LastWord == \A s \in Surfaces :
  \/ \E i \in Waiting(s) :
       /\ Activation(inbox[s][i]) /\ (inbox[s][i].on <=> s = active)
       /\ \A j \in Waiting(s) : i < j => ~ Activation(inbox[s][j])
  \/ /\ \A i \in Waiting(s) : ~ Activation(inbox[s][i])
     /\ focus = s => active = s

\* Where no window overtook another, the active window has the focus or waits for it, and
\* when it has it all that waits is that others lost it.
ActiveGetsFocus == ~ overtaken /\ active \in Surfaces =>
  \/ \E i \in Waiting(active) : Activation(inbox[active][i]) /\ inbox[active][i].turn = switches
  \/ /\ focus = active
     /\ \A s \in Surfaces : \A i \in Waiting(s) : Activation(inbox[s][i]) => s # active /\ ~ inbox[s][i].on

FocusInv == TurnsInOrder /\ LastWord /\ ActiveGetsFocus

-----------------------------------------------------------------------------
(* Confirmed texts.                                                         *)

\* A text is confirmed once: it waits in one place, or has been committed.
ConfirmedOnce ==
  /\ \A s \in Surfaces : \A i \in Waiting(s) : Confirmed(inbox[s][i]) =>
       LET k == inbox[s][i].text IN
         /\ k <= im.at /\ (im.phase = "composing" => k # im.at)
         /\ \A j \in Waiting(s) : i < j /\ Confirmed(inbox[s][j]) => k < inbox[s][j].text
         /\ \A w \in Surfaces \ {s} : \A j \in Waiting(w) : Confirmed(inbox[w][j]) => k # inbox[w][j].text
         /\ \A t \in Texts : \A n \in DOMAIN told[t].committed : k # told[t].committed[n]
  /\ \A t \in Texts : \A n \in DOMAIN told[t].committed :
       LET k == told[t].committed[n] IN k <= im.at /\ (im.phase = "composing" => k # im.at)

\* A window that has yet to take the focus before it comes to an earlier text has been overtaken
\* if it does so after a later text of another window: there an activation comes first that
\* is later still.
LaterTextsWait == ~ overtaken =>
  \A s, w \in Surfaces : \A i, j \in Waiting(s) : \A n \in Waiting(w) :
    /\ s # w
    /\ Confirmed(inbox[s][i]) /\ Confirmed(inbox[w][n]) /\ inbox[s][i].text < inbox[w][n].text
    /\ j < i /\ Activation(inbox[s][j]) /\ inbox[s][j].on
    => \E m \in Waiting(w) : m < n /\ Activation(inbox[w][m]) /\ inbox[w][m].turn > inbox[s][j].turn

\* A text that a later one has passed will not be accepted any more.
PassedByForGood == ~ overtaken =>
  \A s \in Surfaces : \A i \in Waiting(s) : \A t \in Texts : \A n \in DOMAIN told[t].committed :
    Confirmed(inbox[s][i]) /\ inbox[s][i].text < told[t].committed[n] =>
      /\ focus # s
      /\ \A j \in Waiting(s) : j < i /\ Activation(inbox[s][j]) => ~ inbox[s][j].on

CommittedInv == ConfirmedOnce /\ LaterTextsWait /\ PassedByForGood /\ CommittedOnceInOrder

-----------------------------------------------------------------------------
(* Texts that are shown while they are composed.                            *)

\* Among the first n messages of q a composition is started last: k, or none is.
StartedLast(q, n, k) == \E i \in 1..n : /\ q[i].kind = "started" /\ q[i].of = k
                                        /\ \A j \in (i + 1)..n : ~ Begins(q[j])
NoneBegins(q, n) == \A i \in 1..n : ~ Begins(q[i])

\* A message of composition k that comes at position n + 1 of the inbox of s follows the start of k,
\* or that has been handled, and if it was accepted k is the current composition.
FollowsStart(s, n, k) ==
  \/ StartedLast(inbox[s], n, k)
  \/ NoneBegins(inbox[s], n) /\ (focus = s /\ global.active => current = k)

\* A STOPPED that comes there follows the emptied or the confirmed text.
Empties(m) == \/ m.kind = "started"
              \/ m.kind = "changed" /\ (m.confirmed \/ m.text = 0)
FollowsEmpty(s, n) ==
  IF n = 0 THEN focus = s /\ global.active => global.text \in {0} \cup astray
  ELSE Empties(inbox[s][n])

Composing == im.phase # "off" /\ im.at \notin astray /\ active \in Surfaces

\* The messages of a composition that nothing came across are together in one inbox.
BlocksBegin ==
  /\ \A s \in Surfaces : \A i \in Waiting(s) :
       LET m == inbox[s][i] IN
         /\ m.kind \in {"changed", "stopped"} /\ m.of \notin astray => FollowsStart(s, i - 1, m.of)
         /\ m.kind = "stopped" /\ m.of \notin astray => FollowsEmpty(s, i - 1)
         /\ m.kind = "changed" => m.text \in {0, m.of}
  /\ Composing => FollowsStart(active, Len(inbox[active]), im.at)
  /\ Composing /\ im.text = 0 => FollowsEmpty(active, Len(inbox[active]))

InBlock(m, k) == m.kind \in {"changed", "stopped"} /\ m.of = k

\* From position n of q on there are only messages of k, or only such up to the end of k.
OnlyOf(q, n, k) == \A i \in DOMAIN q : n <= i => InBlock(q[i], k)
EndsWith(q, n, k) == \E j \in DOMAIN q : /\ n <= j /\ q[j].kind = "stopped" /\ q[j].of = k
                                         /\ \A i \in n..j : InBlock(q[i], k)

\* What waits for s from position n on are messages of k, up to its end, which has yet to come or
\* waits too.
BlockFrom(s, n, k) ==
  \/ im.phase # "off" /\ im.at = k /\ active = s /\ OnlyOf(inbox[s], n, k)
  \/ EndsWith(inbox[s], n, k)

BlocksEnd ==
  /\ \A s \in Surfaces : \A i \in Waiting(s) :
       inbox[s][i].kind = "started" /\ inbox[s][i].of \notin astray => BlockFrom(s, i + 1, inbox[s][i].of)
  /\ global.active /\ current \notin astray => focus \in Surfaces /\ BlockFrom(focus, 1, current)

\* What the text inputs show, and what the server would show them.
ShownIsCurrent ==
  LET shown == {0} \cup astray \cup (IF global.active THEN {current} ELSE {})
  IN global.text \in shown /\ \A t \in inputs : told[t].preedit \in shown

PreeditInv == BlocksBegin /\ BlocksEnd /\ ShownIsCurrent

-----------------------------------------------------------------------------
(* Positions in the inboxes.                                                *)

LEMMA WaitingTypes ==
  ASSUME IInv, NEW s \in Surfaces
  PROVE  /\ Len(inbox[s]) \in Nat /\ Waiting(s) = 1..Len(inbox[s])
         /\ \A i \in Waiting(s) : i \in Nat /\ inbox[s][i] \in Messages
<1>1. inbox[s] \in Seq(Messages)
  BY DEF IInv, TypeOK
<1> QED BY <1>1 DEF Waiting

\* A message that is posted comes last in the inbox of the active window.
LEMMA PostedLast ==
  ASSUME IInv, NEW m \in Messages, Post(m), NEW s \in Surfaces
  PROVE  /\ Waiting(s)' = IF s = active THEN Waiting(s) \cup {Len(inbox[s]) + 1} ELSE Waiting(s)
         /\ Len(inbox[s])' = IF s = active THEN Len(inbox[s]) + 1 ELSE Len(inbox[s])
         /\ \A i \in Waiting(s) : inbox'[s][i] = inbox[s][i] /\ i < Len(inbox[s]) + 1
         /\ s = active => inbox'[s][Len(inbox[s]) + 1] = m
<1>1. inbox[s] \in Seq(Messages)
  BY DEF IInv, TypeOK
<1>2. inbox'[s] = IF s = active THEN Append(inbox[s], m) ELSE inbox[s]
  BY DEF Post
<1> DEFINE q == inbox[s]
<1> HIDE DEF q
<1>3. /\ DOMAIN Append(q, m) = DOMAIN q \cup {Len(q) + 1} /\ Len(Append(q, m)) = Len(q) + 1
      /\ \A i \in DOMAIN q : Append(q, m)[i] = q[i] /\ i < Len(q) + 1
      /\ Append(q, m)[Len(q) + 1] = m
  BY <1>1 DEF q
<1> QED BY <1>2, <1>3 DEF q, Waiting

\* The others move up when the first message is taken.
LEMMA TakenFirst ==
  ASSUME IInv, NEW s \in Surfaces, Taken(s)
  PROVE  /\ 1 \in Waiting(s) /\ First(s) = inbox[s][1] /\ First(s) \in Messages
         /\ \A i \in Waiting(s)' : i + 1 \in Waiting(s) /\ i \in Nat /\ 1 <= i /\ inbox'[s][i] = inbox[s][i + 1]
         /\ \A i \in Waiting(s) : i # 1 => i - 1 \in Waiting(s)'
         /\ Len(inbox[s])' = Len(inbox[s]) - 1
         /\ \A w \in Surfaces \ {s} : inbox'[w] = inbox[w] /\ Waiting(w)' = Waiting(w)
<1>1. inbox[s] \in Seq(Messages) /\ inbox[s] # <<>>
  BY DEF IInv, TypeOK, Taken
<1>2. inbox' = [inbox EXCEPT ![s] = Tail(inbox[s])] /\ s \in DOMAIN inbox
  BY DEF IInv, TypeOK, Taken
<1>3. inbox'[s] = Tail(inbox[s]) /\ \A w \in Surfaces \ {s} : inbox'[w] = inbox[w]
  BY <1>2
<1> DEFINE q == inbox[s]
<1> HIDE DEF q
<1>4. /\ 1 \in DOMAIN q /\ Head(q) = q[1] /\ q[1] \in Messages /\ Len(Tail(q)) = Len(q) - 1
      /\ \A i \in DOMAIN Tail(q) : i + 1 \in DOMAIN q /\ i \in Nat /\ 1 <= i /\ Tail(q)[i] = q[i + 1]
      /\ \A i \in DOMAIN q : i # 1 => i - 1 \in DOMAIN Tail(q)
  BY <1>1 DEF q
<1> QED BY <1>3, <1>4 DEF q, Waiting, First

-----------------------------------------------------------------------------
(* The focus follows the activation of windows.                             *)

\* Another message is posted.
LEMMA PostFocus ==
  ASSUME IInv, FocusInv, NEW m \in Messages, Post(m), ~ Activation(m),
         UNCHANGED <<active, switches, focus, overtaken>>
  PROVE  FocusInv'
<1>1. \A s \in Surfaces :
        /\ \A i \in Waiting(s) : i \in Waiting(s)' /\ inbox'[s][i] = inbox[s][i]
        /\ \A i \in Waiting(s)' : Activation(inbox'[s][i]) => i \in Waiting(s) /\ inbox'[s][i] = inbox[s][i]
  BY PostedLast
<1>2. TurnsInOrder'
  BY <1>1 DEF FocusInv, TurnsInOrder
<1>3. LastWord'
  BY <1>1 DEF FocusInv, LastWord
<1>4. ActiveGetsFocus'
  BY <1>1 DEF FocusInv, ActiveGetsFocus
<1> QED BY <1>2, <1>3, <1>4 DEF FocusInv

\* The order of the activations stays when a message is taken.
LEMMA TakenTurns ==
  ASSUME IInv, TurnsInOrder, NEW s \in Surfaces, Taken(s), UNCHANGED <<active, switches>>
  PROVE  TurnsInOrder'
<1>1. ASSUME NEW w \in Surfaces, NEW i \in Waiting(w)', Activation(inbox'[w][i])
      PROVE  /\ inbox'[w][i].turn <= switches
             /\ inbox'[w][i].turn = switches => (inbox'[w][i].on <=> w = active)
             /\ \A j \in Waiting(w)' : i < j /\ Activation(inbox'[w][j]) => inbox'[w][i].turn < inbox'[w][j].turn
  <2>1. CASE w = s
    <3>1. i + 1 \in Waiting(s) /\ inbox'[s][i] = inbox[s][i + 1] /\ i \in Nat
      BY <2>1, TakenFirst
    <3>2. \A j \in Waiting(s)' : j + 1 \in Waiting(s) /\ inbox'[s][j] = inbox[s][j + 1] /\ j \in Nat
      BY TakenFirst
    <3> QED BY <1>1, <2>1, <3>1, <3>2 DEF TurnsInOrder
  <2>2. CASE w # s
    BY <1>1, <2>2, TakenFirst DEF TurnsInOrder
  <2> QED BY <2>1, <2>2
<1> QED BY <1>1 DEF TurnsInOrder

\* Another message is taken.
LEMMA TakenFocus ==
  ASSUME IInv, FocusInv, NEW s \in Surfaces, Taken(s), ~ Activation(First(s)),
         UNCHANGED <<active, switches, focus, overtaken>>
  PROVE  FocusInv'
<1>1. TurnsInOrder'
  BY TakenTurns DEF FocusInv
<1>2. LastWord'
  <2>1. ASSUME NEW w \in Surfaces \ {s}
        PROVE  \/ \E i \in Waiting(w)' :
                    /\ Activation(inbox'[w][i]) /\ (inbox'[w][i].on <=> w = active)
                    /\ \A j \in Waiting(w)' : i < j => ~ Activation(inbox'[w][j])
               \/ /\ \A i \in Waiting(w)' : ~ Activation(inbox'[w][i])
                  /\ focus = w => active = w
    BY <2>1, TakenFirst DEF FocusInv, LastWord
  <2>2. CASE \E i \in Waiting(s) :
               /\ Activation(inbox[s][i]) /\ (inbox[s][i].on <=> s = active)
               /\ \A j \in Waiting(s) : i < j => ~ Activation(inbox[s][j])
    <3>1. PICK i \in Waiting(s) :
               /\ Activation(inbox[s][i]) /\ (inbox[s][i].on <=> s = active)
               /\ \A j \in Waiting(s) : i < j => ~ Activation(inbox[s][j])
      BY <2>2
    <3>2. i # 1 /\ i \in Nat
      BY <3>1, TakenFirst, WaitingTypes
    <3>3. i - 1 \in Waiting(s)' /\ inbox'[s][i - 1] = inbox[s][i]
      BY <3>2, TakenFirst
    <3>4. \A j \in Waiting(s)' : i - 1 < j => ~ Activation(inbox'[s][j])
      BY <3>1, <3>2, TakenFirst
    <3>5. \E n \in Waiting(s)' :
                    /\ Activation(inbox'[s][n]) /\ (inbox'[s][n].on <=> s = active)
                    /\ \A j \in Waiting(s)' : n < j => ~ Activation(inbox'[s][j])
      BY <3>1, <3>3, <3>4
    <3> QED BY <2>1, <3>5 DEF LastWord
  <2>3. CASE \A i \in Waiting(s) : ~ Activation(inbox[s][i])
    <3>1. \A i \in Waiting(s)' : ~ Activation(inbox'[s][i])
      BY <2>3, TakenFirst
    <3>2. focus = s => active = s
      BY <2>3 DEF FocusInv, LastWord
    <3> QED BY <2>1, <3>1, <3>2 DEF LastWord
  <2> QED BY <2>2, <2>3 DEF FocusInv, LastWord
<1>3. ActiveGetsFocus'
  <2> SUFFICES ASSUME ~ overtaken, active \in Surfaces
               PROVE  \/ \E i \in Waiting(active)' : Activation(inbox'[active][i]) /\ inbox'[active][i].turn = switches
                      \/ /\ focus = active
                         /\ \A w \in Surfaces : \A i \in Waiting(w)' :
                              Activation(inbox'[w][i]) => w # active /\ ~ inbox'[w][i].on
    BY DEF ActiveGetsFocus
  <2>1. CASE \E i \in Waiting(active) : Activation(inbox[active][i]) /\ inbox[active][i].turn = switches
    <3>1. PICK i \in Waiting(active) : Activation(inbox[active][i]) /\ inbox[active][i].turn = switches
      BY <2>1
    <3>2. CASE active = s
      <4>1. i # 1 /\ i \in Nat
        BY <3>1, <3>2, TakenFirst, WaitingTypes
      <4>2. i - 1 \in Waiting(s)' /\ inbox'[s][i - 1] = inbox[s][i]
        BY <4>1, <3>2, TakenFirst
      <4> QED BY <3>1, <3>2, <4>2
    <3>3. CASE active # s
      BY <3>1, <3>3, TakenFirst
    <3> QED BY <3>2, <3>3
  <2>2. CASE /\ focus = active
             /\ \A w \in Surfaces : \A i \in Waiting(w) :
                  Activation(inbox[w][i]) => w # active /\ ~ inbox[w][i].on
    <3>1. ASSUME NEW w \in Surfaces, NEW i \in Waiting(w)', Activation(inbox'[w][i])
          PROVE  w # active /\ ~ inbox'[w][i].on
      BY <2>2, <3>1, TakenFirst
    <3> QED BY <2>2, <3>1
  <2> QED BY <2>1, <2>2 DEF FocusInv, ActiveGetsFocus
<1> QED BY <1>1, <1>2, <1>3 DEF FocusInv

\* The windows that are activated or deactivated are told of it last.
LEMMA ActivatedLast ==
  ASSUME IInv, NEW w \in Focus, Activate(w), NEW s \in Surfaces
  PROVE  /\ Waiting(s)' = IF s \in {active, w} THEN Waiting(s) \cup {Len(inbox[s]) + 1} ELSE Waiting(s)
         /\ \A i \in Waiting(s) : inbox'[s][i] = inbox[s][i] /\ i < Len(inbox[s]) + 1
         /\ s \in {active, w} =>
              inbox'[s][Len(inbox[s]) + 1] = [kind |-> "activated", on |-> s = w, turn |-> switches + 1]
<1>1. inbox[s] \in Seq(Messages)
  BY DEF IInv, TypeOK
<1>2. inbox'[s] = IF s \in {active, w} THEN Append(inbox[s], [kind |-> "activated", on |-> s = w, turn |-> switches + 1])
                  ELSE inbox[s]
  BY DEF Activate
<1> DEFINE q == inbox[s]
           m == [kind |-> "activated", on |-> s = w, turn |-> switches + 1]
<1> HIDE DEF q, m
<1>3. /\ DOMAIN Append(q, m) = DOMAIN q \cup {Len(q) + 1}
      /\ \A i \in DOMAIN q : Append(q, m)[i] = q[i] /\ i < Len(q) + 1
      /\ Append(q, m)[Len(q) + 1] = m
  BY <1>1 DEF q
<1> QED BY <1>2, <1>3 DEF q, m, Waiting

LEMMA ActivateFocus ==
  ASSUME IInv, FocusInv, NEW w \in Focus, Activate(w)
  PROVE  FocusInv'
<1> DEFINE last(s) == Len(inbox[s]) + 1
<1>1. switches \in Nat /\ switches' = switches + 1 /\ active' = w /\ w # active /\ None \notin Surfaces
        /\ focus' = focus /\ overtaken' = overtaken
  BY Bounds, SurfacesAssumption DEF Activate, IInv, TypeOK
<1>2. ASSUME NEW s \in Surfaces
      PROVE  /\ \A i \in Waiting(s) : i \in Waiting(s)' /\ inbox'[s][i] = inbox[s][i] /\ i < last(s) /\ i \in Nat
             /\ \A i \in Waiting(s)' : i \in Waiting(s) \/ (s \in {active, w} /\ i = last(s))
             /\ s \in {active, w} =>
                  /\ last(s) \in Waiting(s)' /\ last(s) \in Nat /\ Activation(inbox'[s][last(s)])
                  /\ inbox'[s][last(s)].on <=> s = w
                  /\ inbox'[s][last(s)].turn = switches + 1
  <2>1. /\ Waiting(s)' = IF s \in {active, w} THEN Waiting(s) \cup {last(s)} ELSE Waiting(s)
        /\ \A i \in Waiting(s) : inbox'[s][i] = inbox[s][i] /\ i < last(s)
        /\ s \in {active, w} =>
             inbox'[s][last(s)] = [kind |-> "activated", on |-> s = w, turn |-> switches + 1]
    BY ActivatedLast
  <2>2. last(s) \in Nat /\ \A i \in Waiting(s) : i \in Nat
    BY WaitingTypes
  <2>3. s \in {active, w} =>
          /\ Activation(inbox'[s][last(s)])
          /\ inbox'[s][last(s)].on <=> s = w
          /\ inbox'[s][last(s)].turn = switches + 1
    <3>1. [kind |-> "activated", on |-> s = w, turn |-> switches + 1].on <=> s = w
      OBVIOUS
    <3>2. s \in {active, w} => (inbox'[s][last(s)].on <=> s = w)
      BY <2>1, <3>1, Zenon
    <3>3. s \in {active, w} => Activation(inbox'[s][last(s)]) /\ inbox'[s][last(s)].turn = switches + 1
      BY <2>1 DEF Activation
    <3> QED BY <3>2, <3>3
  <2> HIDE DEF last
  <2> QED BY <2>1, <2>2, <2>3
<1> HIDE DEF last
<1>3. TurnsInOrder'
  <2>1. ASSUME NEW s \in Surfaces, NEW i \in Waiting(s)', Activation(inbox'[s][i])
        PROVE  /\ inbox'[s][i].turn <= switches + 1
               /\ inbox'[s][i].turn = switches + 1 => (inbox'[s][i].on <=> s = w)
               /\ \A j \in Waiting(s)' : i < j /\ Activation(inbox'[s][j]) => inbox'[s][i].turn < inbox'[s][j].turn
    <3>1. CASE i \in Waiting(s)
      <4>1. /\ inbox'[s][i] = inbox[s][i] /\ inbox[s][i].turn <= switches
            /\ \A j \in Waiting(s) : i < j /\ Activation(inbox[s][j]) => inbox[s][i].turn < inbox[s][j].turn
        BY <1>2, <2>1, <3>1 DEF FocusInv, TurnsInOrder
      <4>2. inbox[s][i].turn \in Nat
        BY <2>1, <3>1, <4>1, WaitingTypes, MessageKinds, Bounds DEF Activation
      <4> QED BY <1>1, <1>2, <4>1, <4>2
    <3>2. CASE i = last(s) /\ s \in {active, w}
      BY <1>1, <1>2, <3>2
    <3> QED BY <1>2, <3>1, <3>2
  <2> QED BY <1>1, <2>1 DEF TurnsInOrder
<1>4. LastWord'
  <2>1. ASSUME NEW s \in Surfaces
        PROVE  \/ \E i \in Waiting(s)' :
                    /\ Activation(inbox'[s][i]) /\ (inbox'[s][i].on <=> s = w)
                    /\ \A j \in Waiting(s)' : i < j => ~ Activation(inbox'[s][j])
               \/ /\ \A i \in Waiting(s)' : ~ Activation(inbox'[s][i])
                  /\ focus = s => w = s
    <3>1. CASE s \in {active, w}
      BY <1>2, <3>1
    <3>2. CASE s \notin {active, w}
      BY <1>2, <3>2 DEF FocusInv, LastWord
    <3> QED BY <3>1, <3>2
  <2> QED BY <1>1, <2>1 DEF LastWord
<1>5. ActiveGetsFocus'
  BY <1>1, <1>2 DEF ActiveGetsFocus
<1> QED BY <1>3, <1>4, <1>5 DEF FocusInv

\* What a window does to the focus when it handles its activation.
LEMMA FocusMoves ==
  ASSUME IInv, NEW s \in Surfaces, WindowActivated(s)
  PROVE  /\ Taken(s) /\ Activation(First(s)) /\ First(s).on \in BOOLEAN /\ First(s).turn \in Nat
         /\ First(s).on => focus' = s
         /\ ~ First(s).on => focus' = IF focus = s THEN None ELSE focus
         /\ None # s /\ UNCHANGED <<active, switches>>
         /\ ~ overtaken' => ~ overtaken /\ ~ Overtakes(s, First(s))
<1>1. First(s) \in Messages /\ First(s).kind = "activated"
  BY TakenKeeps DEF WindowActivated
<1>2. First(s).on \in BOOLEAN /\ First(s).turn \in Nat
  BY <1>1, MessageKinds, Bounds
<1> QED BY <1>1, <1>2, SurfacesAssumption DEF WindowActivated, SetKeyboardFocus, Activation, userVars

LEMMA WindowActivatedFocus ==
  ASSUME IInv, FocusInv, NEW s \in Surfaces, WindowActivated(s)
  PROVE  FocusInv'
<1> DEFINE m == First(s)
<1>1. /\ Taken(s) /\ Activation(m) /\ m.on \in BOOLEAN /\ m.turn \in Nat
      /\ m.on => focus' = s
      /\ ~ m.on => focus' = IF focus = s THEN None ELSE focus
      /\ None # s /\ UNCHANGED <<active, switches>>
      /\ ~ overtaken' => ~ overtaken /\ ~ Overtakes(s, m)
  BY FocusMoves
<1>2. /\ 1 \in Waiting(s) /\ m = inbox[s][1]
      /\ \A i \in Waiting(s)' : i + 1 \in Waiting(s) /\ i \in Nat /\ 1 <= i /\ inbox'[s][i] = inbox[s][i + 1]
      /\ \A i \in Waiting(s) : i # 1 => i - 1 \in Waiting(s)' /\ inbox'[s][i - 1] = inbox[s][i]
      /\ \A w \in Surfaces \ {s} : inbox'[w] = inbox[w] /\ Waiting(w)' = Waiting(w)
      /\ \A i \in Waiting(s) : i \in Nat /\ 1 <= i
  <2>1. \A i \in Waiting(s) : i \in Nat /\ 1 <= i
    BY WaitingTypes
  <2>2. /\ 1 \in Waiting(s) /\ m = inbox[s][1]
        /\ \A i \in Waiting(s)' : i + 1 \in Waiting(s) /\ i \in Nat /\ 1 <= i /\ inbox'[s][i] = inbox[s][i + 1]
        /\ \A i \in Waiting(s) : i # 1 => i - 1 \in Waiting(s)'
        /\ \A w \in Surfaces \ {s} : inbox'[w] = inbox[w] /\ Waiting(w)' = Waiting(w)
    BY <1>1, TakenFirst
  <2>3. ASSUME NEW i \in Waiting(s), i # 1  PROVE inbox'[s][i - 1] = inbox[s][i]
    <3>1. i - 1 \in Waiting(s)' /\ (i - 1) + 1 = i
      BY <2>1, <2>2, <2>3
    <3> QED BY <2>2, <3>1
  <2> QED BY <2>1, <2>2, <2>3
<1> HIDE DEF m
<1>3. TurnsInOrder'
  BY <1>1, TakenTurns DEF FocusInv
\* What is left for s is later than the activation it handles.
<1>4. ASSUME NEW i \in Waiting(s)', Activation(inbox'[s][i])
      PROVE  m.turn < inbox'[s][i].turn /\ inbox'[s][i].turn <= switches
  <2>1. i + 1 \in Waiting(s) /\ 1 < i + 1 /\ inbox'[s][i] = inbox[s][i + 1]
    BY <1>2
  <2>2. TurnsInOrder /\ Activation(inbox[s][1]) /\ 1 \in Waiting(s)
    BY <1>1, <1>2 DEF FocusInv
  <2> QED BY <1>2, <1>4, <2>1, <2>2 DEF TurnsInOrder
<1>5. LastWord'
  <2>1. ASSUME NEW w \in Surfaces \ {s}
        PROVE  \/ \E i \in Waiting(w)' :
                    /\ Activation(inbox'[w][i]) /\ (inbox'[w][i].on <=> w = active)
                    /\ \A j \in Waiting(w)' : i < j => ~ Activation(inbox'[w][j])
               \/ /\ \A i \in Waiting(w)' : ~ Activation(inbox'[w][i])
                  /\ focus' = w => active = w
    BY <1>1, <1>2, SurfacesAssumption DEF FocusInv, LastWord
  <2>2. \/ \E i \in Waiting(s)' :
             /\ Activation(inbox'[s][i]) /\ (inbox'[s][i].on <=> s = active)
             /\ \A j \in Waiting(s)' : i < j => ~ Activation(inbox'[s][j])
        \/ /\ \A i \in Waiting(s)' : ~ Activation(inbox'[s][i])
           /\ focus' = s => active = s
    <3>1. PICK i \in Waiting(s) :
            /\ Activation(inbox[s][i]) /\ (inbox[s][i].on <=> s = active)
            /\ \A j \in Waiting(s) : i < j => ~ Activation(inbox[s][j])
      BY <1>1, <1>2 DEF FocusInv, LastWord
    <3>2. CASE i = 1
      <4>1. ASSUME NEW j \in Waiting(s)'  PROVE ~ Activation(inbox'[s][j])
        <5>1. j + 1 \in Waiting(s) /\ 1 < j + 1 /\ inbox'[s][j] = inbox[s][j + 1]
          BY <1>2
        <5> QED BY <3>1, <3>2, <5>1
      <4>2. focus' = s => active = s
        BY <1>1, <1>2, <3>1, <3>2
      <4> QED BY <4>1, <4>2
    <3>3. CASE i # 1
      <4>1. i - 1 \in Waiting(s)' /\ inbox'[s][i - 1] = inbox[s][i]
        BY <1>2, <3>3
      <4>2. ASSUME NEW j \in Waiting(s)', i - 1 < j  PROVE ~ Activation(inbox'[s][j])
        BY <1>2, <3>1, <4>2
      <4> QED BY <3>1, <4>1, <4>2
    <3> QED BY <3>2, <3>3
  <2> QED BY <1>1, <2>1, <2>2 DEF LastWord
<1>6. ActiveGetsFocus'
  <2> SUFFICES ASSUME ~ overtaken', active \in Surfaces
               PROVE  \/ \E i \in Waiting(active)' : Activation(inbox'[active][i]) /\ inbox'[active][i].turn = switches
                      \/ /\ focus' = active
                         /\ \A w \in Surfaces : \A i \in Waiting(w)' :
                              Activation(inbox'[w][i]) => w # active /\ ~ inbox'[w][i].on
    BY <1>1 DEF ActiveGetsFocus
  <2>1. CASE \E i \in Waiting(active) : Activation(inbox[active][i]) /\ inbox[active][i].turn = switches
    <3>1. PICK i \in Waiting(active) : Activation(inbox[active][i]) /\ inbox[active][i].turn = switches
      BY <2>1
    <3>2. CASE active # s \/ i # 1
      <4>1. CASE active # s
        BY <1>1, <1>2, <3>1, <4>1
      <4>2. CASE active = s /\ i # 1
        <5>1. i - 1 \in Waiting(s)' /\ inbox'[s][i - 1] = inbox[s][i]
          BY <1>2, <3>1, <4>2
        <5> QED BY <1>1, <3>1, <4>2, <5>1
      <4> QED BY <3>2, <4>1, <4>2
    <3>3. CASE active = s /\ i = 1
      <4>1. m.turn = switches /\ m.on
        BY <1>1, <1>2, <3>1, <3>3 DEF FocusInv, TurnsInOrder
      <4>2. focus' = s
        BY <1>1, <4>1
      <4>3. \A j \in Waiting(s)' : ~ Activation(inbox'[s][j])
        <5>1. switches \in Nat
          BY Bounds DEF IInv, TypeOK
        <5>2. ASSUME NEW j \in Waiting(s)', Activation(inbox'[s][j])  PROVE FALSE
          <6>1. inbox'[s][j] = inbox[s][j + 1] /\ j + 1 \in Waiting(s)
            BY <1>2
          <6>2. inbox[s][j + 1].turn \in Nat
            BY <5>2, <6>1, WaitingTypes, MessageKinds, Bounds DEF Activation
          <6> QED BY <1>4, <4>1, <5>1, <5>2, <6>1, <6>2
        <5> QED BY <5>2
      <4>4. ASSUME NEW w \in Surfaces \ {s}, NEW j \in Waiting(w), Activation(inbox[w][j])
            PROVE  ~ inbox[w][j].on
        <5>1. inbox[w][j].turn \in Nat /\ switches \in Nat
          BY <4>4, WaitingTypes, MessageKinds, Bounds DEF Activation, IInv, TypeOK
        <5>2. ~ (inbox[w][j].turn < m.turn)
          BY <1>1, <4>4 DEF Overtakes, Waiting, Activation
        <5>3. inbox[w][j].turn <= switches
          BY <4>4 DEF FocusInv, TurnsInOrder
        <5>4. inbox[w][j].turn = switches
          BY <4>1, <5>1, <5>2, <5>3
        <5> QED BY <3>3, <4>4, <5>4 DEF FocusInv, TurnsInOrder
      <4> QED BY <1>2, <3>3, <4>2, <4>3, <4>4
    <3> QED BY <3>2, <3>3
  <2>2. CASE /\ focus = active
             /\ \A w \in Surfaces : \A i \in Waiting(w) :
                  Activation(inbox[w][i]) => w # active /\ ~ inbox[w][i].on
    <3>1. s # active /\ focus' = active
      BY <1>1, <1>2, <2>2
    <3>2. ASSUME NEW w \in Surfaces, NEW i \in Waiting(w)', Activation(inbox'[w][i])
          PROVE  w # active /\ ~ inbox'[w][i].on
      BY <1>2, <2>2, <3>2
    <3> QED BY <3>1, <3>2
  <2> QED BY <1>1, <2>1, <2>2 DEF FocusInv, ActiveGetsFocus
<1> QED BY <1>3, <1>5, <1>6 DEF FocusInv

\* Where neither the inboxes nor the focus change.
LEMMA KeptFocus ==
  ASSUME FocusInv, UNCHANGED <<active, switches, inbox, focus, overtaken>>
  PROVE  FocusInv'
  BY DEF FocusInv, TurnsInOrder, LastWord, ActiveGetsFocus, Waiting

LEMMA InitFocus == ASSUME Init  PROVE FocusInv
<1>1. ASSUME NEW s \in Surfaces  PROVE Waiting(s) = {} /\ None # s
  BY SurfacesAssumption DEF Init, Waiting
<1> QED BY <1>1, SurfacesAssumption DEF Init, FocusInv, TurnsInOrder, LastWord, ActiveGetsFocus

LEMMA FocusImplied == ASSUME IInv, FocusInv  PROVE FocusFollowsActivation
<1>1. ASSUME focus \in Surfaces \ {active}
      PROVE  \E i \in DOMAIN inbox[focus] : inbox[focus][i].kind = "activated" /\ ~ inbox[focus][i].on
  <2>1. \E i \in Waiting(focus) : Activation(inbox[focus][i]) /\ (inbox[focus][i].on <=> focus = active)
    BY <1>1 DEF FocusInv, LastWord
  <2> QED BY <1>1, <2>1 DEF Waiting, Activation
<1>2. ASSUME Quiet, ~ overtaken  PROVE focus = active
  <2>1. \A s \in Surfaces : \A i \in Waiting(s) : ~ Activation(inbox[s][i])
    BY <1>2 DEF Quiet, Waiting, Activation
  <2>2. focus \in Surfaces => active = focus
    BY <2>1 DEF FocusInv, LastWord
  <2>3. active \in Surfaces => focus = active
    BY <1>2, <2>1 DEF FocusInv, ActiveGetsFocus
  <2> QED BY <2>2, <2>3 DEF IInv, TypeOK, Focus
<1> QED BY <1>1, <1>2 DEF FocusFollowsActivation

LEMMA InputMethodFocus == ASSUME IInv, FocusInv, InputMethod  PROVE FocusInv'
<1>1. im \in [at : Contents, phase : {"off", "composing", "confirmed"}, text : Contents]
        /\ (im.phase # "off" => im.at \in Compositions)
  BY DEF IInv, TypeOK, CompositionsAreNamed
<1>2. CASE StartComposition
  <2> DEFINE m == [kind |-> "started", of |-> im'.at]
  <2>1. im'.at \in Compositions
    BY <1>1, <1>2, Bounds DEF StartComposition, Compositions, Contents
  <2>2. m \in Messages /\ ~ Activation(m) /\ Post(m)
    BY <1>2, <2>1 DEF StartComposition, Messages, Activation
  <2> HIDE DEF m
  <2> QED BY <1>2, <2>2, PostFocus DEF StartComposition, userVars, ghostVars
<1>3. ASSUME NEW text \in Contents, NEW confirmed \in BOOLEAN, ChangeComposition(text, confirmed)
      PROVE  FocusInv'
  <2> DEFINE m == [kind |-> "changed", of |-> im.at, text |-> text, confirmed |-> confirmed]
  <2>1. m \in Messages /\ ~ Activation(m) /\ Post(m)
    BY <1>1, <1>3 DEF ChangeComposition, Messages, Activation
  <2> HIDE DEF m
  <2> QED BY <1>3, <2>1, PostFocus DEF ChangeComposition, userVars, ghostVars
<1>4. CASE StopComposition
  <2> DEFINE m == [kind |-> "stopped", of |-> im.at]
  <2>1. m \in Messages /\ ~ Activation(m) /\ Post(m)
    BY <1>1, <1>4 DEF StopComposition, Messages, Activation
  <2> HIDE DEF m
  <2> QED BY <1>4, <2>1, PostFocus DEF StopComposition, userVars, ghostVars
<1>5. ASSUME NEW drops \in BOOLEAN, HandleReply(drops)  PROVE FocusInv'
  BY <1>5, KeptFocus DEF HandleReply, userVars
<1> QED BY <1>2, <1>3, <1>4, <1>5 DEF InputMethod

LEMMA WindowThreadFocus == ASSUME IInv, FocusInv, NEW s \in Surfaces, WindowThread(s)  PROVE FocusInv'
<1>1. CASE WindowActivated(s)
  BY <1>1, WindowActivatedFocus
<1>2. CASE ~ WindowActivated(s)
  <2>1. Taken(s) /\ ~ Activation(First(s)) /\ UNCHANGED <<active, switches, focus, overtaken>>
    BY <1>2 DEF WindowThread, NotForFocus, Started, Changed, Stopped, Activation, userVars, ghostVars
  <2> QED BY <2>1, TakenFocus
<1> QED BY <1>1, <1>2

-----------------------------------------------------------------------------
(* Confirmed texts are committed once and in order.                         *)

LEMMA ConfirmedTypes ==
  ASSUME IInv
  PROVE  /\ im.at \in Nat
         /\ \A s \in Surfaces : \A i \in Waiting(s) :
              /\ Confirmed(inbox[s][i]) => inbox[s][i].text \in Nat
              /\ Activation(inbox[s][i]) => inbox[s][i].turn \in Nat /\ inbox[s][i].on \in BOOLEAN
         /\ \A t \in Texts : /\ told[t].committed \in Seq(Compositions)
                             /\ \A n \in DOMAIN told[t].committed : told[t].committed[n] \in Nat
<1>1. Compositions \subseteq Nat /\ Contents \subseteq Nat
  BY Bounds DEF Compositions, Contents
<1>2. \A t \in Texts : told[t].committed \in Seq(Compositions)
  BY DEF IInv, TypeOK
<1>3. \A t \in Texts : \A n \in DOMAIN told[t].committed : told[t].committed[n] \in Compositions
  BY <1>2
<1>4. ASSUME NEW s \in Surfaces, NEW i \in Waiting(s), Activation(inbox[s][i])
      PROVE  inbox[s][i].turn \in Nat /\ inbox[s][i].on \in BOOLEAN
  BY <1>4, WaitingTypes, MessageKinds, Bounds DEF Activation
<1>5. ASSUME NEW s \in Surfaces, NEW i \in Waiting(s), Confirmed(inbox[s][i])
      PROVE  inbox[s][i].text \in Nat
  BY <1>1, <1>5 DEF IInv, CompositionsAreNamed, Confirmed, Waiting
<1> QED BY <1>1, <1>2, <1>3, <1>4, <1>5 DEF IInv, TypeOK

\* No confirmed text comes or goes, and nothing comes before one.
LEMMA SameCommitted ==
  ASSUME IInv, CommittedInv,
         \A s \in Surfaces : /\ \A i \in Waiting(s) : i \in Waiting(s)' /\ inbox'[s][i] = inbox[s][i]
                             /\ \A i, j \in Waiting(s)' : Confirmed(inbox'[s][i]) /\ j <= i => j \in Waiting(s)
                             /\ \A i \in Waiting(s)' : i \in Nat,
         \A t \in Texts : \/ told'[t].committed = told[t].committed /\ (t \in inputs' => t \in inputs)
                          \/ told'[t].committed = <<>>,
         im'.at \in Nat, im.at <= im'.at, im'.phase = "composing" => im.at < im'.at \/ im.phase = "composing",
         inputs' \subseteq Texts,
         UNCHANGED <<focus, overtaken>>
  PROVE  CommittedInv'
<1>1. ASSUME NEW s \in Surfaces, NEW i \in Waiting(s)', Confirmed(inbox'[s][i])
      PROVE  /\ i \in Waiting(s) /\ inbox'[s][i] = inbox[s][i] /\ Confirmed(inbox[s][i])
             /\ inbox[s][i].text \in Nat
             /\ \A j \in Waiting(s)' : j < i => j \in Waiting(s) /\ inbox'[s][j] = inbox[s][j]
  BY <1>1, ConfirmedTypes
<1>2. ASSUME NEW t \in Texts, NEW n \in DOMAIN told'[t].committed
      PROVE  /\ n \in DOMAIN told[t].committed /\ told'[t].committed = told[t].committed
             /\ told[t].committed[n] \in Nat
             /\ t \in inputs' => t \in inputs
  BY <1>2, ConfirmedTypes
<1>3. ASSUME NEW k \in Nat, k <= im.at, im.phase = "composing" => k # im.at
      PROVE  k <= im'.at /\ (im'.phase = "composing" => k # im'.at)
  BY <1>3, ConfirmedTypes
<1>4. ConfirmedOnce'
  <2>1. ASSUME NEW s \in Surfaces, NEW i \in Waiting(s)', Confirmed(inbox'[s][i])
        PROVE  LET k == inbox'[s][i].text IN
                 /\ k <= im'.at /\ (im'.phase = "composing" => k # im'.at)
                 /\ \A j \in Waiting(s)' : i < j /\ Confirmed(inbox'[s][j]) => k < inbox'[s][j].text
                 /\ \A w \in Surfaces \ {s} : \A j \in Waiting(w)' : Confirmed(inbox'[w][j]) => k # inbox'[w][j].text
                 /\ \A t \in Texts : \A n \in DOMAIN told'[t].committed : k # told'[t].committed[n]
    <3>1. /\ inbox[s][i].text <= im.at /\ (im.phase = "composing" => inbox[s][i].text # im.at)
          /\ \A j \in Waiting(s) : i < j /\ Confirmed(inbox[s][j]) => inbox[s][i].text < inbox[s][j].text
          /\ \A w \in Surfaces \ {s} : \A j \in Waiting(w) :
               Confirmed(inbox[w][j]) => inbox[s][i].text # inbox[w][j].text
          /\ \A t \in Texts : \A n \in DOMAIN told[t].committed : inbox[s][i].text # told[t].committed[n]
      BY <1>1, <2>1 DEF CommittedInv, ConfirmedOnce
    <3> QED BY <1>1, <1>2, <1>3, <2>1, <3>1
  <2>2. ASSUME NEW t \in Texts, NEW n \in DOMAIN told'[t].committed
        PROVE  LET k == told'[t].committed[n] IN k <= im'.at /\ (im'.phase = "composing" => k # im'.at)
    BY <1>2, <1>3 DEF CommittedInv, ConfirmedOnce
  <2> QED BY <2>1, <2>2 DEF ConfirmedOnce
<1>5. LaterTextsWait'
  <2>1. ASSUME ~ overtaken, NEW s \in Surfaces, NEW w \in Surfaces,
               NEW i \in Waiting(s)', NEW j \in Waiting(s)', NEW n \in Waiting(w)', s # w,
               Confirmed(inbox'[s][i]), Confirmed(inbox'[w][n]), inbox'[s][i].text < inbox'[w][n].text,
               j < i, Activation(inbox'[s][j]), inbox'[s][j].on
        PROVE  \E m \in Waiting(w)' : m < n /\ Activation(inbox'[w][m]) /\ inbox'[w][m].turn > inbox'[s][j].turn
    <3>1. /\ i \in Waiting(s) /\ inbox'[s][i] = inbox[s][i] /\ n \in Waiting(w) /\ inbox'[w][n] = inbox[w][n]
          /\ j \in Waiting(s) /\ inbox'[s][j] = inbox[s][j]
      BY <1>1, <2>1
    <3>2. PICK m \in Waiting(w) : m < n /\ Activation(inbox[w][m]) /\ inbox[w][m].turn > inbox[s][j].turn
      BY <2>1, <3>1 DEF CommittedInv, LaterTextsWait
    <3> QED BY <3>1, <3>2
  <2> QED BY <2>1 DEF LaterTextsWait
<1>6. PassedByForGood'
  <2>1. ASSUME ~ overtaken, NEW s \in Surfaces, NEW i \in Waiting(s)', NEW t \in Texts,
               NEW n \in DOMAIN told'[t].committed,
               Confirmed(inbox'[s][i]), inbox'[s][i].text < told'[t].committed[n]
        PROVE  /\ focus # s
               /\ \A j \in Waiting(s)' : j < i /\ Activation(inbox'[s][j]) => ~ inbox'[s][j].on
    BY <1>1, <1>2, <2>1 DEF CommittedInv, PassedByForGood
  <2> QED BY <2>1 DEF PassedByForGood
<1>7. CommittedOnceInOrder'
  BY <1>2 DEF CommittedInv, CommittedOnceInOrder
<1> QED BY <1>4, <1>5, <1>6, <1>7 DEF CommittedInv

\* A text is confirmed.
LEMMA ConfirmCommitted ==
  ASSUME IInv, FocusInv, CommittedInv, NEW confirmed \in Messages, Confirmed(confirmed), confirmed.text = im.at,
         Post(confirmed), im.phase = "composing", im'.at = im.at, im'.phase = "confirmed",
         UNCHANGED <<focus, overtaken, told, inputs>>
  PROVE  CommittedInv'
<1> DEFINE last == Len(inbox[active]) + 1
<1>1. ASSUME NEW s \in Surfaces
      PROVE  /\ \A i \in Waiting(s) : i \in Waiting(s)' /\ inbox'[s][i] = inbox[s][i] /\ i \in Nat
             /\ \A i \in Waiting(s)' : i \in Waiting(s) \/ (s = active /\ i = last)
             /\ s = active => /\ last \in Waiting(s)' /\ last \in Nat /\ inbox'[s][last] = confirmed
                              /\ \A i \in Waiting(s) : i < last
  <2>1. Len(inbox[s]) \in Nat /\ \A i \in Waiting(s) : i \in Nat
    BY WaitingTypes
  <2> QED BY <2>1, PostedLast
<1>2. im.at \in Nat
  BY ConfirmedTypes
<1>3. ASSUME NEW s \in Surfaces, NEW i \in Waiting(s), Confirmed(inbox[s][i])
      PROVE  /\ inbox[s][i].text \in Nat /\ inbox[s][i].text < im.at
             /\ \A j \in Waiting(s) : i < j /\ Confirmed(inbox[s][j]) => inbox[s][i].text < inbox[s][j].text
             /\ \A w \in Surfaces \ {s} : \A j \in Waiting(w) :
                  Confirmed(inbox[w][j]) => inbox[s][i].text # inbox[w][j].text
             /\ \A t \in Texts : \A n \in DOMAIN told[t].committed : inbox[s][i].text # told[t].committed[n]
  BY <1>2, <1>3, ConfirmedTypes DEF CommittedInv, ConfirmedOnce
<1>4. ASSUME NEW t \in Texts, NEW n \in DOMAIN told[t].committed
      PROVE  told[t].committed[n] \in Nat /\ told[t].committed[n] < im.at
  BY <1>2, ConfirmedTypes DEF CommittedInv, ConfirmedOnce
<1> HIDE DEF last
<1>5. ConfirmedOnce'
  <2>1. ASSUME NEW s \in Surfaces, NEW i \in Waiting(s)', Confirmed(inbox'[s][i])
        PROVE  LET k == inbox'[s][i].text IN
                 /\ k <= im.at
                 /\ \A j \in Waiting(s)' : i < j /\ Confirmed(inbox'[s][j]) => k < inbox'[s][j].text
                 /\ \A w \in Surfaces \ {s} : \A j \in Waiting(w)' : Confirmed(inbox'[w][j]) => k # inbox'[w][j].text
                 /\ \A t \in Texts : \A n \in DOMAIN told[t].committed : k # told[t].committed[n]
    <3>1. CASE i \in Waiting(s)
      <4>1. inbox'[s][i] = inbox[s][i] /\ inbox[s][i].text \in Nat /\ inbox[s][i].text < im.at
        BY <1>1, <1>3, <2>1, <3>1
      <4> QED BY <1>1, <1>2, <1>3, <2>1, <3>1, <4>1
    <3>2. CASE s = active /\ i = last
      <4>1. inbox'[s][i].text = im.at
        BY <1>1, <3>2
      <4>2. \A j \in Waiting(s)' : ~ (i < j)
        BY <1>1, <3>2
      <4>3. \A w \in Surfaces \ {s} : \A j \in Waiting(w)' : Confirmed(inbox'[w][j]) => im.at # inbox'[w][j].text
        BY <1>1, <1>2, <1>3, <3>2
      <4> QED BY <1>2, <1>4, <4>1, <4>2, <4>3
    <3> QED BY <1>1, <3>1, <3>2
  <2>2. \A t \in Texts : \A n \in DOMAIN told[t].committed : told[t].committed[n] <= im.at
    BY <1>2, <1>4
  <2> QED BY <2>1, <2>2 DEF ConfirmedOnce
<1>6. LaterTextsWait'
  <2> SUFFICES ASSUME ~ overtaken, NEW s \in Surfaces, NEW w \in Surfaces,
               NEW i \in Waiting(s)', NEW j \in Waiting(s)', NEW n \in Waiting(w)', s # w,
               Confirmed(inbox'[s][i]), Confirmed(inbox'[w][n]), inbox'[s][i].text < inbox'[w][n].text,
               j < i, Activation(inbox'[s][j]), inbox'[s][j].on
        PROVE  \E m \in Waiting(w)' : m < n /\ Activation(inbox'[w][m]) /\ inbox'[w][m].turn > inbox'[s][j].turn
    BY DEF LaterTextsWait
  <2>1. j \in Waiting(s) /\ inbox'[s][j] = inbox[s][j] /\ inbox[s][j].turn \in Nat
    <3>1. j \in Waiting(s)
      BY <1>1 DEF Activation, Confirmed
    <3> QED BY <1>1, <3>1, ConfirmedTypes
  <2>2. inbox'[w][n].text <= im.at
    <3>1. CASE n \in Waiting(w)
      BY <1>1, <1>2, <1>3, <3>1
    <3>2. CASE w = active /\ n = last
      BY <1>1, <1>2, <3>2
    <3> QED BY <1>1, <3>1, <3>2
  <2>3. i \in Waiting(s)
    <3>1. CASE s = active /\ i = last
      <4>1. inbox'[s][i].text = im.at /\ inbox'[w][n].text \in Nat
        BY <1>1, <1>3, <3>1
      <4> QED BY <1>2, <2>2, <4>1
    <3> QED BY <1>1, <3>1
  <2>4. CASE n \in Waiting(w)
    <3>1. PICK m \in Waiting(w) : m < n /\ Activation(inbox[w][m]) /\ inbox[w][m].turn > inbox[s][j].turn
      BY <1>1, <2>1, <2>3, <2>4 DEF CommittedInv, LaterTextsWait
    <3> QED BY <1>1, <2>1, <3>1
  <2>5. CASE w = active /\ n = last
    <3>1. PICK m \in Waiting(w) : Activation(inbox[w][m]) /\ inbox[w][m].turn = switches
      BY <2>1, <2>5 DEF FocusInv, ActiveGetsFocus
    <3>2. inbox[s][j].turn <= switches /\ inbox[s][j].turn # switches /\ switches \in Nat
      BY <2>1, <2>5, Bounds DEF FocusInv, TurnsInOrder, IInv, TypeOK
    <3>3. inbox[w][m].turn > inbox[s][j].turn
      BY <2>1, <3>1, <3>2
    <3> QED BY <1>1, <2>1, <2>5, <3>1, <3>3
  <2> QED BY <1>1, <2>4, <2>5
<1>7. PassedByForGood'
  <2>1. ASSUME ~ overtaken, NEW s \in Surfaces, NEW i \in Waiting(s)', NEW t \in Texts,
               NEW n \in DOMAIN told[t].committed,
               Confirmed(inbox'[s][i]), inbox'[s][i].text < told[t].committed[n]
        PROVE  /\ focus # s
               /\ \A j \in Waiting(s)' : j < i /\ Activation(inbox'[s][j]) => ~ inbox'[s][j].on
    <3>1. i \in Waiting(s)
      BY <1>1, <1>2, <1>4, <2>1
    <3>2. \A j \in Waiting(s)' : j < i => j \in Waiting(s)
      BY <1>1, <3>1
    <3> QED BY <1>1, <2>1, <3>1, <3>2 DEF CommittedInv, PassedByForGood
  <2> QED BY <2>1 DEF PassedByForGood
<1>8. CommittedOnceInOrder'
  BY DEF CommittedInv, CommittedOnceInOrder
<1> QED BY <1>5, <1>6, <1>7, <1>8 DEF CommittedInv

\* The first message of a window is handled, and the text it confirms is committed where the
\* window has the focus.
LEMMA TakenCommitted ==
  ASSUME IInv, CommittedInv, NEW s \in Surfaces, Taken(s), UNCHANGED <<im, inputs>>,
         ~ overtaken' => /\ ~ overtaken
                         /\ Activation(First(s)) => ~ Overtakes(s, First(s)),
         \A w \in Surfaces : focus' = w =>
           focus = w \/ (w = s /\ Activation(First(s)) /\ First(s).on),
         \A t \in Texts :
           \/ told'[t].committed = told[t].committed
           \/ /\ Confirmed(First(s)) /\ focus = s
              /\ told'[t].committed = Append(told[t].committed, First(s).text)
  PROVE  CommittedInv'
<1> DEFINE head == First(s)
<1>1. /\ 1 \in Waiting(s) /\ head = inbox[s][1]
      /\ \A w \in Surfaces \ {s} : inbox'[w] = inbox[w] /\ Waiting(w)' = Waiting(w)
      /\ \A i \in Waiting(s)' : i + 1 \in Waiting(s) /\ i \in Nat /\ 1 <= i /\ inbox'[s][i] = inbox[s][i + 1]
      /\ \A i \in Waiting(s) : i \in Nat /\ (i # 1 => i - 1 \in Waiting(s)' /\ i = (i - 1) + 1)
  BY TakenFirst, WaitingTypes
<1>2. im.at \in Nat
  BY ConfirmedTypes
\* Where each message was before.
<1>3. ASSUME NEW w \in Surfaces, NEW i \in Waiting(w)'
      PROVE  \E p \in Waiting(w) :
               /\ inbox'[w][i] = inbox[w][p] /\ p = (IF w = s THEN i + 1 ELSE i) /\ i \in Nat
               /\ w = s => 1 < p
  <2>1. CASE w = s
    BY <1>1, <2>1
  <2>2. CASE w # s
    BY <1>1, <2>2, WaitingTypes
  <2> QED BY <2>1, <2>2
<1>4. ASSUME NEW t \in Texts, NEW n \in DOMAIN told'[t].committed
      PROVE  \/ n \in DOMAIN told[t].committed /\ told'[t].committed[n] = told[t].committed[n]
             \/ Confirmed(head) /\ focus = s /\ told'[t].committed[n] = head.text
  <2>1. told[t].committed \in Seq(Compositions)
    BY ConfirmedTypes
  <2> DEFINE q == told[t].committed
  <2> HIDE DEF q, head
  <2>2. \A x : \A i \in DOMAIN Append(q, x) : (i \in DOMAIN q /\ Append(q, x)[i] = q[i]) \/ Append(q, x)[i] = x
    BY <2>1 DEF q
  <2> QED BY <1>4, <2>2 DEF q, head
<1>5. ASSUME Confirmed(head)
      PROVE  /\ head.text \in Nat /\ head.text <= im.at /\ (im.phase = "composing" => head.text # im.at)
             /\ \A j \in Waiting(s) : 1 < j /\ Confirmed(inbox[s][j]) => head.text < inbox[s][j].text
             /\ \A w \in Surfaces \ {s} : \A j \in Waiting(w) :
                  Confirmed(inbox[w][j]) => head.text # inbox[w][j].text
             /\ \A t \in Texts : \A n \in DOMAIN told[t].committed : head.text # told[t].committed[n]
  BY <1>1, <1>5, ConfirmedTypes DEF CommittedInv, ConfirmedOnce
<1> HIDE DEF head
<1>6. ConfirmedOnce'
  <2>1. ASSUME NEW w \in Surfaces, NEW i \in Waiting(w)', Confirmed(inbox'[w][i])
        PROVE  LET k == inbox'[w][i].text IN
                 /\ k <= im.at /\ (im.phase = "composing" => k # im.at)
                 /\ \A j \in Waiting(w)' : i < j /\ Confirmed(inbox'[w][j]) => k < inbox'[w][j].text
                 /\ \A u \in Surfaces \ {w} : \A j \in Waiting(u)' : Confirmed(inbox'[u][j]) => k # inbox'[u][j].text
                 /\ \A t \in Texts : \A n \in DOMAIN told'[t].committed : k # told'[t].committed[n]
    <3>1. PICK p \in Waiting(w) : /\ inbox'[w][i] = inbox[w][p] /\ p = (IF w = s THEN i + 1 ELSE i) /\ i \in Nat
                                  /\ w = s => 1 < p
      BY <1>3, <2>1
    <3>2. /\ inbox[w][p].text <= im.at /\ (im.phase = "composing" => inbox[w][p].text # im.at)
          /\ \A j \in Waiting(w) : p < j /\ Confirmed(inbox[w][j]) => inbox[w][p].text < inbox[w][j].text
          /\ \A u \in Surfaces \ {w} : \A j \in Waiting(u) :
               Confirmed(inbox[u][j]) => inbox[w][p].text # inbox[u][j].text
          /\ \A t \in Texts : \A n \in DOMAIN told[t].committed : inbox[w][p].text # told[t].committed[n]
      BY <2>1, <3>1 DEF CommittedInv, ConfirmedOnce
    <3>3. ASSUME NEW j \in Waiting(w)', i < j, Confirmed(inbox'[w][j])
          PROVE  inbox'[w][i].text < inbox'[w][j].text
      <4>1. PICK r \in Waiting(w) : inbox'[w][j] = inbox[w][r] /\ r = (IF w = s THEN j + 1 ELSE j) /\ j \in Nat
        BY <1>3
      <4>2. p < r
        BY <3>1, <3>3, <4>1
      <4> QED BY <3>1, <3>2, <3>3, <4>1, <4>2
    <3>4. ASSUME NEW u \in Surfaces \ {w}, NEW j \in Waiting(u)', Confirmed(inbox'[u][j])
          PROVE  inbox'[w][i].text # inbox'[u][j].text
      <4>1. PICK r \in Waiting(u) : inbox'[u][j] = inbox[u][r]
        BY <1>3
      <4> QED BY <3>1, <3>2, <3>4, <4>1
    <3>5. ASSUME NEW t \in Texts, NEW n \in DOMAIN told'[t].committed
          PROVE  inbox'[w][i].text # told'[t].committed[n]
      <4>1. CASE n \in DOMAIN told[t].committed /\ told'[t].committed[n] = told[t].committed[n]
        BY <3>1, <3>2, <4>1
      <4>2. CASE Confirmed(head) /\ told'[t].committed[n] = head.text
        <5>1. inbox[w][p].text \in Nat
          BY <2>1, <3>1, ConfirmedTypes
        <5>2. CASE w = s
          BY <1>5, <2>1, <3>1, <4>2, <5>1, <5>2
        <5>3. CASE w # s
          BY <1>5, <2>1, <3>1, <4>2, <5>3
        <5> QED BY <5>2, <5>3
      <4> QED BY <1>4, <4>1, <4>2
    <3> QED BY <3>1, <3>2, <3>3, <3>4, <3>5
  <2>2. ASSUME NEW t \in Texts, NEW n \in DOMAIN told'[t].committed
        PROVE  LET k == told'[t].committed[n] IN k <= im.at /\ (im.phase = "composing" => k # im.at)
    BY <1>4, <1>5 DEF CommittedInv, ConfirmedOnce
  <2> QED BY <2>1, <2>2 DEF ConfirmedOnce
<1>7. LaterTextsWait'
  <2> SUFFICES ASSUME ~ overtaken', NEW u \in Surfaces, NEW w \in Surfaces,
               NEW i \in Waiting(u)', NEW j \in Waiting(u)', NEW n \in Waiting(w)', u # w,
               Confirmed(inbox'[u][i]), Confirmed(inbox'[w][n]), inbox'[u][i].text < inbox'[w][n].text,
               j < i, Activation(inbox'[u][j]), inbox'[u][j].on
        PROVE  \E m \in Waiting(w)' : m < n /\ Activation(inbox'[w][m]) /\ inbox'[w][m].turn > inbox'[u][j].turn
    BY DEF LaterTextsWait
  <2>1. PICK p \in Waiting(u) : inbox'[u][i] = inbox[u][p] /\ p = (IF u = s THEN i + 1 ELSE i) /\ i \in Nat
    BY <1>3
  <2>2. PICK r \in Waiting(u) : inbox'[u][j] = inbox[u][r] /\ r = (IF u = s THEN j + 1 ELSE j) /\ j \in Nat
    BY <1>3
  <2>3. PICK o \in Waiting(w) : inbox'[w][n] = inbox[w][o] /\ o = (IF w = s THEN n + 1 ELSE n) /\ n \in Nat
    BY <1>3
  <2>4. r < p
    BY <2>1, <2>2
  <2>5. PICK m \in Waiting(w) : m < o /\ Activation(inbox[w][m]) /\ inbox[w][m].turn > inbox[u][r].turn
    <3>1. /\ ~ overtaken /\ Confirmed(inbox[u][p]) /\ Confirmed(inbox[w][o])
          /\ inbox[u][p].text < inbox[w][o].text
          /\ Activation(inbox[u][r]) /\ inbox[u][r].on
      BY <2>1, <2>2, <2>3
    <3>2. LaterTextsWait /\ u # w
      BY DEF CommittedInv
    <3> QED BY <2>4, <3>1, <3>2 DEF LaterTextsWait
  <2>6. CASE w # s
    BY <1>1, <2>2, <2>3, <2>5, <2>6
  <2>7. CASE w = s /\ m # 1
    <3>1. m - 1 \in Waiting(s)' /\ m = (m - 1) + 1 /\ m \in Nat
      BY <1>1, <2>5, <2>7
    <3>2. inbox'[s][m - 1] = inbox[s][m]
      BY <1>1, <3>1
    <3>3. m - 1 < n
      BY <2>3, <2>5, <2>7, <3>1
    <3> QED BY <2>2, <2>5, <2>7, <3>1, <3>2, <3>3
  <2>8. CASE w = s /\ m = 1
    <3>1. Activation(head) /\ u \in Surfaces \ {s} /\ Activation(inbox[u][r]) /\ inbox[u][r].turn < head.turn
      <4>1. inbox[u][r].turn \in Nat /\ head.turn \in Nat
        BY <1>1, <2>2, <2>5, <2>8, ConfirmedTypes
      <4> QED BY <1>1, <2>2, <2>5, <2>8, <4>1
    <3>2. Overtakes(s, head)
      BY <3>1 DEF Overtakes, Activation, Waiting
    <3> QED BY <3>1, <3>2 DEF head
  <2> QED BY <2>6, <2>7, <2>8
<1>8. PassedByForGood'
  <2> SUFFICES ASSUME ~ overtaken', NEW w \in Surfaces, NEW i \in Waiting(w)', NEW t \in Texts,
               NEW n \in DOMAIN told'[t].committed,
               Confirmed(inbox'[w][i]), inbox'[w][i].text < told'[t].committed[n]
        PROVE  /\ focus' # w
               /\ \A j \in Waiting(w)' : j < i /\ Activation(inbox'[w][j]) => ~ inbox'[w][j].on
    BY DEF PassedByForGood
  <2>1. PICK p \in Waiting(w) : /\ inbox'[w][i] = inbox[w][p] /\ p = (IF w = s THEN i + 1 ELSE i) /\ i \in Nat
                                /\ w = s => 1 < p
    BY <1>3
  <2>2. inbox[w][p].text \in Nat /\ Confirmed(inbox[w][p])
    BY <2>1, ConfirmedTypes
  <2>3. /\ focus # w
        /\ \A r \in Waiting(w) : r < p /\ Activation(inbox[w][r]) => ~ inbox[w][r].on
    <3>1. CASE n \in DOMAIN told[t].committed /\ told'[t].committed[n] = told[t].committed[n]
      BY <2>1, <3>1 DEF CommittedInv, PassedByForGood
    <3>2. CASE Confirmed(head) /\ focus = s /\ told'[t].committed[n] = head.text
      <4>1. w # s
        BY <1>5, <2>1, <2>2, <3>2
      <4>2. ASSUME NEW r \in Waiting(w), r < p, Activation(inbox[w][r])  PROVE ~ inbox[w][r].on
        <5>1. ASSUME inbox[w][r].on  PROVE \E m \in Waiting(s) : m < 1
          BY <1>1, <2>1, <2>2, <3>2, <4>1, <4>2, <5>1 DEF CommittedInv, LaterTextsWait
        <5> QED BY <5>1, WaitingTypes
      <4> QED BY <3>2, <4>1, <4>2
    <3> QED BY <1>4, <3>1, <3>2
  <2>4. focus' # w
    <3>1. ASSUME w = s, Activation(head), head.on  PROVE FALSE
      BY <1>1, <2>1, <2>3, <3>1
    <3> QED BY <2>3, <3>1 DEF head
  <2>5. ASSUME NEW j \in Waiting(w)', j < i, Activation(inbox'[w][j])  PROVE ~ inbox'[w][j].on
    <3>1. PICK r \in Waiting(w) : inbox'[w][j] = inbox[w][r] /\ r = (IF w = s THEN j + 1 ELSE j) /\ j \in Nat
      BY <1>3
    <3>2. r < p
      BY <2>1, <2>5, <3>1
    <3> QED BY <2>3, <2>5, <3>1, <3>2
  <2> QED BY <2>4, <2>5
<1>9. CommittedOnceInOrder'
  <2>1. ASSUME NEW t \in inputs, NEW i \in DOMAIN told'[t].committed, NEW j \in DOMAIN told'[t].committed, i < j
        PROVE  /\ told'[t].committed[i] # told'[t].committed[j]
               /\ told'[t].committed[i] < told'[t].committed[j] \/ overtaken'
    <3> DEFINE q == told[t].committed
    <3>1. t \in Texts /\ q \in Seq(Compositions) /\ \A n \in DOMAIN q : q[n] \in Nat
      BY ConfirmedTypes DEF IInv, TypeOK
    <3>2. CASE told'[t].committed = q
      BY <2>1, <3>2 DEF CommittedInv, CommittedOnceInOrder
    <3>3. CASE Confirmed(head) /\ focus = s /\ told'[t].committed = Append(q, head.text)
      <4>1. ASSUME NEW n \in DOMAIN q
            PROVE  /\ q[n] # head.text /\ q[n] \in Nat /\ head.text \in Nat
                   /\ q[n] < head.text \/ overtaken'
        <5>1. ~ overtaken => ~ (head.text < q[n])
          BY <1>1, <3>1, <3>3, <4>1 DEF CommittedInv, PassedByForGood
        <5>2. q[n] # head.text /\ q[n] \in Nat /\ head.text \in Nat
          BY <1>5, <3>1, <3>3, <4>1
        <5> QED BY <5>1, <5>2
      <4>2. \A n, o \in DOMAIN q : n < o => q[n] # q[o] /\ (q[n] < q[o] \/ overtaken')
        BY DEF CommittedInv, CommittedOnceInOrder
      <4> HIDE DEF q
      <4>3. /\ i \in DOMAIN q /\ Append(q, head.text)[i] = q[i]
            /\ \/ j \in DOMAIN q /\ Append(q, head.text)[j] = q[j]
               \/ Append(q, head.text)[j] = head.text
        BY <2>1, <3>1, <3>3
      <4> QED BY <2>1, <3>3, <4>1, <4>2, <4>3
    <3> QED BY <3>1, <3>2, <3>3 DEF head
  <2> QED BY <2>1 DEF CommittedOnceInOrder
<1> QED BY <1>6, <1>7, <1>8, <1>9 DEF CommittedInv

\* What is committed when a text input is told the state g.
LEMMA SendStateCommits ==
  ASSUME TypeOK, NEW g \in Globals, NEW t \in Texts
  PROVE  SendState(g, t).committed =
           IF g.active /\ g.confirmed THEN Append(told[t].committed, g.text) ELSE told[t].committed
<1>1. told[t] \in Pictures
  BY DEF TypeOK, Pictures
<1>2. \A p, c : [told[t] EXCEPT !.preedit = p, !.committed = c].committed = c
  BY <1>1 DEF Pictures
<1> QED BY <1>2 DEF SendState

\* Messages that confirm nothing.
LEMMA ActivateCommitted == ASSUME IInv, CommittedInv, NEW w \in Focus, Activate(w)  PROVE CommittedInv'
<1>1. ASSUME NEW s \in Surfaces
      PROVE  /\ \A i \in Waiting(s) : i \in Waiting(s)' /\ inbox'[s][i] = inbox[s][i]
             /\ \A i, j \in Waiting(s)' : Confirmed(inbox'[s][i]) /\ j <= i => j \in Waiting(s)
             /\ \A i \in Waiting(s)' : i \in Nat
  <2>1. Len(inbox[s]) \in Nat /\ \A i \in Waiting(s) : i \in Nat /\ i < Len(inbox[s]) + 1
    BY WaitingTypes
  <2>2. /\ Waiting(s)' = IF s \in {active, w} THEN Waiting(s) \cup {Len(inbox[s]) + 1} ELSE Waiting(s)
        /\ \A i \in Waiting(s) : inbox'[s][i] = inbox[s][i] /\ i < Len(inbox[s]) + 1
        /\ s \in {active, w} =>
             inbox'[s][Len(inbox[s]) + 1] = [kind |-> "activated", on |-> s = w, turn |-> switches + 1]
    BY ActivatedLast, Zenon
  <2>3. s \in {active, w} => ~ Confirmed(inbox'[s][Len(inbox[s]) + 1])
    BY <2>2 DEF Confirmed
  <2> QED BY <2>1, <2>2, <2>3
<1>2. im.at \in Nat /\ inputs \subseteq Texts
  BY ConfirmedTypes DEF IInv, TypeOK
<1>3. UNCHANGED <<im, focus, overtaken, told, inputs>>
  BY DEF Activate, clientVars
<1>4. im.at <= im'.at /\ (im'.phase = "composing" => im.phase = "composing") /\ im'.at \in Nat
  BY <1>2, <1>3
<1> QED BY <1>1, <1>2, <1>3, <1>4, SameCommitted

LEMMA PostCommitted ==
  ASSUME IInv, CommittedInv, NEW m \in Messages, Post(m), ~ Confirmed(m),
         im'.at \in Nat, im.at <= im'.at, im'.phase = "composing" => im.at < im'.at \/ im.phase = "composing",
         UNCHANGED <<focus, overtaken, told, inputs>>
  PROVE  CommittedInv'
<1>1. ASSUME NEW s \in Surfaces
      PROVE  /\ \A i \in Waiting(s) : i \in Waiting(s)' /\ inbox'[s][i] = inbox[s][i]
             /\ \A i, j \in Waiting(s)' : Confirmed(inbox'[s][i]) /\ j <= i => j \in Waiting(s)
             /\ \A i \in Waiting(s)' : i \in Nat
  <2>1. Len(inbox[s]) \in Nat /\ \A i \in Waiting(s) : i \in Nat /\ i < Len(inbox[s]) + 1
    BY WaitingTypes
  <2>2. /\ Waiting(s)' = IF s = active THEN Waiting(s) \cup {Len(inbox[s]) + 1} ELSE Waiting(s)
        /\ \A i \in Waiting(s) : inbox'[s][i] = inbox[s][i]
        /\ s = active => inbox'[s][Len(inbox[s]) + 1] = m
    BY PostedLast
  <2> QED BY <2>1, <2>2
<1>2. inputs \subseteq Texts
  BY DEF IInv, TypeOK
<1> QED BY <1>1, <1>2, SameCommitted

LEMMA InputMethodCommitted ==
  ASSUME IInv, FocusInv, CommittedInv, InputMethod  PROVE CommittedInv'
<1>1. im.at \in Nat /\ (im.phase # "off" => im.at \in Compositions)
        /\ im \in [at : Contents, phase : {"off", "composing", "confirmed"}, text : Contents]
  BY ConfirmedTypes DEF IInv, TypeOK, CompositionsAreNamed
<1>2. CASE StartComposition
  <2>1. im'.at = im.at + 1 /\ im'.at \in Compositions
    BY <1>1, <1>2, Bounds DEF StartComposition, Compositions, Contents
  <2> DEFINE m == [kind |-> "started", of |-> im'.at]
  <2>2. m \in Messages /\ Post(m) /\ ~ Confirmed(m)
    BY <1>2, <2>1 DEF StartComposition, Messages, Confirmed
  <2> HIDE DEF m
  <2> QED BY <1>1, <1>2, <2>1, <2>2, PostCommitted DEF StartComposition, clientVars, ghostVars
<1>3. ASSUME NEW text \in Contents, NEW confirmed \in BOOLEAN, ChangeComposition(text, confirmed)
      PROVE  CommittedInv'
  <2> DEFINE m == [kind |-> "changed", of |-> im.at, text |-> text, confirmed |-> confirmed]
  <2>1. m \in Messages /\ Post(m) /\ (Confirmed(m) <=> confirmed) /\ m.text = text
    BY <1>1, <1>3 DEF ChangeComposition, Messages, Confirmed
  <2>2. im'.at = im.at /\ im.phase = "composing" /\ (confirmed => im'.phase = "confirmed" /\ text = im.at)
    BY <1>1, <1>3 DEF ChangeComposition
  <2>3. UNCHANGED <<focus, overtaken, told, inputs>>
    BY <1>3 DEF ChangeComposition, clientVars, ghostVars
  <2> HIDE DEF m
  <2>4. CASE confirmed
    BY <2>1, <2>2, <2>3, <2>4, ConfirmCommitted
  <2>5. CASE ~ confirmed
    BY <1>1, <2>1, <2>2, <2>3, <2>5, PostCommitted
  <2> QED BY <2>4, <2>5
<1>4. CASE StopComposition
  <2> DEFINE m == [kind |-> "stopped", of |-> im.at]
  <2>1. m \in Messages /\ Post(m) /\ ~ Confirmed(m)
    BY <1>1, <1>4 DEF StopComposition, Messages, Confirmed
  <2>2. im'.at = im.at /\ im'.phase = "off"
    BY <1>1, <1>4 DEF StopComposition
  <2> HIDE DEF m
  <2> QED BY <1>1, <1>4, <2>1, <2>2, PostCommitted DEF StopComposition, clientVars, ghostVars
<1>5. ASSUME NEW drops \in BOOLEAN, HandleReply(drops)  PROVE CommittedInv'
  <2>1. im'.at = im.at /\ (im'.phase = "composing" => im.phase = "composing")
    BY <1>1, <1>5 DEF HandleReply
  <2>2. UNCHANGED <<inbox, focus, overtaken, told, inputs>> /\ inputs \subseteq Texts
    BY <1>5 DEF HandleReply, clientVars, IInv, TypeOK
  <2>3. \A s \in Surfaces : \A i \in Waiting(s) : i \in Nat
    BY WaitingTypes
  <2>4. \A s \in Surfaces : Waiting(s)' = Waiting(s)
    BY <2>2 DEF Waiting
  <2> QED BY <1>1, <2>1, <2>2, <2>3, <2>4, SameCommitted
<1> QED BY <1>2, <1>3, <1>4, <1>5 DEF InputMethod

\* Only a confirmed text that is accepted is committed.
LEMMA WindowThreadCommitted ==
  ASSUME IInv, CommittedInv, NEW s \in Surfaces, WindowThread(s)  PROVE CommittedInv'
<1>1. First(s).kind # "activated" <=> ~ Activation(First(s))
  BY DEF Activation
<1>2. TypeOK /\ global \in Globals /\ ~ global.confirmed /\ inputs \subseteq Texts
  BY DEF IInv, TypeOK, Globals
<1>3. CASE WindowActivated(s)
  <2>1. /\ Taken(s) /\ (First(s).on => focus' = s)
        /\ ~ First(s).on => focus' = IF focus = s THEN None ELSE focus
        /\ ~ overtaken' => ~ overtaken /\ ~ Overtakes(s, First(s))
        /\ Activation(First(s))
    BY <1>3, FocusMoves
  <2>2. ASSUME NEW t \in Texts  PROVE told'[t].committed = told[t].committed
    <3>1. told[t] \in Pictures
      BY <1>2 DEF TypeOK, Pictures
    <3>2. \A f : [told[t] EXCEPT !.on = f].committed = told[t].committed
      BY <3>1 DEF Pictures
    <3> QED BY <1>3, <3>2 DEF WindowActivated, SetKeyboardFocus, Tell
  <2>3. \A w \in Surfaces : focus' = w => focus = w \/ (w = s /\ Activation(First(s)) /\ First(s).on)
    BY <2>1, SurfacesAssumption
  <2> QED BY <1>3, <2>1, <2>2, <2>3, TakenCommitted DEF WindowActivated
<1>4. CASE NotForFocus(s)
  BY <1>1, <1>4, TakenCommitted DEF NotForFocus, clientVars
<1>5. ASSUME NEW hasReply \in BOOLEAN, Started(s, hasReply)  PROVE CommittedInv'
  <2>1. ~ Activation(First(s)) /\ Taken(s)
    BY <1>5 DEF Started, Activation
  <2> QED BY <1>5, <2>1, TakenCommitted DEF Started, clientVars
<1>6. CASE Changed(s)
  <2> DEFINE m == First(s)
             g == [global EXCEPT !.text = m.text, !.confirmed = m.confirmed]
  <2>1. Taken(s) /\ m \in Messages /\ m.kind = "changed" /\ ~ Activation(m) /\ focus = s
    BY <1>6, TakenKeeps DEF Changed, Activation, Accepts
  <2>2. m.text \in Contents /\ m.confirmed \in BOOLEAN
    BY <2>1, MessageKinds
  <2>3. g \in Globals /\ g.text = m.text /\ (g.confirmed => Confirmed(m))
    BY <1>2, <2>1, <2>2 DEF Globals, Confirmed
  <2>4. SendStateToAll(g)
    BY <1>6 DEF Changed, TakeText
  <2> HIDE DEF g
  <2>5. ASSUME NEW t \in Texts
        PROVE  \/ told'[t].committed = told[t].committed
               \/ Confirmed(m) /\ focus = s /\ told'[t].committed = Append(told[t].committed, m.text)
    <3>1. SendState(g, t).committed =
            IF g.active /\ g.confirmed THEN Append(told[t].committed, g.text) ELSE told[t].committed
      BY <1>2, <2>3, SendStateCommits
    <3>2. told'[t] = SendState(g, t) \/ told'[t] = told[t]
      BY <2>4 DEF SendStateToAll
    <3> QED BY <2>1, <2>3, <3>1, <3>2
  <2> QED BY <1>6, <2>1, <2>5, TakenCommitted DEF Changed
<1>7. CASE Stopped(s)
  <2>1. Taken(s) /\ ~ Activation(First(s))
    BY <1>7 DEF Stopped, Activation
  <2>2. ASSUME NEW t \in Texts  PROVE told'[t].committed = told[t].committed
    <3>1. SendState(global, t).committed = told[t].committed
      BY <1>2, SendStateCommits
    <3> QED BY <1>7, <3>1 DEF Stopped, SendStateToAll
  <2> QED BY <1>7, <2>1, <2>2, TakenCommitted DEF Stopped, ghostVars
<1> QED BY <1>3, <1>4, <1>5, <1>6, <1>7 DEF WindowThread

LEMMA RequestsCommitted ==
  ASSUME IInv, CommittedInv, NEW t \in Texts, Requests(t)  PROVE CommittedInv'
<1>1. UNCHANGED <<im, inbox, focus, overtaken>>
  BY DEF Requests, GetTextInput, DestroyTextInput, HandleDisable, HandleCommit, ghostVars
<1>2. \A s \in Surfaces : \A i \in Waiting(s) : i \in Nat
  BY WaitingTypes
<1>3. \A s \in Surfaces : Waiting(s)' = Waiting(s)
  BY <1>1 DEF Waiting
<1>4. TypeOK /\ global \in Globals /\ ~ global.confirmed /\ inputs \subseteq Texts /\ im.at \in Nat
  BY ConfirmedTypes DEF IInv, TypeOK, Globals
<1>5. /\ inputs' \subseteq Texts
      /\ \A u \in Texts : \/ told'[u].committed = told[u].committed /\ (u \in inputs' => u \in inputs)
                          \/ told'[u].committed = <<>>
  <2>1. told \in [Texts -> Pictures]
    BY <1>4 DEF TypeOK, Pictures
  <2>2. CASE GetTextInput(t)
    <3>1. inputs' = inputs \cup {t} /\ told' = [told EXCEPT ![t] = NewInput] /\ NewInput.committed = <<>>
      BY <2>2 DEF GetTextInput, NewInput
    <3> QED BY <1>4, <2>1, <3>1
  <2>3. CASE DestroyTextInput(t)
    BY <1>4, <2>3 DEF DestroyTextInput
  <2>4. CASE HandleDisable(t)
    BY <1>4, <2>4 DEF HandleDisable, clientVars
  <2>5. CASE HandleCommit(t)
    <3>1. SendState(global, t).committed = told[t].committed
      BY <1>4, SendStateCommits
    <3>2. told' = [told EXCEPT ![t] = SendState(global, t)] /\ inputs' = inputs
      BY <2>5 DEF HandleCommit
    <3> QED BY <1>4, <2>1, <3>1, <3>2
  <2> QED BY <2>2, <2>3, <2>4, <2>5 DEF Requests
<1> QED BY <1>1, <1>2, <1>3, <1>4, <1>5, SameCommitted

LEMMA InitCommitted == ASSUME Init  PROVE CommittedInv
<1>1. ASSUME NEW s \in Surfaces  PROVE Waiting(s) = {}
  BY DEF Init, Waiting
<1>2. ASSUME NEW t \in Texts  PROVE DOMAIN told[t].committed = {}
  BY DEF Init, NewInput
<1> QED BY <1>1, <1>2 DEF Init, CommittedInv, ConfirmedOnce, LaterTextsWait, PassedByForGood, CommittedOnceInOrder

-----------------------------------------------------------------------------
(* The text that is shown is of the current composition.                    *)

\* What follows what, when a message comes last or the first one goes.
LEMMA LastStarts ==
  ASSUME NEW q \in Seq(Messages), NEW m \in Messages, NEW k
  PROVE  LET n == Len(q) + 1
             r == Append(q, m)
         IN /\ m.kind = "started" /\ m.of = k => StartedLast(r, n, k)
            /\ ~ Begins(m) /\ StartedLast(q, Len(q), k) => StartedLast(r, n, k)
            /\ ~ Begins(m) /\ NoneBegins(q, Len(q)) => NoneBegins(r, n)
<1> DEFINE n == Len(q) + 1
           r == Append(q, m)
<1>1. n \in Nat /\ r[n] = m /\ (\A i \in 1..Len(q) : r[i] = q[i]) /\ 1..n = 1..Len(q) \cup {n}
  OBVIOUS
<1> HIDE DEF r
<1>2. ASSUME m.kind = "started", m.of = k  PROVE StartedLast(r, n, k)
  <2>1. n \in 1..n /\ (n + 1)..n = {}
    BY <1>1
  <2> QED BY <1>1, <1>2, <2>1 DEF StartedLast
<1>3. ASSUME ~ Begins(m), StartedLast(q, Len(q), k)  PROVE StartedLast(r, n, k)
  <2>1. PICK i \in 1..Len(q) : /\ q[i].kind = "started" /\ q[i].of = k
                               /\ \A j \in (i + 1)..Len(q) : ~ Begins(q[j])
    BY <1>3 DEF StartedLast
  <2>2. ASSUME NEW j \in (i + 1)..n  PROVE ~ Begins(r[j])
    <3>1. j = n \/ (j \in (i + 1)..Len(q) /\ j \in 1..Len(q))
      OBVIOUS
    <3> QED BY <1>1, <1>3, <2>1, <3>1
  <2> QED BY <1>1, <2>1, <2>2 DEF StartedLast
<1>4. ASSUME ~ Begins(m), NoneBegins(q, Len(q))  PROVE NoneBegins(r, n)
  BY <1>1, <1>4 DEF NoneBegins
<1> QED BY <1>2, <1>3, <1>4 DEF r

\* A prefix is all that counts.
LEMMA SamePrefix ==
  ASSUME NEW q, NEW r, NEW n \in Nat, \A i \in 1..n : r[i] = q[i], NEW k
  PROVE  /\ StartedLast(q, n, k) => StartedLast(r, n, k)
         /\ NoneBegins(q, n) => NoneBegins(r, n)
<1>1. ASSUME StartedLast(q, n, k)  PROVE StartedLast(r, n, k)
  <2>1. PICK i \in 1..n : /\ q[i].kind = "started" /\ q[i].of = k
                          /\ \A j \in (i + 1)..n : ~ Begins(q[j])
    BY <1>1 DEF StartedLast
  <2>2. \A j \in (i + 1)..n : j \in 1..n
    OBVIOUS
  <2> QED BY <2>1, <2>2 DEF StartedLast
<1>2. NoneBegins(q, n) => NoneBegins(r, n)
  BY DEF NoneBegins
<1> QED BY <1>1, <1>2

LEMMA TailStarts ==
  ASSUME NEW q, NEW r, NEW n \in Nat, \A i \in 1..n : r[i] = q[i + 1], NEW k
  PROVE  /\ StartedLast(q, n + 1, k) =>
              \/ StartedLast(r, n, k)
              \/ NoneBegins(r, n) /\ q[1].kind = "started" /\ q[1].of = k
         /\ NoneBegins(q, n + 1) => NoneBegins(r, n) /\ ~ Begins(q[1])
<1>1. ASSUME StartedLast(q, n + 1, k)
      PROVE  \/ StartedLast(r, n, k)
             \/ NoneBegins(r, n) /\ q[1].kind = "started" /\ q[1].of = k
  <2>1. PICK i \in 1..(n + 1) : /\ q[i].kind = "started" /\ q[i].of = k
                                /\ \A j \in (i + 1)..(n + 1) : ~ Begins(q[j])
    BY <1>1 DEF StartedLast
  <2>2. ASSUME NEW j \in 1..n, i < j + 1  PROVE ~ Begins(r[j])
    <3>1. j + 1 \in (i + 1)..(n + 1)
      BY <2>2
    <3> QED BY <2>1, <3>1
  <2>3. CASE i = 1
    BY <2>1, <2>2, <2>3 DEF NoneBegins
  <2>4. CASE i # 1
    <3>1. i - 1 \in 1..n /\ (i - 1) + 1 = i
      BY <2>4
    <3>2. r[i - 1] = q[i]
      BY <3>1
    <3>3. \A j \in ((i - 1) + 1)..n : ~ Begins(r[j])
      BY <2>2, <3>1
    <3> QED BY <2>1, <3>1, <3>2, <3>3 DEF StartedLast
  <2> QED BY <2>3, <2>4
<1>2. ASSUME NoneBegins(q, n + 1)  PROVE NoneBegins(r, n) /\ ~ Begins(q[1])
  <2>1. 1 \in 1..(n + 1) /\ \A i \in 1..n : i + 1 \in 1..(n + 1)
    OBVIOUS
  <2> QED BY <1>2, <2>1 DEF NoneBegins
<1> QED BY <1>1, <1>2

LEMMA LastEnds ==
  ASSUME NEW q \in Seq(Messages), NEW m \in Messages, NEW k, NEW n \in 1..(Len(q) + 1)
  PROVE  /\ EndsWith(q, n, k) => EndsWith(Append(q, m), n, k)
         /\ OnlyOf(q, n, k) /\ InBlock(m, k) => /\ OnlyOf(Append(q, m), n, k)
                                                /\ m.kind = "stopped" => EndsWith(Append(q, m), n, k)
<1> DEFINE last == Len(q) + 1
           r == Append(q, m)
<1>1. /\ last \in Nat /\ r[last] = m /\ (\A i \in DOMAIN q : r[i] = q[i])
      /\ DOMAIN r = DOMAIN q \cup {last} /\ DOMAIN q = 1..Len(q)
  OBVIOUS
<1> HIDE DEF r
<1>2. ASSUME EndsWith(q, n, k)  PROVE EndsWith(r, n, k)
  <2>1. PICK j \in DOMAIN q : /\ n <= j /\ q[j].kind = "stopped" /\ q[j].of = k
                              /\ \A i \in n..j : InBlock(q[i], k)
    BY <1>2 DEF EndsWith
  <2>2. \A i \in n..j : i \in DOMAIN q
    BY <1>1, <2>1
  <2> QED BY <1>1, <2>1, <2>2 DEF EndsWith
<1>3. ASSUME OnlyOf(q, n, k), InBlock(m, k)  PROVE OnlyOf(r, n, k)
  BY <1>1, <1>3 DEF OnlyOf
<1>4. ASSUME OnlyOf(r, n, k), m.kind = "stopped", InBlock(m, k)  PROVE EndsWith(r, n, k)
  <2>1. \A i \in n..last : i \in DOMAIN r /\ n <= i
    BY <1>1
  <2>2. last \in DOMAIN r /\ n <= last
    BY <1>1
  <2>3. \A i \in n..last : InBlock(r[i], k)
    BY <1>4, <2>1 DEF OnlyOf
  <2> QED BY <1>1, <1>4, <2>2, <2>3 DEF EndsWith, InBlock
<1> QED BY <1>2, <1>3, <1>4 DEF r

LEMMA TailEnds ==
  ASSUME NEW q \in Seq(Messages), q # <<>>, NEW k, NEW n \in Nat
  PROVE  /\ EndsWith(q, n + 1, k) /\ n # 0 => EndsWith(Tail(q), n, k)
         /\ OnlyOf(q, n + 1, k) /\ n # 0 => OnlyOf(Tail(q), n, k)
         /\ EndsWith(q, 1, k) => InBlock(q[1], k) /\ (q[1].kind # "stopped" => EndsWith(Tail(q), 1, k))
         /\ OnlyOf(q, 1, k) => InBlock(q[1], k) /\ OnlyOf(Tail(q), 1, k)
<1> DEFINE r == Tail(q)
<1>1. /\ 1 \in DOMAIN q /\ DOMAIN q = 1..Len(q) /\ Len(q) \in Nat
      /\ \A i \in DOMAIN r : i + 1 \in DOMAIN q /\ r[i] = q[i + 1] /\ i \in Nat /\ 1 <= i
      /\ \A i \in DOMAIN q : i # 1 => i - 1 \in DOMAIN r
  OBVIOUS
<1> HIDE DEF r
<1>2. ASSUME NEW a \in Nat, NEW b \in Nat, a <= b + 1, a # 0, OnlyOf(q, a, k), b # 0, a = b \/ a = b + 1
      PROVE  OnlyOf(r, b, k)
  <2>1. ASSUME NEW i \in DOMAIN r, b <= i  PROVE InBlock(r[i], k)
    <3>1. i + 1 \in DOMAIN q /\ a <= i + 1 /\ r[i] = q[i + 1]
      BY <1>1, <1>2, <2>1
    <3> QED BY <1>2, <3>1 DEF OnlyOf
  <2> QED BY <2>1 DEF OnlyOf
<1>3. ASSUME NEW a \in Nat, NEW b \in Nat, EndsWith(q, a, k), b # 0, a = b + 1 \/ (a = 1 /\ b = 1 /\ q[1].kind # "stopped")
      PROVE  EndsWith(r, b, k)
  <2>1. PICK j \in DOMAIN q : /\ a <= j /\ q[j].kind = "stopped" /\ q[j].of = k
                              /\ \A i \in a..j : InBlock(q[i], k)
    BY <1>3 DEF EndsWith
  <2>2. j # 1 /\ j \in Nat
    BY <1>1, <1>3, <2>1
  <2>3. j - 1 \in DOMAIN r /\ b <= j - 1 /\ (j - 1) + 1 = j
    BY <1>1, <1>3, <2>1, <2>2
  <2>4. r[j - 1] = q[j]
    BY <1>1, <2>3
  <2>5. ASSUME NEW i \in b..(j - 1)  PROVE InBlock(r[i], k)
    <3>1. i + 1 \in a..j /\ i + 1 \in DOMAIN q /\ i + 1 # 1
      BY <1>1, <1>3, <2>2, <2>5
    <3>2. i \in DOMAIN r
      <4>1. (i + 1) - 1 \in DOMAIN r
        BY <1>1, <3>1
      <4>2. (i + 1) - 1 = i
        BY <1>3, <2>5
      <4> QED BY <4>1, <4>2
    <3>3. r[i] = q[i + 1]
      BY <1>1, <3>2
    <3> QED BY <2>1, <3>1, <3>3
  <2> QED BY <2>1, <2>3, <2>4, <2>5 DEF EndsWith
<1>4. EndsWith(q, 1, k) => InBlock(q[1], k)
  BY <1>1 DEF EndsWith
<1>5. OnlyOf(q, 1, k) => InBlock(q[1], k)
  BY <1>1 DEF OnlyOf
<1> QED BY <1>2, <1>3, <1>4, <1>5 DEF r

\* A message is posted: it is of the composition, and follows its start.
LEMMA PostPreedit ==
  ASSUME IInv, BlocksBegin, BlocksEnd, NEW m \in Messages, Post(m),
         UNCHANGED <<active, focus, global, current, astray>>,
         m.kind = "changed" => m.text \in {0, m.of},
         im.phase = "off" => m.kind = "started",
         im.phase # "off" => /\ im'.at = im.at /\ InBlock(m, im.at)
                             /\ im'.phase = "off" <=> m.kind = "stopped"
                             /\ m.kind = "stopped" => im.text = 0,
         m.kind = "started" => im'.at = m.of /\ im'.phase # "off",
         im'.text = 0 => Empties(m) \/ m.kind = "stopped"
  PROVE  BlocksBegin' /\ BlocksEnd'
<1> DEFINE last(s) == Len(inbox[s]) + 1
<1>1. ASSUME NEW s \in Surfaces
      PROVE  /\ inbox[s] \in Seq(Messages) /\ Len(inbox[s]) \in Nat /\ Waiting(s) = 1..Len(inbox[s])
             /\ s # active => inbox'[s] = inbox[s]
             /\ s = active => /\ inbox'[s] = Append(inbox[s], m) /\ Len(inbox'[s]) = last(s)
                              /\ Waiting(s)' = Waiting(s) \cup {last(s)} /\ inbox'[s][last(s)] = m
             /\ Waiting(s)' \subseteq Nat
             /\ \A i \in Waiting(s) : i \in Waiting(s)' /\ inbox'[s][i] = inbox[s][i]
             /\ \A i \in Waiting(s)' : i \in Waiting(s) \/ (s = active /\ i = last(s))
  <2>1. inbox[s] \in Seq(Messages)
    BY DEF IInv, TypeOK
  <2>2. inbox'[s] = IF s = active THEN Append(inbox[s], m) ELSE inbox[s]
    BY DEF Post
  <2> DEFINE q == inbox[s]
  <2> HIDE DEF q
  <2>3. /\ Len(q) \in Nat /\ DOMAIN q = 1..Len(q) /\ Len(Append(q, m)) = Len(q) + 1
        /\ DOMAIN Append(q, m) = DOMAIN q \cup {Len(q) + 1} /\ Append(q, m)[Len(q) + 1] = m
        /\ \A i \in DOMAIN q : Append(q, m)[i] = q[i]
    BY <2>1 DEF q
  <2> QED BY <2>1, <2>2, <2>3 DEF q, Waiting
<1>2. None \notin Surfaces /\ (m.kind \in {"changed", "stopped"} => im.phase # "off" /\ m.of = im.at)
        /\ (m.kind = "started" => ~ InBlock(m, im.at))
  BY SurfacesAssumption DEF InBlock
\* What came first comes first still.
<1>3. ASSUME NEW s \in Surfaces, NEW n \in 0..Len(inbox[s]), NEW k
      PROVE  /\ FollowsStart(s, n, k) => FollowsStart(s, n, k)'
             /\ FollowsEmpty(s, n) => FollowsEmpty(s, n)'
  <2>1. n \in Nat /\ \A j \in 1..n : inbox'[s][j] = inbox[s][j]
    BY <1>1
  <2>2. FollowsStart(s, n, k) => FollowsStart(s, n, k)'
    BY <2>1, SamePrefix DEF FollowsStart
  <2>3. n # 0 => inbox'[s][n] = inbox[s][n]
    BY <2>1
  <2>4. FollowsEmpty(s, n) => FollowsEmpty(s, n)'
    BY <2>3 DEF FollowsEmpty, Empties
  <2> QED BY <2>2, <2>4
<1>4. ASSUME active \in Surfaces, NEW n, n = Len(inbox[active]), Composing
      PROVE  FollowsStart(active, n, im.at)' /\ (im.text = 0 => FollowsEmpty(active, n)')
  <2>1. FollowsStart(active, n, im.at) /\ (im.text = 0 => FollowsEmpty(active, n)) /\ n \in 0..Len(inbox[active])
    BY <1>1, <1>4 DEF BlocksBegin
  <2>2. im'.at = im.at
    BY <1>4 DEF Composing
  <2> QED BY <1>3, <1>4, <2>1, <2>2 DEF FollowsStart
<1>5. BlocksBegin'
  <2>1. ASSUME NEW s \in Surfaces, NEW i \in Waiting(s)', NEW b, inbox'[s][i] = b, NEW n, n = i - 1
        PROVE  /\ b.kind \in {"changed", "stopped"} /\ b.of \notin astray => FollowsStart(s, n, b.of)'
               /\ b.kind = "stopped" /\ b.of \notin astray => FollowsEmpty(s, n)'
               /\ b.kind = "changed" => b.text \in {0, b.of}
    <3>1. CASE i \in Waiting(s)
      <4>1. inbox[s][i] = b /\ n \in 0..Len(inbox[s])
        BY <1>1, <2>1, <3>1
      <4>2. /\ b.kind \in {"changed", "stopped"} /\ b.of \notin astray => FollowsStart(s, n, b.of)
            /\ b.kind = "stopped" /\ b.of \notin astray => FollowsEmpty(s, n)
            /\ b.kind = "changed" => b.text \in {0, b.of}
        BY <2>1, <3>1, <4>1 DEF BlocksBegin
      <4> QED BY <1>3, <4>1, <4>2
    <3>2. CASE s = active /\ i = last(s)
      <4>1. b = m /\ n = Len(inbox[s]) /\ s \in Surfaces
        BY <1>1, <2>1, <3>2
      <4>2. ASSUME m.kind \in {"changed", "stopped"}, m.of \notin astray
            PROVE  FollowsStart(s, n, m.of)' /\ (m.kind = "stopped" => FollowsEmpty(s, n)')
        <5>1. Composing /\ m.of = im.at /\ im'.at = im.at /\ (m.kind = "stopped" => im.text = 0)
          BY <1>2, <3>2, <4>2 DEF Composing
        <5>2. FollowsStart(active, n, im.at)' /\ (im.text = 0 => FollowsEmpty(active, n)')
          BY <1>4, <3>2, <4>1, <5>1
        <5> QED BY <3>2, <5>1, <5>2 DEF FollowsStart, FollowsEmpty
      <4> QED BY <4>1, <4>2
    <3> QED BY <1>1, <3>1, <3>2
  <2>2. ASSUME Composing', NEW n, n = Len(inbox'[active])
        PROVE  FollowsStart(active, n, im.at)'
    <3>1. active \in Surfaces /\ im'.phase # "off" /\ im'.at \notin astray
      BY <2>2 DEF Composing
    <3>2. n = last(active) /\ inbox'[active] = Append(inbox[active], m) /\ inbox[active] \in Seq(Messages)
      BY <1>1, <2>2, <3>1
    <3>3. CASE m.kind = "started"
      <4>1. StartedLast(inbox'[active], n, im'.at)
        BY <3>2, <3>3, LastStarts
      <4> QED BY <4>1 DEF FollowsStart
    <3>4. CASE m.kind # "started"
      <4>1. im.phase # "off" /\ InBlock(m, im.at) /\ im'.at = im.at /\ ~ Begins(m)
        BY <3>4 DEF InBlock, Begins
      <4>2. FollowsStart(active, Len(inbox[active]), im.at)
        BY <3>1, <4>1 DEF BlocksBegin, Composing
      <4>3. CASE StartedLast(inbox[active], Len(inbox[active]), im.at)
        <5>1. StartedLast(inbox'[active], n, im'.at)
          BY <3>2, <4>1, <4>3, LastStarts
        <5> QED BY <5>1 DEF FollowsStart
      <4>4. CASE NoneBegins(inbox[active], Len(inbox[active])) /\ (focus = active /\ global.active => current = im.at)
        <5>1. NoneBegins(inbox'[active], n)
          BY <3>2, <4>1, <4>4, LastStarts
        <5> QED BY <4>1, <4>4, <5>1 DEF FollowsStart
      <4> QED BY <4>2, <4>3, <4>4 DEF FollowsStart
    <3> QED BY <3>3, <3>4
  <2>3. ASSUME Composing', im'.text = 0, NEW n, n = Len(inbox'[active])  PROVE FollowsEmpty(active, n)'
    <3>1. active \in Surfaces /\ im'.phase # "off"
      BY <2>3 DEF Composing
    <3>2. Empties(m)
      BY <2>3, <3>1, MessageKinds DEF InBlock
    <3>3. n # 0 /\ inbox'[active][n] = m
      BY <1>1, <2>3, <3>1
    <3> QED BY <3>2, <3>3 DEF FollowsEmpty, Empties
  <2>4. \A s \in Surfaces : \A i \in Waiting(s)' :
          /\ inbox'[s][i].kind \in {"changed", "stopped"} /\ inbox'[s][i].of \notin astray =>
               FollowsStart(s, i - 1, inbox[s][i].of)'
          /\ inbox'[s][i].kind = "stopped" /\ inbox'[s][i].of \notin astray => FollowsEmpty(s, i - 1)'
          /\ inbox'[s][i].kind = "changed" => inbox'[s][i].text \in {0, inbox'[s][i].of}
    BY <2>1 DEF FollowsStart
  <2>5. Composing' => FollowsStart(active, Len(inbox[active]), im.at)'
    BY <2>2 DEF FollowsStart
  <2>6. Composing' /\ im'.text = 0 => FollowsEmpty(active, Len(inbox[active]))'
    BY <2>3 DEF FollowsEmpty, Empties
  <2> QED BY <2>4, <2>5, <2>6 DEF BlocksBegin
<1>6. ASSUME NEW s \in Surfaces, NEW n \in 1..(Len(inbox[s]) + 1), NEW k, BlockFrom(s, n, k)
      PROVE  BlockFrom(s, n, k)'
  <2>1. CASE EndsWith(inbox[s], n, k)
    <3>1. CASE s = active
      BY <1>1, <2>1, <3>1, LastEnds DEF BlockFrom
    <3>2. CASE s # active
      BY <1>1, <2>1, <3>2 DEF BlockFrom
    <3> QED BY <3>1, <3>2
  <2>2. CASE im.phase # "off" /\ im.at = k /\ active = s /\ OnlyOf(inbox[s], n, k)
    <3>1. inbox'[s] = Append(inbox[s], m) /\ inbox[s] \in Seq(Messages) /\ InBlock(m, k)
      BY <1>1, <2>2
    <3>2. OnlyOf(inbox'[s], n, k) /\ (m.kind = "stopped" => EndsWith(inbox'[s], n, k))
      BY <2>2, <3>1, LastEnds
    <3> QED BY <2>2, <3>2 DEF BlockFrom
  <2> QED BY <1>6, <2>1, <2>2 DEF BlockFrom
<1>7. BlocksEnd'
  <2>1. ASSUME NEW s \in Surfaces, NEW i \in Waiting(s)', inbox'[s][i].kind = "started", inbox'[s][i].of \notin astray
        PROVE  \A k : k = inbox'[s][i].of => BlockFrom(s, i + 1, k)'
    <3>1. CASE i \in Waiting(s)
      <4>1. i + 1 \in 1..(Len(inbox[s]) + 1) /\ inbox'[s][i] = inbox[s][i]
        BY <1>1, <3>1
      <4>2. BlockFrom(s, i + 1, inbox[s][i].of)
        BY <2>1, <3>1, <4>1 DEF BlocksEnd
      <4> QED BY <1>6, <4>1, <4>2
    <3>2. CASE s = active /\ i = last(s)
      <4>1. inbox'[s][i] = m /\ im'.at = m.of /\ im'.phase # "off"
        BY <1>1, <2>1, <3>2
      <4>2. DOMAIN inbox'[s] = 1..last(s) /\ last(s) \in Nat
        BY <1>1, <3>2 DEF Waiting
      <4>3. OnlyOf(inbox'[s], i + 1, m.of)
        BY <3>2, <4>2 DEF OnlyOf
      <4> QED BY <3>2, <4>1, <4>3 DEF BlockFrom
    <3> QED BY <1>1, <3>1, <3>2
  <2>2. ASSUME global.active, current \notin astray
        PROVE  focus \in Surfaces /\ BlockFrom(focus, 1, current)'
    <3>1. focus \in Surfaces /\ BlockFrom(focus, 1, current)
      BY <2>2 DEF BlocksEnd
    <3>2. 1 \in 1..(Len(inbox[focus]) + 1)
      BY <1>1, <3>1
    <3> QED BY <1>6, <3>1, <3>2
  <2> QED BY <2>1, <2>2 DEF BlocksEnd, BlockFrom
<1> QED BY <1>5, <1>7

\* The first message of a window is handled.
LEMMA TakenBegins ==
  ASSUME IInv, BlocksBegin, NEW s \in Surfaces, Taken(s), UNCHANGED <<im, active>>, astray \subseteq astray',
         First(s).kind = "started" /\ First(s).of \notin astray' /\ focus' = s /\ global'.active =>
           current' = First(s).of,
         ~ Begins(First(s)) /\ focus' = s /\ global'.active => focus = s /\ global.active /\ current' = current,
         Empties(First(s)) /\ focus' = s /\ global'.active => global'.text \in {0} \cup astray',
         First(s).kind = "stopped" => ~ (focus' = s /\ global'.active),
         \A w \in Surfaces \ {s} : focus' = w /\ global'.active =>
           focus = w /\ global.active /\ current' = current /\ global'.text = global.text
  PROVE  BlocksBegin'
<1> DEFINE head == First(s)
<1>1. /\ head = inbox[s][1] /\ head \in Messages /\ Len(inbox'[s]) = Len(inbox[s]) - 1 /\ Len(inbox[s]) \in Nat
      /\ Len(inbox'[s]) \in Nat
      /\ Waiting(s)' = 1..Len(inbox'[s]) /\ Waiting(s) = 1..Len(inbox[s])
      /\ \A i \in 1..Len(inbox'[s]) : i \in Nat /\ i + 1 \in Waiting(s) /\ inbox'[s][i] = inbox[s][i + 1]
      /\ \A w \in Surfaces \ {s} : inbox'[w] = inbox[w] /\ Waiting(w)' = Waiting(w)
  <2>1. inbox[s] \in Seq(Messages) /\ inbox[s] # <<>> /\ inbox'[s] = Tail(inbox[s])
    BY DEF Taken, IInv, TypeOK
  <2> DEFINE q == inbox[s]
  <2> HIDE DEF q
  <2>2. /\ Len(Tail(q)) = Len(q) - 1 /\ Len(q) \in Nat /\ Len(Tail(q)) \in Nat /\ DOMAIN Tail(q) = 1..Len(Tail(q))
        /\ DOMAIN q = 1..Len(q) /\ \A i \in 1..Len(Tail(q)) : i \in Nat /\ i + 1 \in DOMAIN q /\ Tail(q)[i] = q[i + 1]
    BY <2>1 DEF q
  <2> QED BY <2>1, <2>2, TakenFirst DEF q, Waiting
<1> HIDE DEF head
\* What came before a message of the window that is left.
<1>2. ASSUME NEW n \in 0..Len(inbox'[s]), NEW k, k \notin astray', FollowsStart(s, n + 1, k)
      PROVE  FollowsStart(s, n, k)'
  <2>1. n \in Nat /\ \A i \in 1..n : inbox'[s][i] = inbox[s][i + 1]
    BY <1>1
  <2>2. CASE StartedLast(inbox[s], n + 1, k)
    <3>1. \/ StartedLast(inbox'[s], n, k)
          \/ NoneBegins(inbox'[s], n) /\ head.kind = "started" /\ head.of = k
      <4>1. \/ StartedLast(inbox'[s], n, k)
            \/ NoneBegins(inbox'[s], n) /\ inbox[s][1].kind = "started" /\ inbox[s][1].of = k
        BY <2>1, <2>2, TailStarts, SMTT(30)
      <4>2. head = inbox[s][1]
        BY <1>1
      <4> QED BY <4>1, <4>2
    <3> QED BY <1>2, <3>1 DEF head, FollowsStart
  <2>3. CASE NoneBegins(inbox[s], n + 1) /\ (focus = s /\ global.active => current = k)
    <3>1. NoneBegins(inbox'[s], n) /\ ~ Begins(head)
      BY <1>1, <2>1, <2>3, TailStarts
    <3> QED BY <2>3, <3>1 DEF head, FollowsStart
  <2> QED BY <1>2, <2>2, <2>3 DEF FollowsStart
<1>3. ASSUME NEW n \in 0..Len(inbox'[s]), FollowsEmpty(s, n + 1)  PROVE FollowsEmpty(s, n)'
  <2>1. n \in Nat /\ n + 1 # 0 /\ Empties(inbox[s][n + 1])
    BY <1>1, <1>3 DEF FollowsEmpty
  <2>2. CASE n = 0
    <3>1. Empties(head)
      BY <1>1, <2>1, <2>2
    <3> QED BY <2>2, <3>1 DEF head, FollowsEmpty
  <2>3. CASE n # 0
    <3>1. inbox'[s][n] = inbox[s][n + 1]
      BY <1>1, <2>1, <2>3
    <3> QED BY <2>1, <2>3, <3>1 DEF FollowsEmpty, Empties
  <2> QED BY <2>2, <2>3
\* The other windows.
<1>4. ASSUME NEW w \in Surfaces \ {s}, NEW n, NEW k
      PROVE  /\ FollowsStart(w, n, k) => FollowsStart(w, n, k)'
             /\ FollowsEmpty(w, n) => FollowsEmpty(w, n)'
  BY <1>1 DEF FollowsStart, FollowsEmpty, Empties
<1>5. ASSUME NEW w \in Surfaces, NEW i \in Waiting(w)', NEW b, inbox'[w][i] = b, NEW n, n = i - 1
      PROVE  /\ b.kind \in {"changed", "stopped"} /\ b.of \notin astray' => FollowsStart(w, n, b.of)'
             /\ b.kind = "stopped" /\ b.of \notin astray' => FollowsEmpty(w, n)'
             /\ b.kind = "changed" => b.text \in {0, b.of}
  <2>1. CASE w = s
    <3>1. i + 1 \in Waiting(s) /\ inbox[s][i + 1] = b /\ n \in 0..Len(inbox'[s]) /\ (i + 1) - 1 = n + 1
      <4>1. i \in 1..Len(inbox'[s]) /\ inbox'[s][i] = b /\ Len(inbox'[s]) \in Nat
        BY <1>1, <1>5, <2>1
      <4>2. i \in Nat /\ i + 1 \in Waiting(s) /\ inbox[s][i + 1] = b
        BY <1>1, <4>1
      <4>3. i - 1 \in 0..Len(inbox'[s]) /\ (i + 1) - 1 = (i - 1) + 1
        BY <4>1, <4>2
      <4> QED BY <1>5, <4>2, <4>3
    <3>2. /\ b.kind \in {"changed", "stopped"} /\ b.of \notin astray => FollowsStart(s, n + 1, b.of)
          /\ b.kind = "stopped" /\ b.of \notin astray => FollowsEmpty(s, n + 1)
          /\ b.kind = "changed" => b.text \in {0, b.of}
      BY <3>1 DEF BlocksBegin
    <3> QED BY <1>2, <1>3, <2>1, <3>1, <3>2
  <2>2. CASE w # s
    <3>1. i \in Waiting(w) /\ inbox[w][i] = b
      BY <1>1, <1>5, <2>2
    <3>2. /\ b.kind \in {"changed", "stopped"} /\ b.of \notin astray => FollowsStart(w, n, b.of)
          /\ b.kind = "stopped" /\ b.of \notin astray => FollowsEmpty(w, n)
          /\ b.kind = "changed" => b.text \in {0, b.of}
      BY <1>5, <3>1 DEF BlocksBegin
    <3> QED BY <1>4, <2>2, <3>2
  <2> QED BY <2>1, <2>2
<1>6. ASSUME Composing', NEW n, n = Len(inbox'[active])
      PROVE  FollowsStart(active, n, im.at)' /\ (im.text = 0 => FollowsEmpty(active, n)')
  <2>1. Composing /\ active \in Surfaces /\ im.at \notin astray'
    BY <1>6 DEF Composing
  <2>2. FollowsStart(active, Len(inbox[active]), im.at) /\ (im.text = 0 => FollowsEmpty(active, Len(inbox[active])))
    BY <2>1 DEF BlocksBegin
  <2>3. CASE active = s
    <3>1. n \in 0..Len(inbox'[s]) /\ Len(inbox[s]) = n + 1
      BY <1>1, <1>6, <2>3
    <3>2. FollowsStart(s, n, im.at)' /\ (im.text = 0 => FollowsEmpty(s, n)')
      <4>1. ASSUME NEW k, k = im.at  PROVE FollowsStart(s, n, k)'
        BY <1>2, <2>1, <2>2, <2>3, <3>1, <4>1
      <4>2. im.text = 0 => FollowsEmpty(s, n)'
        BY <1>3, <2>2, <2>3, <3>1
      <4> QED BY <4>1, <4>2 DEF FollowsStart
    <3> QED BY <2>3, <3>2 DEF FollowsStart, FollowsEmpty, Empties
  <2>4. CASE active # s
    <3>1. n = Len(inbox[active])
      BY <1>1, <1>6, <2>1, <2>4
    <3>2. FollowsStart(active, n, im.at)' /\ (im.text = 0 => FollowsEmpty(active, n)')
      <4>1. ASSUME NEW w \in Surfaces \ {s}, w = active, NEW k, k = im.at
            PROVE  FollowsStart(w, n, k)' /\ (im.text = 0 => FollowsEmpty(w, n)')
        BY <1>4, <2>2, <3>1, <4>1
      <4> QED BY <2>1, <2>4, <4>1 DEF FollowsStart, FollowsEmpty, Empties
    <3> QED BY <3>2
  <2> QED BY <2>3, <2>4
<1>7. \A w \in Surfaces : \A i \in Waiting(w)' :
        /\ inbox'[w][i].kind \in {"changed", "stopped"} /\ inbox'[w][i].of \notin astray' =>
             FollowsStart(w, i - 1, inbox[w][i].of)'
        /\ inbox'[w][i].kind = "stopped" /\ inbox'[w][i].of \notin astray' => FollowsEmpty(w, i - 1)'
        /\ inbox'[w][i].kind = "changed" => inbox'[w][i].text \in {0, inbox'[w][i].of}
  BY <1>5 DEF FollowsStart
<1>8. Composing' => FollowsStart(active, Len(inbox[active]), im.at)'
  BY <1>6 DEF FollowsStart
<1>9. Composing' /\ im'.text = 0 => FollowsEmpty(active, Len(inbox[active]))'
  BY <1>6 DEF FollowsEmpty, Empties
<1> QED BY <1>7, <1>8, <1>9 DEF BlocksBegin

LEMMA TakenEnds ==
  ASSUME IInv, BlocksEnd, NEW s \in Surfaces, Taken(s), UNCHANGED <<im, active>>, astray \subseteq astray',
         global'.active /\ current' \notin astray' =>
           /\ focus' = focus
           /\ \/ global.active /\ current' = current /\ (focus = s => First(s).kind # "stopped")
              \/ focus = s /\ First(s).kind = "started" /\ First(s).of = current'
  PROVE  BlocksEnd'
<1>1. /\ inbox[s] \in Seq(Messages) /\ inbox[s] # <<>> /\ inbox'[s] = Tail(inbox[s]) /\ First(s) = inbox[s][1]
      /\ 1 \in Waiting(s) /\ \A i \in Waiting(s)' : i \in Nat /\ 1 <= i /\ i + 1 \in Waiting(s) /\ inbox'[s][i] = inbox[s][i + 1]
      /\ \A w \in Surfaces \ {s} : inbox'[w] = inbox[w] /\ Waiting(w)' = Waiting(w)
  <2>1. inbox[s] \in Seq(Messages) /\ inbox[s] # <<>> /\ inbox'[s] = Tail(inbox[s])
    BY DEF Taken, IInv, TypeOK
  <2> QED BY <2>1, TakenFirst
<1>2. ASSUME NEW n \in Nat, n # 0, NEW k
      PROVE  /\ BlockFrom(s, n + 1, k) => BlockFrom(s, n, k)'
             /\ BlockFrom(s, 1, k) /\ First(s).kind # "stopped" => BlockFrom(s, 1, k)'
  BY <1>1, <1>2, TailEnds DEF BlockFrom
<1>3. ASSUME NEW w \in Surfaces \ {s}, NEW n, NEW k, BlockFrom(w, n, k)  PROVE BlockFrom(w, n, k)'
  BY <1>1, <1>3 DEF BlockFrom
<1>4. ASSUME NEW w \in Surfaces, NEW i \in Waiting(w)', NEW k, k \notin astray',
             inbox'[w][i].kind = "started", inbox'[w][i].of = k
      PROVE  BlockFrom(w, i + 1, k)'
  <2>1. CASE w = s
    <3>1. i + 1 \in Waiting(s) /\ inbox'[s][i] = inbox[s][i + 1] /\ i + 1 \in Nat /\ i + 1 # 0
      <4>1. i \in Waiting(s)'
        BY <1>4, <2>1
      <4>2. i \in Nat /\ i + 1 \in Waiting(s) /\ inbox'[s][i] = inbox[s][i + 1]
        BY <1>1, <4>1
      <4> QED BY <4>2
    <3>2. BlockFrom(s, (i + 1) + 1, k)
      BY <1>4, <2>1, <3>1 DEF BlocksEnd
    <3> QED BY <1>2, <2>1, <3>1, <3>2
  <2>2. CASE w # s
    <3>1. BlockFrom(w, i + 1, k)
      BY <1>1, <1>4, <2>2 DEF BlocksEnd
    <3> QED BY <1>3, <2>2, <3>1
  <2> QED BY <2>1, <2>2
<1>5. ASSUME global'.active, NEW k, k \notin astray', k = current', NEW f, f = focus'
      PROVE  f \in Surfaces /\ BlockFrom(f, 1, k)'
  <2>1. CASE global.active /\ current' = current /\ focus' = focus /\ (focus = s => First(s).kind # "stopped")
    <3>1. f \in Surfaces /\ BlockFrom(f, 1, k)
      BY <1>5, <2>1 DEF BlocksEnd
    <3>2. f = s => First(s).kind # "stopped" /\ 1 \in Nat /\ 1 # 0
      BY <1>5, <2>1
    <3> QED BY <1>2, <1>3, <3>1, <3>2
  <2>2. CASE focus = s /\ focus' = focus /\ First(s).kind = "started" /\ First(s).of = current'
    <3>1. BlockFrom(s, 1 + 1, k)
      BY <1>1, <1>5, <2>2 DEF BlocksEnd
    <3>2. 1 \in Nat /\ 1 # 0
      OBVIOUS
    <3> QED BY <1>2, <1>5, <2>2, <3>1, <3>2
  <2> QED BY <1>5, <2>1, <2>2
<1>6. \A w \in Surfaces : \A i \in Waiting(w)' :
        inbox'[w][i].kind = "started" /\ inbox'[w][i].of \notin astray' => BlockFrom(w, i + 1, inbox[w][i].of)'
  BY <1>4 DEF BlockFrom
<1>7. global'.active /\ current' \notin astray' => focus' \in Surfaces /\ BlockFrom(focus, 1, current)'
  BY <1>5 DEF BlockFrom
<1> QED BY <1>6, <1>7 DEF BlocksEnd

\* No message of the input method comes or goes.
LEMMA KeptPreedit ==
  ASSUME IInv, BlocksBegin, BlocksEnd, focus' = focus, astray \subseteq astray',
         global'.active => global.active /\ current' = current /\ global'.text = global.text,
         \A s \in Surfaces : /\ \A i \in Waiting(s) : i \in Waiting(s)' /\ inbox'[s][i] = inbox[s][i]
                             /\ \A i \in Waiting(s)' : i \in Waiting(s) \/ Activation(inbox'[s][i]),
         \/ UNCHANGED <<im, inbox, active>>
         \/ (im'.phase = "off" \/ im'.at \in astray') /\ (im.phase = "off" \/ im.at \in astray')
  PROVE  BlocksBegin' /\ BlocksEnd'
<1>1. ASSUME NEW s \in Surfaces, NEW n \in 0..Len(inbox[s]), NEW k
      PROVE  /\ FollowsStart(s, n, k) => FollowsStart(s, n, k)'
             /\ FollowsEmpty(s, n) => FollowsEmpty(s, n)'
  <2>1. n \in Nat /\ \A j \in 1..n : inbox'[s][j] = inbox[s][j]
    BY WaitingTypes
  <2>2. FollowsStart(s, n, k) => FollowsStart(s, n, k)'
    BY <2>1, SamePrefix DEF FollowsStart
  <2>3. n # 0 => inbox'[s][n] = inbox[s][n]
    BY <2>1
  <2>4. FollowsEmpty(s, n) => FollowsEmpty(s, n)'
    BY <2>3 DEF FollowsEmpty, Empties
  <2> QED BY <2>2, <2>4
<1>2. ASSUME NEW s \in Surfaces, NEW i \in Waiting(s)', NEW b, inbox'[s][i] = b, NEW n, n = i - 1
      PROVE  /\ b.kind \in {"changed", "stopped"} /\ b.of \notin astray' => FollowsStart(s, n, b.of)'
             /\ b.kind = "stopped" /\ b.of \notin astray' => FollowsEmpty(s, n)'
             /\ b.kind = "changed" => b.text \in {0, b.of}
  <2>1. CASE i \in Waiting(s)
    <3>1. inbox[s][i] = b
      BY <1>2, <2>1
    <3>2. n \in 0..Len(inbox[s])
      BY <1>2, <2>1, WaitingTypes
    <3>3. /\ b.kind \in {"changed", "stopped"} /\ b.of \notin astray => FollowsStart(s, n, b.of)
          /\ b.kind = "stopped" /\ b.of \notin astray => FollowsEmpty(s, n)
          /\ b.kind = "changed" => b.text \in {0, b.of}
      BY <1>2, <2>1, <3>1 DEF BlocksBegin
    <3> QED BY <1>1, <3>2, <3>3
  <2>2. CASE i \notin Waiting(s)
    BY <1>2, <2>2 DEF Activation
  <2> QED BY <2>1, <2>2
<1>3. ASSUME Composing', NEW n, n = Len(inbox'[active'])
      PROVE  FollowsStart(active, n, im.at)' /\ (im'.text = 0 => FollowsEmpty(active, n)')
  <2>1. UNCHANGED <<im, inbox, active>> /\ Composing /\ active \in Surfaces
    BY <1>3 DEF Composing
  <2>2. FollowsStart(active, n, im.at) /\ (im.text = 0 => FollowsEmpty(active, n)) /\ n \in 0..Len(inbox[active])
    BY <1>3, <2>1, WaitingTypes DEF BlocksBegin
  <2>3. ASSUME NEW s \in Surfaces, s = active, NEW k, k = im.at
        PROVE  FollowsStart(s, n, k)' /\ (im.text = 0 => FollowsEmpty(s, n)')
    BY <1>1, <2>2, <2>3
  <2> QED BY <2>1, <2>3 DEF FollowsStart, FollowsEmpty, Empties
<1>4. BlocksBegin'
  <2>1. \A s \in Surfaces : \A i \in Waiting(s)' :
          /\ inbox'[s][i].kind \in {"changed", "stopped"} /\ inbox'[s][i].of \notin astray' =>
               FollowsStart(s, i - 1, inbox[s][i].of)'
          /\ inbox'[s][i].kind = "stopped" /\ inbox'[s][i].of \notin astray' => FollowsEmpty(s, i - 1)'
          /\ inbox'[s][i].kind = "changed" => inbox'[s][i].text \in {0, inbox'[s][i].of}
    BY <1>2 DEF FollowsStart
  <2>2. Composing' => FollowsStart(active, Len(inbox[active]), im.at)'
    BY <1>3 DEF FollowsStart
  <2>3. Composing' /\ im'.text = 0 => FollowsEmpty(active, Len(inbox[active]))'
    BY <1>3 DEF FollowsEmpty, Empties
  <2> QED BY <2>1, <2>2, <2>3 DEF BlocksBegin
<1>5. ASSUME NEW s \in Surfaces, NEW n \in Nat, NEW k, k \notin astray', n # 0, BlockFrom(s, n, k)
      PROVE  BlockFrom(s, n, k)'
  <2>1. CASE EndsWith(inbox[s], n, k)
    <3>1. PICK j \in Waiting(s) : /\ n <= j /\ inbox[s][j].kind = "stopped" /\ inbox[s][j].of = k
                                  /\ \A i \in n..j : InBlock(inbox[s][i], k)
      BY <2>1 DEF EndsWith, Waiting
    <3>2. \A i \in n..j : i \in Waiting(s)
      BY <1>5, <3>1, WaitingTypes
    <3>3. \A i \in n..j : InBlock(inbox'[s][i], k)
      BY <3>1, <3>2
    <3>4. EndsWith(inbox'[s], n, k)
      BY <3>1, <3>3 DEF EndsWith, Waiting
    <3> QED BY <3>4 DEF BlockFrom
  <2>2. CASE im.phase # "off" /\ im.at = k /\ active = s /\ OnlyOf(inbox[s], n, k)
    BY <1>5, <2>2 DEF BlockFrom
  <2> QED BY <1>5, <2>1, <2>2 DEF BlockFrom
<1>6. ASSUME NEW s \in Surfaces, NEW i \in Waiting(s)', NEW k, k \notin astray',
             inbox'[s][i].kind = "started", inbox'[s][i].of = k
      PROVE  BlockFrom(s, i + 1, k)'
  <2>1. i \in Waiting(s) /\ inbox'[s][i] = inbox[s][i]
    BY <1>6 DEF Activation
  <2>2. i + 1 \in Nat /\ i + 1 # 0
    BY <2>1, WaitingTypes
  <2>3. BlockFrom(s, i + 1, k)
    BY <1>6, <2>1 DEF BlocksEnd
  <2> QED BY <1>5, <1>6, <2>2, <2>3
<1>7. ASSUME global'.active, NEW k, k \notin astray', k = current'
      PROVE  focus \in Surfaces /\ BlockFrom(focus, 1, k)'
  <2>1. focus \in Surfaces /\ BlockFrom(focus, 1, k)
    BY <1>7 DEF BlocksEnd
  <2>2. ASSUME NEW s \in Surfaces, s = focus  PROVE BlockFrom(s, 1, k)'
    BY <1>5, <1>7, <2>1, <2>2
  <2> QED BY <2>1, <2>2 DEF BlockFrom
<1>8. \A s \in Surfaces : \A i \in Waiting(s)' :
        inbox'[s][i].kind = "started" /\ inbox'[s][i].of \notin astray' => BlockFrom(s, i + 1, inbox[s][i].of)'
  BY <1>6 DEF BlockFrom
<1>9. global'.active /\ current' \notin astray' => focus' \in Surfaces /\ BlockFrom(focus, 1, current)'
  BY <1>7 DEF BlockFrom
<1>10. BlocksEnd'
  BY <1>8, <1>9 DEF BlocksEnd
<1> QED BY <1>4, <1>10

\* What is shown when a text input is told the state g.
LEMMA SendStateShows ==
  ASSUME TypeOK, NEW g \in Globals, NEW t \in Texts
  PROVE  SendState(g, t).preedit = IF g.active /\ ~ g.confirmed THEN g.text ELSE 0
<1>1. told[t] \in Pictures
  BY DEF TypeOK, Pictures
<1>2. \A p, c : [told[t] EXCEPT !.preedit = p, !.committed = c].preedit = p
  BY <1>1 DEF Pictures
<1> QED BY <1>2 DEF SendState

LEMMA ActivatePreedit == ASSUME IInv, PreeditInv, NEW w \in Focus, Activate(w)  PROVE PreeditInv'
<1>1. ASSUME NEW s \in Surfaces
      PROVE  /\ \A i \in Waiting(s) : i \in Waiting(s)' /\ inbox'[s][i] = inbox[s][i]
             /\ \A i \in Waiting(s)' : i \in Waiting(s) \/ Activation(inbox'[s][i])
  <2>1. /\ Waiting(s)' = IF s \in {active, w} THEN Waiting(s) \cup {Len(inbox[s]) + 1} ELSE Waiting(s)
        /\ \A i \in Waiting(s) : inbox'[s][i] = inbox[s][i] /\ i < Len(inbox[s]) + 1
        /\ s \in {active, w} =>
             inbox'[s][Len(inbox[s]) + 1] = [kind |-> "activated", on |-> s = w, turn |-> switches + 1]
    BY ActivatedLast, Zenon
  <2>2. s \in {active, w} => Activation(inbox'[s][Len(inbox[s]) + 1])
    BY <2>1 DEF Activation
  <2> QED BY <2>1, <2>2
<1>2. UNCHANGED <<im, focus, global, current, told, inputs>> /\ astray \subseteq astray'
        /\ (im.phase = "off" \/ im.at \in astray')
  BY DEF Activate, clientVars
<1>3. BlocksBegin' /\ BlocksEnd'
  BY <1>1, <1>2, KeptPreedit DEF PreeditInv
<1>4. ShownIsCurrent'
  BY <1>2 DEF PreeditInv, ShownIsCurrent
<1> QED BY <1>3, <1>4 DEF PreeditInv

LEMMA InputMethodPreedit == ASSUME IInv, PreeditInv, InputMethod  PROVE PreeditInv'
<1>1. /\ im \in [at : Contents, phase : {"off", "composing", "confirmed"}, text : Contents]
      /\ im.phase # "off" => im.at \in Compositions
  BY DEF IInv, TypeOK, CompositionsAreNamed
<1>2. ASSUME UNCHANGED <<global, current, told, inputs>>, astray \subseteq astray'  PROVE ShownIsCurrent'
  BY <1>2 DEF PreeditInv, ShownIsCurrent
<1>3. CASE StartComposition
  <2>1. im'.at = im.at + 1 /\ im'.at \in Compositions /\ im'.phase = "composing" /\ im.phase = "off"
    BY <1>1, <1>3, Bounds DEF StartComposition, Compositions, Contents
  <2> DEFINE m == [kind |-> "started", of |-> im'.at]
  <2>2. m \in Messages /\ Post(m) /\ m.kind = "started" /\ m.of = im'.at /\ Empties(m)
    BY <1>3, <2>1 DEF StartComposition, Messages, Empties
  <2>3. UNCHANGED <<active, focus, global, current, astray, told, inputs>>
    BY <1>3 DEF StartComposition, userVars, clientVars, ghostVars
  <2> HIDE DEF m
  <2>4. BlocksBegin' /\ BlocksEnd'
    BY <2>1, <2>2, <2>3, PostPreedit DEF PreeditInv
  <2> QED BY <1>2, <2>3, <2>4 DEF PreeditInv
<1>4. ASSUME NEW text \in Contents, NEW confirmed \in BOOLEAN, ChangeComposition(text, confirmed)
      PROVE  PreeditInv'
  <2> DEFINE m == [kind |-> "changed", of |-> im.at, text |-> text, confirmed |-> confirmed]
  <2>1. /\ m \in Messages /\ Post(m) /\ m.kind = "changed" /\ m.of = im.at /\ m.text = text
        /\ m.confirmed = confirmed
    BY <1>1, <1>4 DEF ChangeComposition, Messages
  <2>2. /\ im.phase = "composing" /\ text \in {0, im.at} /\ im'.at = im.at /\ im'.phase # "off"
        /\ ~ confirmed => im'.text = text
    BY <1>1, <1>4 DEF ChangeComposition
  <2>3. UNCHANGED <<active, focus, global, current, astray, told, inputs>>
    BY <1>4 DEF ChangeComposition, userVars, clientVars, ghostVars
  <2> HIDE DEF m
  <2>4. InBlock(m, im.at) /\ (im'.text = 0 => Empties(m))
    BY <2>1, <2>2 DEF InBlock, Empties
  <2>5. BlocksBegin' /\ BlocksEnd'
    BY <2>1, <2>2, <2>3, <2>4, PostPreedit DEF PreeditInv
  <2> QED BY <1>2, <2>3, <2>5 DEF PreeditInv
<1>5. CASE StopComposition
  <2> DEFINE m == [kind |-> "stopped", of |-> im.at]
  <2>1. m \in Messages /\ Post(m) /\ m.kind = "stopped" /\ m.of = im.at
    BY <1>1, <1>5 DEF StopComposition, Messages
  <2>2. im.phase # "off" /\ im.text = 0 /\ im'.at = im.at /\ im'.phase = "off"
    BY <1>1, <1>5 DEF StopComposition
  <2>3. UNCHANGED <<active, focus, global, current, astray, told, inputs>>
    BY <1>5 DEF StopComposition, userVars, clientVars, ghostVars
  <2> HIDE DEF m
  <2>4. InBlock(m, im.at)
    BY <2>1 DEF InBlock
  <2>5. BlocksBegin' /\ BlocksEnd'
    BY <2>1, <2>2, <2>3, <2>4, PostPreedit DEF PreeditInv
  <2> QED BY <1>2, <2>3, <2>5 DEF PreeditInv
<1>6. ASSUME NEW drops \in BOOLEAN, HandleReply(drops)  PROVE PreeditInv'
  <2>1. UNCHANGED <<active, inbox, focus, global, current, told, inputs>> /\ astray \subseteq astray'
    BY <1>6 DEF HandleReply, userVars, clientVars
  <2>2. im' = im \/ (im'.phase = "off" /\ im.at \in astray')
    BY <1>1, <1>6 DEF HandleReply
  <2>3. \A s \in Surfaces : Waiting(s)' = Waiting(s) /\ inbox'[s] = inbox[s]
    BY <2>1 DEF Waiting
  <2>4. BlocksBegin' /\ BlocksEnd'
    BY <2>1, <2>2, <2>3, KeptPreedit DEF PreeditInv
  <2> QED BY <1>2, <2>1, <2>4 DEF PreeditInv
<1> QED BY <1>3, <1>4, <1>5, <1>6 DEF InputMethod

\* What the first message of a composition that is active can be.
LEMMA HeadOfCurrent ==
  ASSUME IInv, PreeditInv, NEW s \in Surfaces, Taken(s), focus = s, global.active, current \notin astray
  PROVE  InBlock(First(s), current)
<1>1. inbox[s] \in Seq(Messages) /\ inbox[s] # <<>> /\ First(s) = inbox[s][1]
  BY TakenFirst DEF Taken, IInv, TypeOK
<1>2. BlockFrom(s, 1, current)
  BY DEF PreeditInv, BlocksEnd
<1> QED BY <1>1, <1>2, TailEnds DEF BlockFrom

LEMMA WindowActivatedPreedit ==
  ASSUME IInv, PreeditInv, NEW s \in Surfaces, WindowActivated(s)  PROVE PreeditInv'
<1>1. /\ Taken(s) /\ Activation(First(s)) /\ None # s
      /\ First(s).on => focus' = s
      /\ ~ First(s).on => focus' = IF focus = s THEN None ELSE focus
      /\ UNCHANGED <<active, im, global, current, inputs>> /\ astray \subseteq astray'
      /\ First(s).on \in BOOLEAN
  BY FocusMoves DEF WindowActivated
<1>2. First(s).kind = "activated" /\ Begins(First(s)) /\ ~ Empties(First(s))
  BY <1>1 DEF Activation, Begins, Empties
<1>3. \A w \in Surfaces \ {s} : focus' = w => focus = w
  BY <1>1, SurfacesAssumption
<1>4. BlocksBegin'
  BY <1>1, <1>2, <1>3, TakenBegins DEF PreeditInv
<1>5. global'.active /\ current' \notin astray' => focus' = focus /\ focus # s
  <2>1. ASSUME global.active, focus' = focus, current \notin astray, focus = s  PROVE FALSE
    BY <1>1, <1>2, <2>1, HeadOfCurrent DEF InBlock
  <2>2. global.active /\ focus' # focus => current \in astray'
    BY DEF WindowActivated
  <2> QED BY <1>1, <2>1, <2>2
<1>6. BlocksEnd'
  BY <1>1, <1>5, TakenEnds DEF PreeditInv
<1>7. \A t \in inputs : told'[t].preedit = told[t].preedit
  <2>1. inputs \subseteq Texts /\ told \in [Texts -> Pictures]
    BY DEF IInv, TypeOK, Pictures
  <2>2. \A t \in Texts : \A f : [told[t] EXCEPT !.on = f].preedit = told[t].preedit
    BY <2>1 DEF Pictures
  <2>3. told' = told \/ \E f \in {s, None} : Tell(f)
    BY DEF WindowActivated, SetKeyboardFocus
  <2>4. ASSUME NEW f, Tell(f)  PROVE \A t \in inputs : told'[t].preedit = told[t].preedit
    BY <2>1, <2>2, <2>4 DEF Tell
  <2> QED BY <2>3, <2>4
<1>8. ShownIsCurrent'
  BY <1>1, <1>7 DEF PreeditInv, ShownIsCurrent
<1> QED BY <1>4, <1>6, <1>8 DEF PreeditInv

LEMMA NotForFocusPreedit ==
  ASSUME IInv, PreeditInv, NEW s \in Surfaces, NotForFocus(s)  PROVE PreeditInv'
<1>1. Taken(s) /\ focus # s /\ UNCHANGED <<im, active, focus, global, told, inputs, current>> /\ astray \subseteq astray'
        /\ First(s).of \in astray'
  BY DEF NotForFocus, Accepts, userVars, clientVars
<1>2. BlocksBegin' /\ BlocksEnd'
  BY <1>1, TakenBegins, TakenEnds DEF PreeditInv
<1>3. ShownIsCurrent'
  BY <1>1 DEF PreeditInv, ShownIsCurrent
<1> QED BY <1>2, <1>3 DEF PreeditInv

LEMMA StartedPreedit ==
  ASSUME IInv, PreeditInv, NEW s \in Surfaces, NEW hasReply \in BOOLEAN, Started(s, hasReply)  PROVE PreeditInv'
<1>1. /\ Taken(s) /\ First(s).kind = "started" /\ focus = s
      /\ UNCHANGED <<im, active, focus, told, inputs, astray>>
      /\ Begins(First(s)) /\ ~ InBlock(First(s), current)
  BY DEF Started, Accepts, userVars, clientVars, Begins, InBlock
<1>2. /\ global'.active => global'.text = global.text /\ current' = First(s).of
      /\ global'.text \in {0, global.text}
  <2>1. CASE hasReply
    <3>1. global \in Globals
      BY DEF IInv, TypeOK, Globals
    <3>2. global'.text = global.text /\ current' = First(s).of
      BY <2>1, <3>1 DEF Started, Globals
    <3> QED BY <3>2
  <2>2. CASE ~ hasReply
    BY <2>2 DEF Started, Clear, NoComposition
  <2> QED BY <2>1, <2>2
<1>3. ~ global.active \/ current \in astray
  BY <1>1, HeadOfCurrent
<1>4. global.text \in {0} \cup astray /\ \A t \in inputs : told[t].preedit \in {0} \cup astray
  BY <1>3 DEF PreeditInv, ShownIsCurrent
<1>5. BlocksBegin' /\ BlocksEnd'
  BY <1>1, <1>2, <1>4, TakenBegins, TakenEnds DEF PreeditInv
<1>6. ShownIsCurrent'
  BY <1>1, <1>2, <1>4 DEF ShownIsCurrent
<1> QED BY <1>5, <1>6 DEF PreeditInv

LEMMA ChangedPreedit == ASSUME IInv, PreeditInv, NEW s \in Surfaces, Changed(s)  PROVE PreeditInv'
<1> DEFINE m == First(s)
           g == [global EXCEPT !.text = m.text, !.confirmed = m.confirmed]
<1>1. /\ Taken(s) /\ m.kind = "changed" /\ focus = s /\ SendStateToAll(g)
      /\ global' = IF m.confirmed THEN NoComposition ELSE g
      /\ UNCHANGED <<im, active, focus, inputs, current>>
      /\ astray' = IF global.active THEN astray ELSE astray \cup {m.of}
  BY DEF Changed, TakeText, Clear, Accepts, userVars
<1>2. m \in Messages /\ m.of \in Compositions /\ m.text \in Contents /\ m.confirmed \in BOOLEAN
  BY <1>1, TakenKeeps, MessageKinds
<1>3. TypeOK /\ global \in Globals /\ inputs \subseteq Texts
  BY DEF IInv, TypeOK, Globals
<1>4. g \in Globals /\ g.text = m.text /\ g.confirmed = m.confirmed /\ g.active = global.active
  BY <1>2, <1>3 DEF Globals
<1> HIDE DEF g
<1>5. ~ Begins(m) /\ m.kind # "started" /\ m.kind # "stopped"
  BY <1>1 DEF Begins
<1>6. /\ global'.active => global.active /\ ~ m.confirmed /\ global'.text = m.text
      /\ m.confirmed => global'.text = 0 /\ ~ global'.active
      /\ ~ m.confirmed => global'.text = m.text /\ global'.active = global.active
  BY <1>1, <1>2, <1>4 DEF NoComposition
<1>7. Empties(m) => global'.text = 0
  BY <1>5, <1>6 DEF Empties
\* The text is of the current composition, unless something came across.
<1>8. m.text \in {0} \cup astray' \cup (IF global.active THEN {current} ELSE {})
  <2>1. inbox[s] \in Seq(Messages) /\ m = inbox[s][1] /\ 1 \in Waiting(s)
    BY <1>1, TakenFirst DEF IInv, TypeOK
  <2>2. m.text \in {0, m.of} /\ (m.of \notin astray => FollowsStart(s, 1 - 1, m.of))
    BY <1>1, <2>1 DEF PreeditInv, BlocksBegin
  <2>3. CASE global.active /\ m.of \notin astray
    <3>1. FollowsStart(s, 0, m.of)
      BY <2>2, <2>3
    <3>2. ~ StartedLast(inbox[s], 0, m.of)
      BY DEF StartedLast
    <3>3. current = m.of
      BY <1>1, <2>3, <3>1, <3>2 DEF FollowsStart
    <3> QED BY <2>2, <2>3, <3>3
  <2>4. CASE ~ (global.active /\ m.of \notin astray)
    BY <1>1, <2>2, <2>4
  <2> QED BY <2>3, <2>4
<1> HIDE DEF m
<1>9. BlocksBegin' /\ BlocksEnd'
  <2>1. astray \subseteq astray' /\ (global'.active => astray' = astray)
    BY <1>1, <1>6
  <2>2. BlocksBegin'
    BY <1>1, <1>5, <1>6, <1>7, <2>1, TakenBegins DEF PreeditInv, m
  <2>3. BlocksEnd'
    BY <1>1, <1>5, <1>6, <2>1, TakenEnds DEF PreeditInv, m
  <2> QED BY <2>2, <2>3
<1>10. ShownIsCurrent'
  <2>1. ASSUME NEW t \in inputs
        PROVE  told'[t].preedit = IF g.active /\ ~ g.confirmed THEN g.text ELSE 0
    <3>1. told'[t] = SendState(g, t) /\ t \in Texts
      BY <1>1, <1>3 DEF SendStateToAll
    <3> QED BY <1>3, <1>4, <3>1, SendStateShows
  <2>2. ASSUME global.active, ~ m.confirmed
        PROVE  /\ global'.active /\ current' = current /\ global'.text = m.text
               /\ \A t \in inputs : told'[t].preedit = m.text
    BY <1>1, <1>4, <1>6, <2>1, <2>2
  <2>3. ASSUME ~ global.active \/ m.confirmed
        PROVE  ~ global'.active /\ global'.text \in {0} \cup astray' /\ \A t \in inputs : told'[t].preedit = 0
    BY <1>2, <1>4, <1>6, <1>8, <2>1, <2>3
  <2> QED BY <1>1, <1>2, <1>3, <1>8, <2>2, <2>3 DEF ShownIsCurrent, Globals
<1> QED BY <1>9, <1>10 DEF PreeditInv

LEMMA StoppedPreedit == ASSUME IInv, PreeditInv, NEW s \in Surfaces, Stopped(s)  PROVE PreeditInv'
<1>1. /\ Taken(s) /\ First(s).kind = "stopped" /\ focus = s /\ SendStateToAll(global)
      /\ global'.text = 0 /\ ~ global'.active
      /\ UNCHANGED <<im, active, focus, inputs, current, astray>>
  BY DEF Stopped, Clear, NoComposition, Accepts, userVars, ghostVars
<1>2. TypeOK /\ global \in Globals /\ ~ global.confirmed /\ inputs \subseteq Texts
  BY DEF IInv, TypeOK, Globals
<1>3. BlocksBegin' /\ BlocksEnd'
  BY <1>1, TakenBegins, TakenEnds DEF PreeditInv
<1>4. global.active => global.text \in {0} \cup astray
  <2>1. CASE current \in astray
    BY <2>1 DEF PreeditInv, ShownIsCurrent
  <2>2. CASE global.active /\ current \notin astray
    <3>1. First(s).of = current
      BY <1>1, <2>2, HeadOfCurrent DEF InBlock
    <3>2. First(s) = inbox[s][1] /\ 1 \in Waiting(s)
      BY <1>1, TakenFirst
    <3>3. FollowsEmpty(s, 1 - 1)
      BY <1>1, <2>2, <3>1, <3>2 DEF PreeditInv, BlocksBegin
    <3> QED BY <1>1, <2>2, <3>3 DEF FollowsEmpty
  <2> QED BY <2>1, <2>2
<1>5. ASSUME NEW t \in inputs  PROVE told'[t].preedit = IF global.active THEN global.text ELSE 0
  <2>1. told'[t] = SendState(global, t) /\ t \in Texts
    BY <1>1, <1>2 DEF SendStateToAll
  <2> QED BY <1>2, <2>1, SendStateShows
<1>6. ShownIsCurrent'
  BY <1>1, <1>4, <1>5 DEF ShownIsCurrent
<1> QED BY <1>3, <1>6 DEF PreeditInv

LEMMA RequestsPreedit == ASSUME IInv, PreeditInv, NEW t \in Texts, Requests(t)  PROVE PreeditInv'
<1>1. UNCHANGED <<im, inbox, active, focus, current>> /\ astray \subseteq astray'
        /\ (global' = global \/ (~ global'.active /\ global'.text = 0 /\ current \in astray'))
  BY DEF Requests, GetTextInput, DestroyTextInput, HandleDisable, HandleCommit, userVars, ghostVars, Clear, NoComposition
<1>2. \A s \in Surfaces : Waiting(s)' = Waiting(s) /\ inbox'[s] = inbox[s]
  BY <1>1 DEF Waiting
<1>3. BlocksBegin' /\ BlocksEnd'
  BY <1>1, <1>2, KeptPreedit DEF PreeditInv
<1>4. TypeOK /\ global \in Globals /\ ~ global.confirmed /\ inputs \subseteq Texts /\ told \in [Texts -> Pictures]
  BY DEF IInv, TypeOK, Globals, Pictures
<1> DEFINE shown == {0} \cup astray \cup (IF global.active THEN {current} ELSE {})
<1>5. global.text \in shown /\ \A u \in inputs : told[u].preedit \in shown
  BY DEF PreeditInv, ShownIsCurrent
<1> HIDE DEF shown
<1>6. \A u \in inputs' : told'[u].preedit \in shown
  <2>1. 0 \in shown
    BY DEF shown
  <2>2. CASE GetTextInput(t)
    <3>1. inputs' = inputs \cup {t} /\ told' = [told EXCEPT ![t] = NewInput] /\ NewInput.preedit = 0
      BY <2>2 DEF GetTextInput, NewInput
    <3> QED BY <1>4, <1>5, <2>1, <3>1
  <2>3. CASE DestroyTextInput(t)
    BY <1>5, <2>3 DEF DestroyTextInput
  <2>4. CASE HandleDisable(t)
    BY <1>5, <2>4 DEF HandleDisable, clientVars
  <2>5. CASE HandleCommit(t)
    <3>1. SendState(global, t).preedit \in shown
      BY <1>4, <1>5, <2>1, SendStateShows
    <3>2. told' = [told EXCEPT ![t] = SendState(global, t)] /\ inputs' = inputs
      BY <2>5 DEF HandleCommit
    <3> QED BY <1>4, <1>5, <3>1, <3>2
  <2> QED BY <2>2, <2>3, <2>4, <2>5 DEF Requests
<1>7. ShownIsCurrent'
  BY <1>1, <1>5, <1>6 DEF shown, ShownIsCurrent
<1> QED BY <1>3, <1>7 DEF PreeditInv

LEMMA InitPreedit == ASSUME Init  PROVE PreeditInv
<1>1. ASSUME NEW s \in Surfaces  PROVE Waiting(s) = {}
  BY DEF Init, Waiting
<1>2. BlocksBegin /\ BlocksEnd
  BY <1>1 DEF Init, BlocksBegin, BlocksEnd, Composing, NoComposition
<1>3. ShownIsCurrent
  BY DEF Init, ShownIsCurrent, NoComposition
<1> QED BY <1>2, <1>3 DEF PreeditInv

-----------------------------------------------------------------------------
HistoryInv == FocusInv /\ CommittedInv /\ PreeditInv

LEMMA NextHistory == ASSUME IInv, HistoryInv, [Next]_vars  PROVE HistoryInv'
<1>1. FocusInv /\ CommittedInv /\ PreeditInv
  BY DEF HistoryInv
<1>2. CASE UNCHANGED vars
  <2>1. UNCHANGED <<active, switches, inbox, focus, overtaken, im, told, inputs, global, current, astray>>
    BY <1>2 DEF vars, userVars, clientVars, ghostVars
  <2>2. \A s \in Surfaces : Waiting(s)' = Waiting(s)
    BY <2>1 DEF Waiting
  <2>3. FocusInv'
    BY <1>1, <2>1, KeptFocus
  <2>4. CommittedInv'
    BY <1>1, <2>1, <2>2 DEF CommittedInv, ConfirmedOnce, LaterTextsWait, PassedByForGood, CommittedOnceInOrder
  <2>5. PreeditInv'
    <3>1. BlocksBegin' /\ BlocksEnd'
      BY <1>1, <2>1, <2>2, KeptPreedit DEF PreeditInv
    <3>2. ShownIsCurrent'
      BY <1>1, <2>1 DEF PreeditInv, ShownIsCurrent
    <3> QED BY <3>1, <3>2 DEF PreeditInv
  <2> QED BY <2>3, <2>4, <2>5 DEF HistoryInv
<1>3. ASSUME NEW w \in Focus, Activate(w)  PROVE HistoryInv'
  BY <1>1, <1>3, ActivateFocus, ActivateCommitted, ActivatePreedit DEF HistoryInv
<1>4. CASE InputMethod
  <2>1. FocusInv'
    BY <1>1, <1>4, InputMethodFocus
  <2> QED BY <1>1, <1>4, <2>1, InputMethodCommitted, InputMethodPreedit DEF HistoryInv
<1>5. ASSUME NEW s \in Surfaces, WindowThread(s)  PROVE HistoryInv'
  <2>1. FocusInv'
    BY <1>1, <1>5, WindowThreadFocus
  <2>2. PreeditInv'
    BY <1>1, <1>5, WindowActivatedPreedit, NotForFocusPreedit, StartedPreedit, ChangedPreedit, StoppedPreedit
       DEF WindowThread
  <2> QED BY <1>1, <1>5, <2>1, <2>2, WindowThreadCommitted DEF HistoryInv
<1>6. ASSUME NEW t \in Texts, Requests(t)  PROVE HistoryInv'
  <2>1. UNCHANGED <<active, switches, inbox, focus, overtaken>>
    BY <1>6 DEF Requests, GetTextInput, DestroyTextInput, HandleDisable, HandleCommit, userVars, ghostVars
  <2> QED BY <1>1, <1>6, <2>1, KeptFocus, RequestsCommitted, RequestsPreedit DEF HistoryInv
<1> QED BY <1>2, <1>3, <1>4, <1>5, <1>6 DEF Next, User

\* What the messages that wait, the texts that are confirmed and those that are shown have to
\* do with each other: the inductive invariant of the three theorems that follow.
THEOREM HistoryInvariance == Spec => []HistoryInv
<1>1. Init => HistoryInv
  BY InitFocus, InitCommitted, InitPreedit DEF HistoryInv
<1>2. IInv /\ HistoryInv /\ [Next]_vars => HistoryInv'
  BY NextHistory
<1> QED BY <1>1, <1>2, Invariance, PTL DEF Spec

\* The surface that has the keyboard focus is that of the active window or has yet to handle
\* that it is not, and where no window overtook another the active one gets it
\* (HaikuSeat.cpp:347-380, HaikuCompositor.cpp:175-186).
THEOREM FocusFollowsActivationCorrect == Spec => []FocusFollowsActivation
<1>1. IInv /\ HistoryInv => FocusFollowsActivation
  BY FocusImplied DEF HistoryInv
<1> QED BY <1>1, Invariance, HistoryInvariance, PTL

\* A text input is given each confirmed text once, and in order where no window overtook
\* another (HaikuTextInput.cpp:88-150, 247-253).
THEOREM CommittedOnceInOrderCorrect == Spec => []CommittedOnceInOrder
<1>1. HistoryInv => CommittedOnceInOrder
  BY DEF HistoryInv, CommittedInv
<1> QED BY <1>1, HistoryInvariance, PTL

\* While a text is composed, no text input shows that of another composition, unless a change
\* of focus or a disable came across (HaikuTextInput.cpp:50-70, 101-150, 214-225).
THEOREM PreeditIsCurrentCorrect == Spec => []PreeditIsCurrent
<1>1. HistoryInv => PreeditIsCurrent
  BY DEF HistoryInv, PreeditInv, ShownIsCurrent, PreeditIsCurrent
<1> QED BY <1>1, HistoryInvariance, PTL
=============================================================================
