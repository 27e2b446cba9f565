-------------------------- MODULE DataDeviceProofs --------------------------
(***************************************************************************)
(* What DataDevice guarantees for any number of devices, sources and        *)
(* programs, and of notices that wait, and what DataFormats does for        *)
(* clients that offer any types and messages of any fields.                 *)
(***************************************************************************)
EXTENDS MCDataDevice, TLAPS

\* A device's source is alive, knows the device, and was told nothing final yet.
SourcesAreHeld ==
  \A d \in Devices : source[d] # None =>
    Live(source[d]) /\ owner[source[d]] = d /\ told[source[d]] = "used"

NeverAgain == \A s \in Sources : told[s] # "again"

IInv == TypeOK /\ SourcesAreHeld /\ NeverAgain /\ SelectionIsCurrent

\* No device lets a living source go without telling it.
ToldOnLeaving ==
  \A d \in Devices, s \in Sources :
    source[d] = s /\ source'[d] = None /\ life'[s] = "live" => told'[s] = "over"

LEMMA InitIInv == Init => IInv
<1> SUFFICES ASSUME Init  PROVE IInv
  OBVIOUS
<1>1. notices \in [Devices -> 0..MaxNotices]
  BY MaxNoticesAssumption DEF Init
<1>2. TypeOK
  BY <1>1 DEF Init, TypeOK, Lives
<1>3. SourcesAreHeld /\ NeverAgain /\ SelectionIsCurrent
  BY DEF Init, SourcesAreHeld, NeverAgain, SelectionIsCurrent, Live
<1> QED BY <1>2, <1>3 DEF IInv

-----------------------------------------------------------------------------
(* Steps that handlers share.                                               *)

\* No event is sent to a source that is over, since its device let it go then.
LEMMA EventKeeps ==
  ASSUME IInv, NEW d \in Devices, Event(d)  PROVE UNCHANGED told
  BY DEF Event, IInv, TypeOK, SourcesAreHeld

\* A device that tells its source that it is over lets it go: its owner forgets the device
\* or keeps it, but no other device has that source.
LEMMA OverKeeps ==
  ASSUME IInv, NEW d \in Devices, Over(d),
         source' = [source EXCEPT ![d] = None],
         owner' \in [Sources -> Devices \cup {None}],
         \A s \in Sources : owner'[s] = owner[s] \/ s = source[d],
         UNCHANGED <<life>>
  PROVE  /\ told' \in [Sources -> {"fresh", "used", "over", "again"}]
         /\ source' \in [Devices -> Sources \cup {None}]
         /\ SourcesAreHeld' /\ NeverAgain' /\ ToldOnLeaving
<1>1. told' \in [Sources -> {"fresh", "used", "over", "again"}] /\ NeverAgain'
  BY DEF Over, IInv, TypeOK, SourcesAreHeld, NeverAgain
<1>2. \A s \in Sources : s # source[d] => told'[s] = told[s]
  BY DEF Over, IInv, TypeOK
<1>3. \A e \in Devices : e # d /\ source[e] # None => source[e] # source[d]
  BY DEF IInv, SourcesAreHeld
<1>4. SourcesAreHeld'
  BY <1>2, <1>3 DEF IInv, TypeOK, SourcesAreHeld, Live
<1>5. ToldOnLeaving
  BY NamesAssumption DEF Over, IInv, TypeOK, SourcesAreHeld, ToldOnLeaving
<1> QED BY <1>1, <1>4, <1>5 DEF IInv, TypeOK

\* In LetGo the owner forgets the device.
LEMMA LetGoKeeps ==
  ASSUME IInv, NEW d \in Devices, Over(d), LetGo(d), UNCHANGED life
  PROVE  /\ told' \in [Sources -> {"fresh", "used", "over", "again"}]
         /\ source' \in [Devices -> Sources \cup {None}]
         /\ owner' \in [Sources -> Devices \cup {None}]
         /\ \A e \in Devices : source'[e] # None => source[e] # None
         /\ SourcesAreHeld' /\ NeverAgain' /\ ToldOnLeaving
<1>1. /\ owner' \in [Sources -> Devices \cup {None}]
      /\ \A s \in Sources : owner'[s] = owner[s] \/ s = source[d]
      /\ source' = [source EXCEPT ![d] = None]
  BY DEF LetGo, IInv, TypeOK
<1>2. \A e \in Devices : source'[e] # None => source[e] # None
  BY <1>1 DEF IInv, TypeOK
<1> QED BY <1>1, <1>2, OverKeeps

\* A new source is taken only while it is fresh, so that no other device has it.
LEMMA TakeKeeps ==
  ASSUME IInv, NEW d \in Devices, NEW s \in Sources, Take(d, s),
         Live(s), told[s] = "fresh", told' = [told EXCEPT ![s] = "used"], UNCHANGED life
  PROVE  /\ source' \in [Devices -> Sources \cup {None}]
         /\ owner' \in [Sources -> Devices \cup {None}]
         /\ \A e \in Devices : e # d => source'[e] = source[e]
         /\ SourcesAreHeld' /\ ToldOnLeaving
<1>1. \A e \in Devices : source[e] # s
  BY NamesAssumption DEF IInv, SourcesAreHeld
<1>2. SourcesAreHeld'
  BY <1>1, NamesAssumption DEF Take, IInv, TypeOK, SourcesAreHeld, Live
<1>3. ToldOnLeaving
  BY NamesAssumption DEF Take, IInv, TypeOK, ToldOnLeaving
<1> QED BY <1>2, <1>3 DEF Take, IInv, TypeOK

\* Every device that lives has news waiting, so nothing is claimed of its selection yet.
LEMMA ClipboardBecomesKeeps ==
  ASSUME IInv, NEW content \in Sources \cup Contents \cup {None}, ClipboardBecomes(content), UNCHANGED life
  PROVE  /\ clipboard' \in Sources \cup Contents \cup {None}
         /\ notices' \in [Devices -> 0..MaxNotices]
         /\ \A d \in Devices : life[d] # "live" => notices'[d] = 0
         /\ selection' = selection
         /\ unchanged' \subseteq Devices
         /\ SelectionIsCurrent'
<1>1. \A d \in Devices : notices[d] \in Nat /\ notices[d] < MaxNotices
  BY MaxNoticesAssumption DEF ClipboardBecomes, IInv, TypeOK
<1>2. notices' \in [Devices -> 0..MaxNotices]
  BY <1>1, MaxNoticesAssumption DEF ClipboardBecomes
<1>3. \A d \in Devices : Live(d) => notices'[d] # 0
  BY <1>1 DEF ClipboardBecomes
<1>4. SelectionIsCurrent'
  BY <1>3 DEF SelectionIsCurrent, Live
<1> QED BY <1>2, <1>4 DEF ClipboardBecomes, Live

-----------------------------------------------------------------------------
(* Requests.                                                                *)

LEMMA CreateSourceStep ==
  ASSUME IInv, NEW s \in Sources, CreateSource(s)  PROVE IInv' /\ ToldOnLeaving
<1> USE NamesAssumption
<1>1. TypeOK'
  BY DEF CreateSource, IInv, TypeOK, Lives, seatVars, clipVars
<1>2. SourcesAreHeld' /\ NeverAgain' /\ ToldOnLeaving
  BY DEF CreateSource, IInv, TypeOK, SourcesAreHeld, NeverAgain, ToldOnLeaving, Live
<1>3. SelectionIsCurrent'
  BY DEF CreateSource, IInv, TypeOK, SelectionIsCurrent, Live, clipVars
<1> QED BY <1>1, <1>2, <1>3 DEF IInv

\* Its owner, if it still has it, forgets it.
LEMMA DestroySourceStep ==
  ASSUME IInv, NEW s \in Sources, DestroySource(s)  PROVE IInv' /\ ToldOnLeaving
<1> USE NamesAssumption
<1>1. /\ source' \in [Devices -> Sources \cup {None}]
      /\ \A d \in Devices : source'[d] = IF source[d] = s THEN None ELSE source[d]
      /\ undefined' \in BOOLEAN
  <2>1. CASE owner[s] = None
    <3>1. \A d \in Devices : source[d] # s
      BY <2>1 DEF IInv, SourcesAreHeld
    <3> QED BY <2>1, <3>1 DEF DestroySource, IInv, TypeOK
  <2>2. CASE owner[s] # None
    <3>1. \A d \in Devices : source[d] = s => owner[s] = d
      BY DEF IInv, SourcesAreHeld
    <3> QED BY <2>2, <3>1 DEF DestroySource, Follows, Forget, Live, IInv, TypeOK
  <2> QED BY <2>1, <2>2
<1>2. TypeOK'
  BY <1>1 DEF DestroySource, IInv, TypeOK, Lives, Live, seatVars, clipVars
<1>3. SourcesAreHeld' /\ NeverAgain' /\ ToldOnLeaving
  BY <1>1 DEF DestroySource, IInv, TypeOK, SourcesAreHeld, NeverAgain, ToldOnLeaving, Live
<1>4. SelectionIsCurrent'
  BY DEF DestroySource, IInv, TypeOK, SelectionIsCurrent, Live, clipVars
<1> QED BY <1>2, <1>3, <1>4 DEF IInv

LEMMA CreateDeviceStep ==
  ASSUME IInv, NEW d \in Devices, CreateDevice(d)  PROVE IInv' /\ ToldOnLeaving
<1> USE NamesAssumption
<1>1. TypeOK'
  BY DEF CreateDevice, IInv, TypeOK, Lives
<1>2. SourcesAreHeld' /\ NeverAgain' /\ ToldOnLeaving
  BY DEF CreateDevice, IInv, TypeOK, SourcesAreHeld, NeverAgain, ToldOnLeaving, Live
<1>3. SelectionIsCurrent'
  BY DEF CreateDevice, IInv, TypeOK, SelectionIsCurrent, Live
<1> QED BY <1>1, <1>2, <1>3 DEF IInv

LEMMA DestroyDeviceStep ==
  ASSUME IInv, NEW d \in Devices, DestroyDevice(d)  PROVE IInv' /\ ToldOnLeaving
<1> USE NamesAssumption
<1>1. /\ life' = [life EXCEPT ![d] = "dead"]
      /\ source' = [source EXCEPT ![d] = None]
      /\ owner' = [s \in Sources |-> IF s = source[d] THEN None ELSE owner[s]]
      /\ notices' = [notices EXCEPT ![d] = 0]
  BY DEF DestroyDevice, LetGo
<1>2. told' \in [Sources -> {"fresh", "used", "over", "again"}] /\ NeverAgain'
  BY DEF DestroyDevice, Over, IInv, TypeOK, SourcesAreHeld, NeverAgain
<1>3. TypeOK'
  BY <1>1, <1>2, MaxNoticesAssumption DEF DestroyDevice, IInv, TypeOK, Lives, seatVars
<1>4. \A s \in Sources : (s # source[d] => told'[s] = told[s]) /\ life'[s] = life[s]
  BY <1>1 DEF DestroyDevice, Over, IInv, TypeOK
<1>5. \A e \in Devices : e # d /\ source[e] # None => source[e] # source[d]
  BY DEF IInv, SourcesAreHeld
<1>6. SourcesAreHeld'
  BY <1>1, <1>4, <1>5 DEF IInv, TypeOK, SourcesAreHeld, Live
<1>7. ToldOnLeaving
  BY <1>1 DEF DestroyDevice, Over, IInv, TypeOK, SourcesAreHeld, ToldOnLeaving
<1>8. SelectionIsCurrent'
  BY <1>1 DEF DestroyDevice, IInv, TypeOK, SelectionIsCurrent, Live
<1> QED BY <1>2, <1>3, <1>6, <1>7, <1>8 DEF IInv

\* The source is taken, or not, whatever becomes of the clipboard.
LEMMA HandleSetSelectionStep ==
  ASSUME IInv, NEW d \in Devices, NEW s \in Sources, NEW cleared \in BOOLEAN,
         NEW committed \in BOOLEAN, HandleSetSelection(d, s, cleared, committed)
  PROVE  IInv' /\ ToldOnLeaving
<1> USE NamesAssumption
<1>1. /\ Live(d) /\ Live(s) /\ told[s] = "fresh" /\ told' = [told EXCEPT ![s] = "used"]
      /\ UNCHANGED <<life, dropPending, seatDevice, offered, undefined>>
  BY DEF HandleSetSelection, seatVars
<1>2. NeverAgain' /\ told' \in [Sources -> {"fresh", "used", "over", "again"}]
  BY <1>1 DEF IInv, TypeOK, NeverAgain
<1>3. /\ clipboard' \in Sources \cup Contents \cup {None}
      /\ notices' \in [Devices -> 0..MaxNotices]
      /\ \A e \in Devices : life[e] # "live" => notices'[e] = 0
      /\ selection' = selection
      /\ unchanged' \subseteq Devices
      /\ SelectionIsCurrent'
  <2>1. CASE ClipboardBecomes(s)
    BY <1>1, <2>1, ClipboardBecomesKeeps
  <2>2. CASE UNCHANGED clipVars
    BY <1>1, <2>2 DEF IInv, TypeOK, SelectionIsCurrent, Live, clipVars
  <2> QED BY <2>1, <2>2 DEF HandleSetSelection
<1>4. /\ source' \in [Devices -> Sources \cup {None}]
      /\ owner' \in [Sources -> Devices \cup {None}]
      /\ \A e \in Devices : e # d => source'[e] = source[e]
      /\ SourcesAreHeld' /\ ToldOnLeaving
  <2>1. CASE Take(d, s)
    BY <1>1, <2>1, TakeKeeps
  <2>2. CASE UNCHANGED <<source, owner>>
    BY <1>1, <2>2 DEF IInv, TypeOK, SourcesAreHeld, ToldOnLeaving, Live
  <2> QED BY <2>1, <2>2 DEF HandleSetSelection
<1>5. TypeOK'
  BY <1>1, <1>2, <1>3, <1>4 DEF IInv, TypeOK, Live
<1> QED BY <1>2, <1>3, <1>4, <1>5 DEF IInv

LEMMA HandleStartDragStep ==
  ASSUME IInv, NEW d \in Devices, NEW s \in Sources \cup {None}, NEW hasView \in BOOLEAN,
         HandleStartDrag(d, s, hasView)
  PROVE  IInv' /\ ToldOnLeaving
<1> USE NamesAssumption
<1>1. /\ Live(d) /\ dropPending' \subseteq Devices
      /\ UNCHANGED <<life, seatDevice, offered, clipboard, notices, selection, unchanged, undefined>>
  BY DEF HandleStartDrag, IInv, TypeOK, seatVars, clipVars
<1>2. SelectionIsCurrent'
  BY <1>1 DEF IInv, SelectionIsCurrent, Live
<1>3. NeverAgain' /\ told' \in [Sources -> {"fresh", "used", "over", "again"}]
  BY DEF HandleStartDrag, IInv, TypeOK, NeverAgain
<1>4. CASE s # None /\ hasView
  <2>1. /\ source' \in [Devices -> Sources \cup {None}]
        /\ owner' \in [Sources -> Devices \cup {None}]
        /\ \A e \in Devices : e # d => source'[e] = source[e]
        /\ SourcesAreHeld' /\ ToldOnLeaving
    BY <1>1, <1>4, TakeKeeps DEF HandleStartDrag
  <2>2. TypeOK'
    BY <1>1, <1>3, <2>1 DEF IInv, TypeOK, Live
  <2> QED BY <1>2, <1>3, <2>1, <2>2 DEF IInv
<1>5. CASE ~ (s # None /\ hasView)
  <2>1. UNCHANGED <<source, owner>>
    BY <1>5 DEF HandleStartDrag
  <2>2. TypeOK'
    BY <1>1, <1>3, <2>1 DEF IInv, TypeOK
  <2>3. SourcesAreHeld' /\ ToldOnLeaving
    BY <1>1, <2>1 DEF HandleStartDrag, IInv, TypeOK, SourcesAreHeld, ToldOnLeaving, Live
  <2> QED BY <1>2, <1>3, <2>2, <2>3 DEF IInv
<1> QED BY <1>4, <1>5

\* A step that changes only the drops pending, the offers, and undefined.
LEMMA AsideStep ==
  ASSUME IInv, dropPending' \subseteq Devices, offered' \subseteq Devices, undefined' \in BOOLEAN,
         UNCHANGED <<life, source, owner, seatDevice, clipVars, told>>
  PROVE  IInv' /\ ToldOnLeaving
<1> USE NamesAssumption
<1>1. TypeOK'
  BY DEF IInv, TypeOK, clipVars
<1>2. SourcesAreHeld' /\ NeverAgain' /\ ToldOnLeaving
  BY DEF IInv, TypeOK, SourcesAreHeld, NeverAgain, ToldOnLeaving, Live
<1>3. SelectionIsCurrent'
  BY DEF IInv, SelectionIsCurrent, Live, clipVars
<1> QED BY <1>1, <1>2, <1>3 DEF IInv

\* A step that tells a device's source that it is over, and lets it go.
LEMMA OverStep ==
  ASSUME IInv, NEW d \in Devices, Over(d), LetGo(d),
         dropPending' \subseteq Devices, undefined' \in BOOLEAN, UNCHANGED <<life, seatVars, clipVars>>
  PROVE  IInv' /\ ToldOnLeaving
<1>1. /\ told' \in [Sources -> {"fresh", "used", "over", "again"}]
      /\ source' \in [Devices -> Sources \cup {None}]
      /\ owner' \in [Sources -> Devices \cup {None}]
      /\ \A e \in Devices : source'[e] # None => source[e] # None
      /\ SourcesAreHeld' /\ NeverAgain' /\ ToldOnLeaving
  BY LetGoKeeps
<1>2. TypeOK'
  BY <1>1 DEF IInv, TypeOK, seatVars, clipVars
<1>3. SelectionIsCurrent'
  BY DEF IInv, SelectionIsCurrent, Live, clipVars
<1> QED BY <1>1, <1>2, <1>3 DEF IInv

LEMMA OfferStep ==
  ASSUME IInv, NEW d \in Devices, OfferEvent(d) \/ HandleFinish(d) \/ DestroyOffers(d)
  PROVE  IInv' /\ ToldOnLeaving
<1>1. ASSUME OfferEvent(d)  PROVE IInv' /\ ToldOnLeaving
  <2>1. UNCHANGED told
    BY <1>1, EventKeeps DEF OfferEvent
  <2> QED BY <1>1, <2>1, AsideStep DEF OfferEvent, Follows, seatVars, IInv, TypeOK
<1>2. ASSUME HandleFinish(d)  PROVE IInv' /\ ToldOnLeaving
  BY <1>2, OverStep DEF HandleFinish, Follows, IInv, TypeOK
<1>3. ASSUME DestroyOffers(d)  PROVE IInv' /\ ToldOnLeaving
  BY <1>3, AsideStep DEF DestroyOffers, IInv, TypeOK
<1> QED BY <1>1, <1>2, <1>3

-----------------------------------------------------------------------------
(* Messages.                                                                *)

LEMMA ForeignCopyStep ==
  ASSUME IInv, NEW c \in Contents, ForeignCopy(c)  PROVE IInv' /\ ToldOnLeaving
<1> USE NamesAssumption
<1>1. UNCHANGED <<life, source, dropPending, owner, seatDevice, offered, told, undefined>>
  BY DEF ForeignCopy, seatVars
<1>2. /\ clipboard' \in Sources \cup Contents \cup {None}
      /\ notices' \in [Devices -> 0..MaxNotices]
      /\ \A d \in Devices : life[d] # "live" => notices'[d] = 0
      /\ selection' = selection
      /\ unchanged' \subseteq Devices
      /\ SelectionIsCurrent'
  BY <1>1, ClipboardBecomesKeeps DEF ForeignCopy
<1>3. TypeOK'
  BY <1>1, <1>2 DEF IInv, TypeOK
<1>4. SourcesAreHeld' /\ NeverAgain' /\ ToldOnLeaving
  BY <1>1 DEF IInv, TypeOK, SourcesAreHeld, NeverAgain, ToldOnLeaving, Live
<1> QED BY <1>2, <1>3, <1>4 DEF IInv

\* The selection is offered as it is by now; the source that was held is told.
LEMMA ClipboardChangedStep ==
  ASSUME IInv, NEW d \in Devices, ClipboardChanged(d)  PROVE IInv' /\ ToldOnLeaving
<1>1. /\ Over(d) /\ notices[d] > 0 /\ notices' = [notices EXCEPT ![d] = @ - 1]
      /\ source' = [source EXCEPT ![d] = None]
      /\ selection' = [selection EXCEPT ![d] = clipboard]
      /\ offered' = offered \cup {d}
      /\ UNCHANGED <<life, dropPending, owner, seatDevice, clipboard, unchanged, undefined>>
  BY DEF ClipboardChanged, TellSelection, Offer
<1>2. owner' \in [Sources -> Devices \cup {None}]
  BY <1>1 DEF IInv, TypeOK
<1>3. /\ told' \in [Sources -> {"fresh", "used", "over", "again"}]
      /\ source' \in [Devices -> Sources \cup {None}]
      /\ SourcesAreHeld' /\ NeverAgain' /\ ToldOnLeaving
  BY <1>1, <1>2, OverKeeps
<1>4. notices' \in [Devices -> 0..MaxNotices]
  BY <1>1, MaxNoticesAssumption DEF IInv, TypeOK
<1>5. \A e \in Devices : life'[e] # "live" => source'[e] = None /\ notices'[e] = 0
  BY <1>1 DEF IInv, TypeOK
<1>6. TypeOK'
  BY <1>1, <1>2, <1>3, <1>4, <1>5 DEF IInv, TypeOK
<1>7. SelectionIsCurrent'
  BY <1>1 DEF IInv, TypeOK, SelectionIsCurrent, Live
<1> QED BY <1>3, <1>6, <1>7 DEF IInv

LEMMA SeatStep ==
  ASSUME IInv, DragEnter \/ Drop \/ (\E drag \in BOOLEAN : MouseUp(drag))
               \/ \E bookmark \in BOOLEAN : HandleCopyTargetReply(bookmark)
  PROVE  IInv' /\ ToldOnLeaving
<1>1. ASSUME seatDevice # None  PROVE seatDevice \in Devices
  BY <1>1 DEF IInv, TypeOK
<1>2. ASSUME DragEnter  PROVE IInv' /\ ToldOnLeaving
  BY <1>1, <1>2, AsideStep DEF DragEnter, Follows, Offer, IInv, TypeOK
<1>3. ASSUME Drop  PROVE IInv' /\ ToldOnLeaving
  BY <1>1, <1>3, AsideStep DEF Drop, Follows, IInv, TypeOK, seatVars
<1>4. ASSUME NEW bookmark \in BOOLEAN, HandleCopyTargetReply(bookmark)  PROVE IInv' /\ ToldOnLeaving
  <2>1. CASE FinishDrag(seatDevice)
    BY <1>1, <1>4, <2>1, OverStep DEF HandleCopyTargetReply, FinishDrag, Follows, IInv, TypeOK
  <2>2. CASE UNCHANGED <<source, dropPending, owner, told>>
    BY <1>1, <1>4, <2>2, AsideStep DEF HandleCopyTargetReply, Follows, IInv, TypeOK, seatVars
  <2> QED BY <1>4, <2>1, <2>2 DEF HandleCopyTargetReply
<1>5. ASSUME NEW drag \in BOOLEAN, MouseUp(drag)  PROVE IInv' /\ ToldOnLeaving
  <2>1. CASE FinishDrag(seatDevice)
    BY <1>1, <1>5, <2>1, OverStep DEF MouseUp, FinishDrag, Follows, IInv, TypeOK
  <2>2. CASE UNCHANGED <<source, dropPending, owner, told>>
    BY <1>1, <1>5, <2>2, AsideStep DEF MouseUp, Follows, IInv, TypeOK, seatVars
  <2> QED BY <1>5, <2>1, <2>2 DEF MouseUp
<1> QED BY <1>2, <1>3, <1>4, <1>5

-----------------------------------------------------------------------------
LEMMA NextStep == ASSUME IInv, Next  PROVE IInv' /\ ToldOnLeaving
<1>1. ASSUME Requests  PROVE IInv' /\ ToldOnLeaving
  BY <1>1, CreateSourceStep, DestroySourceStep, CreateDeviceStep, DestroyDeviceStep,
     HandleSetSelectionStep, HandleStartDragStep, OfferStep DEF Requests
<1>2. ASSUME Messages  PROVE IInv' /\ ToldOnLeaving
  BY <1>2, ForeignCopyStep, ClipboardChangedStep, SeatStep DEF Messages
<1> QED BY <1>1, <1>2 DEF Next

LEMMA StutterIInv == ASSUME IInv, UNCHANGED vars  PROVE IInv'
  BY DEF vars, seatVars, clipVars, IInv, TypeOK, SourcesAreHeld, NeverAgain, SelectionIsCurrent, Live

\* The inductive invariant, for any devices and sources: who points at whom, and what the
\* client was told.
THEOREM Invariance == Spec => []IInv
<1>1. Init => IInv
  BY InitIInv
<1>2. IInv /\ [Next]_vars => IInv'
  BY NextStep, StutterIInv
<1> QED BY <1>1, <1>2, PTL DEF Spec

\* TypeOK holds: a device that is not live has no source and no news waiting.
THEOREM TypeCorrect == Spec => []TypeOK
<1>1. IInv => TypeOK
  BY DEF IInv
<1> QED BY <1>1, Invariance, PTL

\* No fDataSource dangles, and its source knows the device, for any devices and sources
\* (HaikuDataDeviceManager.cpp:375-379, 790-814).
THEOREM SourceIsAliveCorrect == Spec => []SourceIsAlive
<1>1. IInv => SourceIsAlive
  BY DEF IInv, SourcesAreHeld, SourceIsAlive
<1> QED BY <1>1, Invariance, PTL

\* A source is told once that it is over, and is told when its device lets it go
\* (HaikuDataDeviceManager.cpp:667-728, 744-747, 790-814).
THEOREM SourcesAreToldOnceCorrect == Spec => SourcesAreToldOnce
<1> DEFINE ToldOnce == (\A s \in Sources : told'[s] # "again") /\ ToldOnLeaving
<1>1. IInv /\ [Next]_vars => [ToldOnce]_vars
  BY NextStep DEF IInv, NeverAgain
<1> QED BY <1>1, Invariance, PTL DEF Spec, SourcesAreToldOnce, ToldOnLeaving

\* The selection that was offered is the clipboard's once the news have arrived, whatever
\* changes overtook each other (HaikuDataDeviceManager.cpp:737-757, 913-933).
THEOREM SelectionIsCurrentCorrect == Spec => []SelectionIsCurrent
<1>1. IInv => SelectionIsCurrent
  BY DEF IInv
<1> QED BY <1>1, Invariance, PTL

-----------------------------------------------------------------------------
(* The conversion of data, for any types.                                   *)

LEMMA AddAllFacts ==
  ASSUME NEW f, NEW g
  PROVE  /\ DOMAIN AddAll(f, g) = DOMAIN f \cup DOMAIN g
         /\ \A n \in DOMAIN f : AddAll(f, g)[n] = f[n]
         /\ \A n \in DOMAIN g \ DOMAIN f : AddAll(f, g)[n] = g[n]
  BY DEF AddAll

LEMMA FieldsOfFacts ==
  ASSUME NEW names, NEW type, NEW value
  PROVE  /\ DOMAIN FieldsOf(names, type, value) = names
         /\ \A n \in names : FieldsOf(names, type, value)[n] = [type |-> type, value |-> value]
  BY DEF FieldsOf

\* The first of three fields that has data, if one has.
LEMMA FirstOfThree ==
  ASSUME NEW msg, NEW a, NEW b, NEW c
  PROVE  \/ /\ \E n \in {a, b, c} : HasData(msg, n) /\ FirstOf(msg, <<a, b, c>>) = msg[n].value
         \/ /\ \A n \in {a, b, c} : ~ HasData(msg, n)
            /\ FirstOf(msg, <<a, b, c>>) = Nothing
<1> DEFINE names == <<a, b, c>>
           there == {i \in DOMAIN names : HasData(msg, names[i])}
<1>1. DOMAIN names = {1, 2, 3} /\ names[1] = a /\ names[2] = b /\ names[3] = c
  OBVIOUS
<1> HIDE DEF names
<1>2. CASE there = {}
  BY <1>1, <1>2 DEF FirstOf, names
<1>3. CASE there # {}
  <2> DEFINE first == CHOOSE i \in there : \A j \in there : i <= j
  <2>1. \E i \in there : \A j \in there : i <= j
    <3>1. CASE 1 \in there
      BY <1>1, <3>1
    <3>2. CASE 1 \notin there /\ 2 \in there
      BY <1>1, <3>2
    <3>3. CASE 1 \notin there /\ 2 \notin there
      BY <1>1, <1>3, <3>3
    <3> QED BY <3>1, <3>2, <3>3
  <2>2. first \in there
    BY <2>1
  <2>3. FirstOf(msg, names) = msg[names[first]].value
    BY <1>3 DEF FirstOf
  <2> HIDE DEF first
  <2>4. HasData(msg, names[first]) /\ names[first] \in {a, b, c}
    BY <1>1, <2>2
  <2> QED BY <2>3, <2>4 DEF names
<1> QED BY <1>2, <1>3

\* What becomes of a client's data: under a type of texts there is a text, and under another
\* what was read for it, or something of Haiku's.
LEMMA ToMessageFacts ==
  ASSUME NEW src \in ClientData
  PROVE  LET msg == ReadData(src)
             fields == ConvertToHaikuMessage(msg)
         IN /\ (\E m \in Texts : HasData(msg, m)) => HasData(fields, Plain)
            /\ \A n \in DOMAIN fields :
                 \/ n \in HaikuNames
                 \/ /\ n = Plain /\ fields[n].type = Mime
                    /\ \E m \in Texts : m \in DOMAIN msg /\ fields[n].value = Data(src, m)
                 \/ n \notin Texts /\ n \in DOMAIN msg /\ fields[n] = msg[n]
<1> DEFINE msg == ReadData(src)
           fields == ConvertToHaikuMessage(msg)
           url == Url(msg)
           head == IF url = Nothing THEN NoFields ELSE Bookmark(url)
           text == ConvertText(msg)
           rest == DOMAIN msg \ (Texts \cup IF url = Nothing THEN {} ELSE UrlTypes)
           names == UNION {DOMAIN Converted(msg, m) : m \in rest}
           tail == [n \in names |-> LET m == CHOOSE m \in rest : n \in DOMAIN Converted(msg, m)
                                    IN Converted(msg, m)[n]]
           front == IF text = Nothing THEN head ELSE Add(head, Plain, Mime, text)
<1>1. fields = AddAll(front, tail)
  BY DEF ConvertToHaikuMessage
<1>2. DOMAIN msg = {m \in DOMAIN src \ Commands : src[m] # "empty"}
      /\ \A m \in DOMAIN msg : msg[m] = [type |-> Mime, value |-> Data(src, m)]
  BY DEF ReadData
<1>3. \A m \in DOMAIN msg : m \notin HaikuNames /\ Data(src, m) # Nothing
  BY <1>2, ClientDataAssumption DEF Data, Nothing
<1>4. DOMAIN head \subseteq HaikuNames
  <2> DEFINE strings == {"META:url", "META:title", "BEOS:TYPE", "name", "be:clip_name",
                         "be:filetypes", "be:types"}
             f == FieldsOf(strings, String, url)
             g == FieldsOf({"be:originator-data"}, Other, url)
  <2>1. DOMAIN f = strings /\ DOMAIN g = {"be:originator-data"}
    BY FieldsOfFacts
  <2>2. Bookmark(url) = AddAll(f, g)
    BY DEF Bookmark, Add
  <2>3. DOMAIN NoFields = {}
    BY DEF NoFields
  <2> HIDE DEF f, g, strings
  <2>4. DOMAIN Bookmark(url) = strings \cup {"be:originator-data"}
    BY <2>1, <2>2, AddAllFacts
  <2>5. strings \cup {"be:originator-data"} \subseteq HaikuNames
    BY DEF strings, HaikuNames
  <2> QED BY <2>3, <2>4, <2>5
<1>5. \/ \E m \in Texts : HasData(msg, m) /\ text = msg[m].value
      \/ (\A m \in Texts : ~ HasData(msg, m)) /\ text = Nothing
  BY FirstOfThree DEF ConvertText, Texts
<1>6. text # Nothing => \E m \in Texts : m \in DOMAIN msg /\ text = Data(src, m)
  BY <1>2, <1>5 DEF HasData
<1>7. (\E m \in Texts : HasData(msg, m)) => text # Nothing
  BY <1>2, <1>3, <1>5 DEF HasData
<1>8. Plain \notin HaikuNames
  BY DEF Plain, HaikuNames
<1> HIDE DEF head, text, tail, msg
<1>9. /\ DOMAIN front = DOMAIN head \cup (IF text = Nothing THEN {} ELSE {Plain})
      /\ text # Nothing => front[Plain] = [type |-> Mime, value |-> text]
  <2>1. CASE text = Nothing
    BY <2>1
  <2>2. CASE text # Nothing
    <3> DEFINE one == FieldsOf({Plain}, Mime, text)
    <3>1. DOMAIN one = {Plain} /\ one[Plain] = [type |-> Mime, value |-> text]
      BY FieldsOfFacts
    <3>2. front = AddAll(head, one)
      BY <2>2 DEF Add
    <3> HIDE DEF one, front
    <3>3. DOMAIN front = DOMAIN head \cup DOMAIN one
          /\ \A n \in DOMAIN one \ DOMAIN head : front[n] = one[n]
      BY <3>2 DEF AddAll
    <3> QED BY <1>4, <1>8, <2>2, <3>1, <3>3
  <2> QED BY <2>1, <2>2
<1>10. ASSUME NEW n \in names, n \notin HaikuNames
       PROVE  n \notin Texts /\ n \in DOMAIN msg /\ tail[n] = msg[n]
  <2>1. \A m \in rest : n \in DOMAIN Converted(msg, m) => m = n /\ Converted(msg, m)[n] = msg[n]
    <3> SUFFICES ASSUME NEW m \in rest, n \in DOMAIN Converted(msg, m)
                 PROVE  m = n /\ Converted(msg, m)[n] = msg[n]
      OBVIOUS
    <3>1. m \in DOMAIN msg /\ msg[m] = [type |-> Mime, value |-> msg[m].value]
      BY <1>2
    <3>2. CASE m = UriList \/ m = Png
      <4>1. DOMAIN NoFields = {} /\ UriList # Png
        BY DEF NoFields, UriList, Png
      <4>2. DOMAIN FieldsOf({"refs"}, Other, msg[m].value) = {"refs"}
            /\ DOMAIN FieldsOf({"image/bitmap"}, Other, msg[m].value) = {"image/bitmap"}
        BY FieldsOfFacts
      <4>3. DOMAIN Converted(msg, m) \subseteq {"refs", "image/bitmap"}
        BY <3>2, <4>1, <4>2 DEF Converted
      <4> QED BY <1>10, <4>3 DEF HaikuNames
    <3>3. CASE m # UriList /\ m # Png
      <4>1. Converted(msg, m) = FieldsOf({m}, Mime, msg[m].value)
        BY <3>3 DEF Converted
      <4>2. DOMAIN FieldsOf({m}, Mime, msg[m].value) = {m}
            /\ FieldsOf({m}, Mime, msg[m].value)[m] = [type |-> Mime, value |-> msg[m].value]
        BY FieldsOfFacts
      <4> QED BY <3>1, <4>1, <4>2
    <3> QED BY <3>2, <3>3
  <2>2. PICK m \in rest : n \in DOMAIN Converted(msg, m)
    OBVIOUS
  <2>3. (CHOOSE k \in rest : n \in DOMAIN Converted(msg, k)) = n
    BY <2>1, <2>2
  <2> QED BY <2>1, <2>2, <2>3 DEF tail
<1> HIDE DEF front, fields, names
<1>11. /\ DOMAIN fields = DOMAIN front \cup names
       /\ \A n \in DOMAIN front : fields[n] = front[n]
       /\ \A n \in names \ DOMAIN front : fields[n] = tail[n]
  <2>1. DOMAIN tail = names
    BY DEF tail
  <2> QED BY <1>1, <2>1 DEF AddAll
<1>12. ASSUME NEW n \in DOMAIN fields, n \notin HaikuNames
       PROVE \/ /\ n = Plain /\ fields[n].type = Mime
                /\ \E m \in Texts : m \in DOMAIN msg /\ fields[n].value = Data(src, m)
             \/ n \notin Texts /\ n \in DOMAIN msg /\ fields[n] = msg[n]
  <2>1. CASE n \in DOMAIN front
    <3>1. n = Plain /\ text # Nothing /\ fields[n] = front[n]
      BY <1>4, <1>9, <1>11, <1>12, <2>1
    <3> QED BY <1>6, <1>9, <3>1
  <2>2. CASE n \notin DOMAIN front
    <3>1. n \in names /\ fields[n] = tail[n]
      BY <1>11, <1>12, <2>2
    <3> QED BY <1>10, <1>12, <3>1
  <2> QED BY <2>1, <2>2
<1>13. (\E m \in Texts : HasData(msg, m)) => HasData(fields, Plain)
  BY <1>7, <1>9, <1>11 DEF HasData
<1> QED BY <1>12, <1>13 DEF msg, fields

\* The same types, and under each the data a client sent for it (HaikuDataDeviceManager.cpp:199-373).
LEMMA ReachesClientsHolds == ReachesClients
<1> SUFFICES ASSUME NEW src \in ClientData
             PROVE  LET offer == CreateOffer(ToMessage(src)) IN
                      /\ offer.types = DOMAIN src
                      /\ \A m \in offer.types \ Commands : LET got == HandleReceive(offer, m) IN
                           \/ got # Nothing /\ MayStandFor(got.of, m)
                           \/ got = Nothing /\ src[m] = "empty"
  BY DEF ReachesClients
<1> DEFINE raw == ReadData(src)
           fields == ConvertToHaikuMessage(raw)
           data == AddAll(fields, raw)
           offer == CreateOffer(ToMessage(src))
<1>1. offer = [types |-> DOMAIN src, data |-> data]
  BY DEF CreateOffer, ToMessage, OfferOurs
<1>2. DOMAIN raw = {m \in DOMAIN src \ Commands : src[m] # "empty"}
      /\ \A m \in DOMAIN raw : raw[m] = [type |-> Mime, value |-> Data(src, m)]
  BY DEF ReadData
<1>3. \A m \in DOMAIN src : m \notin HaikuNames /\ Data(src, m) # Nothing /\ Data(src, m).of = m
  BY ClientDataAssumption DEF Data, Nothing
<1>4. \A n \in DOMAIN fields :
        \/ n \in HaikuNames
        \/ /\ n = Plain /\ fields[n].type = Mime
           /\ \E m \in Texts : m \in DOMAIN raw /\ fields[n].value = Data(src, m)
        \/ n \notin Texts /\ n \in DOMAIN raw /\ fields[n] = raw[n]
  BY ToMessageFacts
<1>5. data = [n \in DOMAIN fields \cup DOMAIN raw |-> IF n \in DOMAIN fields THEN fields[n] ELSE raw[n]]
  BY DEF AddAll
<1> HIDE DEF raw, fields, data, offer
<1>6. \A n \in DOMAIN data : data[n] = IF n \in DOMAIN fields THEN fields[n] ELSE raw[n]
  BY <1>5
<1>7. DOMAIN data = DOMAIN fields \cup DOMAIN raw
  BY <1>5
<1>8. ASSUME NEW n, n \in DOMAIN data \cap (DOMAIN src \cup Texts)
      PROVE  /\ HasData(data, n) /\ data[n].value # Nothing
             /\ data[n].value.of = n \/ (n = Plain /\ data[n].value.of \in Texts)
  <2>1. n \notin HaikuNames
    BY <1>3, <1>8 DEF Texts, Plain, Utf8, Utf8String, HaikuNames
  <2>2. CASE n \in DOMAIN raw /\ data[n] = raw[n]
    BY <1>2, <1>3, <1>7, <1>8, <2>2 DEF HasData
  <2>3. CASE ~ (n \in DOMAIN raw /\ data[n] = raw[n])
    <3>1. n = Plain /\ fields[n].type = Mime /\ data[n] = fields[n]
          /\ \E m \in Texts : m \in DOMAIN raw /\ fields[n].value = Data(src, m)
      BY <1>4, <1>6, <1>7, <1>8, <2>1, <2>3
    <3>2. PICK m \in Texts : m \in DOMAIN src /\ data[n].value = Data(src, m)
      BY <1>2, <3>1
    <3> QED BY <1>3, <1>8, <3>1, <3>2 DEF HasData
  <2> QED BY <2>2, <2>3
<1>9. ASSUME NEW m \in DOMAIN src \ Commands
      PROVE  LET got == HandleReceive(offer, m) IN
               \/ got # Nothing /\ MayStandFor(got.of, m)
               \/ got = Nothing /\ src[m] = "empty"
  <2> DEFINE n == IF m = Utf8 /\ ~ HasData(data, Utf8) THEN Plain ELSE m
             got == HandleReceive(offer, m)
  <2>1. got = FindData(data, n)
    BY <1>1 DEF HandleReceive
  <2>2. src[m] # "empty" => m \in DOMAIN data
    BY <1>2, <1>7
  <2>3. CASE n \in DOMAIN data
    <3>1. n = m \/ (m = Utf8 /\ n = Plain)
      OBVIOUS
    <3>2. n \in DOMAIN src \cup Texts /\ Plain \in Texts
      BY <3>1 DEF Texts
    <3> HIDE DEF n, got
    <3>3. got = data[n].value /\ got # Nothing /\ (got.of = n \/ (n = Plain /\ got.of \in Texts))
      BY <1>8, <2>1, <2>3, <3>2 DEF FindData
    <3>4. MayStandFor(got.of, m)
      BY <3>1, <3>2, <3>3 DEF MayStandFor
    <3> QED BY <3>3, <3>4 DEF got
  <2>4. CASE n \notin DOMAIN data
    <3>1. got = Nothing
      BY <2>1, <2>4 DEF FindData, HasData
    <3>2. m \notin DOMAIN data
      <4>1. CASE m = Utf8 /\ m \in DOMAIN data
        BY <1>8, <2>4, <4>1 DEF Texts
      <4> QED BY <2>4, <4>1
    <3> QED BY <2>2, <3>1, <3>2
  <2> QED BY <2>3, <2>4
<1>10. offer.types = DOMAIN src
  BY <1>1
<1> QED BY <1>9, <1>10 DEF offer

LEMMA ReachesHaikuHolds == ReachesHaiku
<1> SUFFICES ASSUME NEW src \in ClientData, NEW m \in Texts \cap DOMAIN src, src[m] # "empty"
             PROVE  HasData(ToMessage(src).fields, Plain)
  BY DEF ReachesHaiku
<1>1. m \notin Commands
  BY DEF Texts, Commands, Plain, Utf8, Utf8String
<1>2. HasData(ReadData(src), m)
  BY <1>1 DEF HasData, ReadData
<1>3. HasData(ConvertToHaikuMessage(ReadData(src)), Plain)
  BY <1>2, ToMessageFacts
<1> QED BY <1>3 DEF ToMessage

-----------------------------------------------------------------------------
(* An offer of a message by another program.                                *)

\* Whatever is offered is in the message, or was added for one of its fields.
Readable(msg, offer) ==
  /\ \A n \in DOMAIN msg : n \in DOMAIN offer.data /\ offer.data[n] = msg[n]
  /\ \A n \in DOMAIN offer.data \ DOMAIN msg :
       offer.data[n].type = Mime /\ offer.data[n].value # Nothing
  /\ \A n \in offer.types : /\ n \in DOMAIN msg => msg[n].type \in {Mime, String}
                            /\ n \in DOMAIN offer.data \/ (n = Utf8 /\ Plain \in DOMAIN offer.data)

LEMMA OfferMoreReadable ==
  ASSUME NEW msg \in HaikuData, NEW offer, Readable(msg, offer), NEW value, value # Nothing,
         NEW names \in SUBSET (AsUrl \cup {Png})
  PROVE  Readable(msg, OfferMore(offer, names, value))
<1> DEFINE new == FieldsOf(names, Mime, value)
           more == OfferMore(offer, names, value)
<1>1. more.types = offer.types \cup names /\ more.data = AddAll(offer.data, new)
  BY DEF OfferMore
<1>2. DOMAIN new = names /\ \A n \in names : new[n] = [type |-> Mime, value |-> value]
  BY FieldsOfFacts
<1>3. /\ DOMAIN more.data = DOMAIN offer.data \cup names
      /\ \A n \in DOMAIN offer.data : more.data[n] = offer.data[n]
      /\ \A n \in names \ DOMAIN offer.data : more.data[n] = [type |-> Mime, value |-> value]
  <2> HIDE DEF new, more
  <2> QED BY <1>1, <1>2 DEF AddAll
<1>4. \A n \in names : n \in DOMAIN msg => msg[n].type \in {Mime, String}
  BY HaikuDataAssumption
<1> HIDE DEF new, more
<1>5. Readable(msg, more)
  BY <1>1, <1>3, <1>4 DEF Readable
<1> QED BY <1>5 DEF more

LEMMA OfferMissingReadable ==
  ASSUME NEW msg \in HaikuData, NEW offer, Readable(msg, offer), NEW value, value # Nothing,
         NEW names \in SUBSET (AsUrl \cup {Png})
  PROVE  Readable(msg, OfferMissing(offer, names, value))
  BY OfferMoreReadable DEF OfferMissing

LEMMA OfferForeignReadable ==
  ASSUME NEW msg \in HaikuData  PROVE Readable(msg, OfferForeign(msg))
<1> DEFINE origin == Field(msg, "be:originator-data")
           meta == Field(msg, "META:url")
           refs == Field(msg, "refs")
           bitmap == Field(msg, "image/bitmap")
           o1 == OfferFields(msg)
           o2 == IF origin.is = "url" THEN OfferMore(o1, AsUrl, origin) ELSE o1
           o3 == IF meta.is = "url" THEN OfferMissing(o2, AsUrl, meta) ELSE o2
           o4 == IF refs.is = "bookmark" THEN OfferMissing(o3, AsUrl, refs) ELSE o3
           o5 == IF refs.is \in {"bookmark", "files"}
                 THEN OfferMissing(OfferMore(o4, {UriList}, refs), {Plain, Utf8}, refs) ELSE o4
           o6 == IF bitmap.is = "image" THEN OfferMore(o5, {Png}, bitmap) ELSE o5
<1>1. OfferForeign(msg) = o6
  BY DEF OfferForeign
<1>2. Readable(msg, o1)
  <2>1. o1.data = msg /\ o1.types = {n \in DOMAIN msg : msg[n].type \in {Mime, String}}
          \cup (IF Plain \in {n \in DOMAIN msg : msg[n].type \in {Mime, String}} THEN {Utf8} ELSE {})
    BY DEF OfferFields
  <2>2. Utf8 \in DOMAIN msg => msg[Utf8].type \in {Mime, String}
    BY HaikuDataAssumption DEF AsUrl
  <2> HIDE DEF o1
  <2> QED BY <2>1, <2>2 DEF Readable
<1>3. \A v : v.is \in {"url", "bookmark", "files", "image"} => v # Nothing
  BY DEF Nothing
<1>4. /\ AsUrl \in SUBSET (AsUrl \cup {Png}) /\ {UriList} \in SUBSET (AsUrl \cup {Png})
      /\ {Plain, Utf8} \in SUBSET (AsUrl \cup {Png}) /\ {Png} \in SUBSET (AsUrl \cup {Png})
  BY DEF AsUrl
<1> HIDE DEF origin, meta, refs, bitmap, o1
<1>5. Readable(msg, o2)
  BY <1>2, <1>3, <1>4, OfferMoreReadable
<1> HIDE DEF o2
<1>6. Readable(msg, o3)
  BY <1>3, <1>4, <1>5, OfferMissingReadable
<1> HIDE DEF o3
<1>7. Readable(msg, o4)
  BY <1>3, <1>4, <1>6, OfferMissingReadable
<1> HIDE DEF o4
<1>8. Readable(msg, o5)
  <2>1. CASE refs.is \in {"bookmark", "files"}
    <3>1. refs # Nothing
      BY <1>3, <2>1
    <3>2. Readable(msg, OfferMore(o4, {UriList}, refs))
      BY <1>4, <1>7, <3>1, OfferMoreReadable
    <3> QED BY <1>4, <2>1, <3>1, <3>2, OfferMissingReadable
  <2> QED BY <1>7, <2>1
<1> HIDE DEF o5
<1>9. Readable(msg, o6)
  BY <1>3, <1>4, <1>8, OfferMoreReadable
<1> QED BY <1>1, <1>9

LEMMA OffersAreReadableHolds == OffersAreReadable
<1> SUFFICES ASSUME NEW msg \in HaikuData, NEW m \in OfferForeign(msg).types,
                    HandleReceive(OfferForeign(msg), m) = Nothing
             PROVE  LET n == IF m = Utf8 /\ m \notin DOMAIN msg THEN Plain ELSE m
                    IN n \in DOMAIN msg /\ msg[n].type = String
  BY DEF OffersAreReadable
<1> DEFINE data == OfferForeign(msg).data
<1>1. Readable(msg, OfferForeign(msg))
  BY OfferForeignReadable
<1>2. \A n \in DOMAIN msg : msg[n].type = Mime => msg[n].value # Nothing
  BY HaikuDataAssumption
<1>3. ASSUME NEW n \in DOMAIN data, FindData(data, n) = Nothing
      PROVE  n \in DOMAIN msg /\ msg[n].type # Mime
  BY <1>1, <1>2, <1>3 DEF Readable, FindData, HasData
<1>4. m \in DOMAIN msg => msg[m].type \in {Mime, String}
  BY <1>1 DEF Readable
<1>5. Plain \in DOMAIN msg => msg[Plain].type \in {Mime, String}
  BY HaikuDataAssumption DEF AsUrl
<1>6. m \in DOMAIN data \/ (m = Utf8 /\ Plain \in DOMAIN data)
  BY <1>1 DEF Readable
<1>7. CASE m = Utf8 /\ ~ HasData(data, Utf8)
  <2>1. FindData(data, Plain) = Nothing
    BY <1>7 DEF HandleReceive
  <2>2. CASE m \in DOMAIN data
    <3>1. FindData(data, m) = Nothing
      BY <1>7 DEF FindData
    <3> QED BY <1>3, <1>4, <2>2, <3>1
  <2>3. CASE m \notin DOMAIN data
    <3>1. m \notin DOMAIN msg
      BY <1>1, <2>3 DEF Readable
    <3>2. Plain \in DOMAIN msg /\ msg[Plain].type # Mime
      BY <1>3, <1>6, <2>1, <2>3
    <3> QED BY <1>5, <1>7, <3>1, <3>2
  <2> QED BY <2>2, <2>3
<1>8. CASE ~ (m = Utf8 /\ ~ HasData(data, Utf8))
  <2>1. FindData(data, m) = Nothing
    BY <1>8 DEF HandleReceive
  <2>2. m \in DOMAIN data
    BY <1>6, <1>8 DEF HasData
  <2>3. m \in DOMAIN msg /\ msg[m].type = String
    BY <1>3, <1>4, <2>1, <2>2
  <2> QED BY <2>3
<1> QED BY <1>7, <1>8

\* No data are lost or taken for others between clients and Haiku's programs, for any types a
\* client offers and any fields of a program's message (HaikuDataDeviceManager.cpp:199-373,
\* 472-697), if clients offer no type named like a field that Haiku makes.
THEOREM DataAreKeptCorrect == DataAreKept
  BY ReachesClientsHolds, ReachesHaikuHolds, OffersAreReadableHolds DEF DataAreKept

\* What the run data_device evaluates.
THEOREM DataFormatsHoldCorrect == Spec => []DataFormatsHold
<1>1. DataFormatsHold
  BY DataAreKeptCorrect DEF DataFormatsHold
<1> QED BY <1>1, PTL

=============================================================================
