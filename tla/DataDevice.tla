----------------------------- MODULE DataDevice -----------------------------
(***************************************************************************)
(* Clipboard and drag and drop: HaikuDataDeviceManager.cpp, with what the   *)
(* seat and the views ask of a data device.  A device and its source point  *)
(* at each other; offers and the seat point at a device.  Every handler     *)
(* owns the server's lock or runs on its thread, so it is one action, but   *)
(* the news that the clipboard has changed reach a device later.            *)
(*                                                                         *)
(* A client uses a source once, as the protocol asks.  What is on the       *)
(* clipboard is named by the source or the program it came from.            *)
(***************************************************************************)
EXTENDS Naturals

CONSTANTS
  Devices,    \* wl_data_device objects
  Sources,    \* wl_data_source objects
  Contents,   \* what other programs put on the clipboard
  None,       \* no device, source or content
  MaxNotices  \* bound on the notices a device may have waiting

ASSUME NamesAssumption == /\ None \notin Devices \cup Sources \cup Contents
                          /\ Devices \cap Sources = {}
ASSUME MaxNoticesAssumption == MaxNotices \in Nat \ {0}

Lives == {"new", "live", "dead"}

VARIABLES
  life,         \* of each device and source
  source,       \* fDataSource of each device
  dropPending,  \* the devices whose fDropPending is set
  owner,        \* fDataDevice of each source
  seatDevice,   \* fDataDevice of the seat
  offered,      \* the devices whose offers the client still has
  clipboard,    \* what is on it
  notices,      \* B_CLIPBOARD_CHANGED messages waiting for each device
  selection,    \* what was offered to the client as each device's selection
  unchanged,    \* devices made since the clipboard last changed
  told,         \* each source, for the client: "fresh", "used", "over", or "again"
                \* when it was sent an event after it was over
  undefined     \* a pointer to a device that is gone was followed

vars == <<life, source, dropPending, owner, seatDevice, offered, clipboard, notices,
          selection, unchanged, told, undefined>>
seatVars == <<seatDevice, offered>>
clipVars == <<clipboard, notices, selection, unchanged>>

Live(x) == life[x] = "live"

TypeOK == /\ life \in [Devices \cup Sources -> Lives]
          /\ source \in [Devices -> Sources \cup {None}]
          /\ dropPending \subseteq Devices
          /\ owner \in [Sources -> Devices \cup {None}]
          /\ seatDevice \in Devices \cup {None}
          /\ offered \subseteq Devices
          /\ clipboard \in Sources \cup Contents \cup {None}
          /\ notices \in [Devices -> 0..MaxNotices]
          /\ selection \in [Devices -> Sources \cup Contents \cup {None}]
          /\ unchanged \subseteq Devices
          /\ told \in [Sources -> {"fresh", "used", "over", "again"}]
          /\ undefined \in BOOLEAN
          /\ \A d \in Devices : life[d] # "live" => source[d] = None /\ notices[d] = 0

Init == /\ life = [x \in Devices \cup Sources |-> "new"]
        /\ source = [d \in Devices |-> None]
        /\ dropPending = {}
        /\ owner = [s \in Sources |-> None]
        /\ seatDevice = None
        /\ offered = {}
        /\ clipboard = None
        /\ notices = [d \in Devices |-> 0]
        /\ selection = [d \in Devices |-> None]
        /\ unchanged = {}
        /\ told = [s \in Sources |-> "fresh"]
        /\ undefined = FALSE

-----------------------------------------------------------------------------
(* Steps that handlers share.                                               *)

\* A target or an action is sent to the device's source.
Event(d) == told' = IF source[d] = None THEN told
                    ELSE [told EXCEPT ![source[d]] = IF @ = "over" THEN "again" ELSE @]

\* It is told that it was cancelled, or that the drop is finished.
Over(d) == told' = IF source[d] = None THEN told
                   ELSE [told EXCEPT ![source[d]] = IF @ = "used" THEN "over" ELSE "again"]

\* Fault: the device keeps the source.
LetGoHalf(d) ==
  /\ UNCHANGED source
  /\ owner' = [s \in Sources |-> IF s = source[d] THEN None ELSE owner[s]]

\* The device and its source forget each other.
LetGo(d) ==
  /\ source' = [source EXCEPT ![d] = None]
  /\ owner' = [s \in Sources |-> IF s = source[d] THEN None ELSE owner[s]]

\* Fault: the source is not told whose it is.
TakeHalf(d, s) == source' = [source EXCEPT ![d] = s] /\ UNCHANGED owner

\* fDataSource = source; source->fDataDevice = this.
Take(d, s) ==
  /\ source' = [source EXCEPT ![d] = s]
  /\ owner' = [owner EXCEPT ![s] = d]

\* The clipboard tells everybody who watches it.
ClipboardBecomes(content) ==
  /\ \A d \in Devices : notices[d] < MaxNotices
  /\ clipboard' = content
  /\ notices' = [d \in Devices |-> IF Live(d) THEN notices[d] + 1 ELSE 0]
  /\ unchanged' = {}
  /\ UNCHANGED selection

\* HaikuDataOffer::Create: the client gets an offer that points to the device, with a copy
\* of the data in all the types it can be given in.
Offer(d) == offered' = offered \cup {d}

\* A pointer to device d is followed; if the device is gone, anything may happen.
Follows(d) == undefined' = ~ Live(d)

-----------------------------------------------------------------------------
(* Requests.                                                                *)

CreateSource(s) ==
  /\ life[s] = "new"
  /\ life' = [life EXCEPT ![s] = "live"]
  /\ UNCHANGED <<source, dropPending, owner, seatVars, clipVars, told, undefined>>

\* ~HaikuDataSource looks at the device it was used with.
Forget(s) ==
  source' = [d \in Devices |-> IF d = owner[s] /\ source[d] = s THEN None ELSE source[d]]

DestroySource(s) ==
  /\ Live(s)
  /\ life' = [life EXCEPT ![s] = "dead"]
  /\ IF owner[s] = None THEN UNCHANGED <<source, undefined>>
     ELSE Follows(owner[s]) /\ Forget(s)
  /\ UNCHANGED <<dropPending, owner, seatVars, clipVars, told>>

\* The seat keeps the last device; the clipboard is watched from now on.
CreateDevice(d) ==
  /\ life[d] = "new"
  /\ life' = [life EXCEPT ![d] = "live"]
  /\ seatDevice' = d
  /\ unchanged' = unchanged \cup {d}
  /\ UNCHANGED <<source, dropPending, owner, offered, clipboard, notices, selection, told,
                 undefined>>

\* ~HaikuDataDevice: CancelDrag, and no more notices.  The seat and the offers keep it.
DestroyDevice(d) ==
  /\ Live(d)
  /\ life' = [life EXCEPT ![d] = "dead"]
  /\ dropPending' = dropPending \ {d}
  /\ Over(d)
  /\ LetGo(d)
  /\ notices' = [notices EXCEPT ![d] = 0]
  /\ UNCHANGED <<seatVars, clipboard, selection, unchanged, undefined>>

\* The data is read from the client first.  If the clipboard cannot be cleared, nothing
\* comes of it, which the client is not told; whether its new content can be committed is not
\* looked at.
HandleSetSelection(d, s, cleared, committed) ==
  /\ Live(d) /\ Live(s) /\ told[s] = "fresh"
  /\ told' = [told EXCEPT ![s] = "used"]
  /\ IF cleared THEN Take(d, s) ELSE UNCHANGED <<source, owner>>
  /\ IF cleared /\ committed THEN ClipboardBecomes(s) ELSE UNCHANGED clipVars
  /\ UNCHANGED <<life, dropPending, seatVars, undefined>>

\* Without a view to drag from, all that happens is that the last drop is forgotten; a
\* drag without a source leaves the device's.
HandleStartDrag(d, s, hasView) ==
  /\ Live(d)
  /\ dropPending' = dropPending \ {d}
  /\ IF s = None THEN UNCHANGED told
     ELSE Live(s) /\ told[s] = "fresh" /\ told' = [told EXCEPT ![s] = "used"]
  /\ IF s # None /\ hasView THEN Take(d, s) ELSE UNCHANGED <<source, owner>>
  /\ UNCHANGED <<life, seatVars, clipVars, undefined>>

\* An offer's accept and set_actions are passed on to the source of its device.
OfferEvent(d) ==
  /\ d \in offered
  /\ Follows(d)
  /\ Event(d)
  /\ UNCHANGED <<life, source, dropPending, owner, seatVars, clipVars>>

HandleFinish(d) ==
  /\ d \in offered
  /\ Follows(d)
  /\ Over(d)
  /\ LetGo(d)
  /\ UNCHANGED <<life, dropPending, seatVars, clipVars>>

\* The client destroys the last offer that came from d.
DestroyOffers(d) ==
  /\ d \in offered
  /\ offered' = offered \ {d}
  /\ UNCHANGED <<life, source, dropPending, owner, seatDevice, clipVars, told, undefined>>

-----------------------------------------------------------------------------
(* Messages.                                                                *)

\* Another program copies something.
ForeignCopy(content) ==
  /\ ClipboardBecomes(content)
  /\ UNCHANGED <<life, source, dropPending, owner, seatVars, told, undefined>>

\* Fault: a change is passed over when a source of the client's own is held.
TellSelectionOfOthers(d) ==
  /\ source' = [source EXCEPT ![d] = None]
  /\ selection' = IF source[d] = None THEN [selection EXCEPT ![d] = clipboard] ELSE selection
  /\ Offer(d)

\* The device's source is over, though it keeps the device; what is on the clipboard by
\* now is offered.
TellSelection(d) ==
  /\ source' = [source EXCEPT ![d] = None]
  /\ selection' = [selection EXCEPT ![d] = clipboard]
  /\ Offer(d)

\* ClipboardWatcher::MessageReceived.
ClipboardChanged(d) ==
  /\ notices[d] > 0
  /\ notices' = [notices EXCEPT ![d] = @ - 1]
  /\ Over(d)
  /\ TellSelection(d)
  /\ UNCHANGED <<life, dropPending, owner, seatDevice, clipboard, unchanged, undefined>>

\* A drag comes to a surface of the client: HaikuSeatGlobal::SetPointerFocus.
DragEnter ==
  /\ seatDevice # None
  /\ Follows(seatDevice)
  /\ Offer(seatDevice)
  /\ UNCHANGED <<life, source, dropPending, owner, seatDevice, clipVars, told>>

Drop ==
  /\ seatDevice # None
  /\ Follows(seatDevice)
  /\ dropPending' = dropPending \cup {seatDevice}
  /\ UNCHANGED <<life, source, owner, seatVars, clipVars, told>>

\* Fault: the drag is finished twice, now and by the offer.
FinishDragKeeping(d) ==
  /\ dropPending' = dropPending \ {d}
  /\ Over(d)
  /\ LetGoHalf(d)

FinishDrag(d) ==
  /\ dropPending' = dropPending \ {d}
  /\ Over(d)
  /\ LetGo(d)

\* A button is released outside a drag over the client's surfaces: the drag is finished.
MouseUp(tracksDrag) ==
  /\ seatDevice # None
  /\ Follows(seatDevice)
  /\ IF source[seatDevice] # None /\ seatDevice \notin dropPending /\ ~ tracksDrag
     THEN FinishDrag(seatDevice)
     ELSE UNCHANGED <<source, dropPending, owner, told>>
  /\ UNCHANGED <<life, seatVars, clipVars>>

\* The program that was dropped on asks for a file to be made, which is only done of a
\* bookmark and finishes the drag.
HandleCopyTargetReply(bookmark) ==
  /\ seatDevice # None
  /\ Follows(seatDevice)
  /\ IF bookmark THEN FinishDrag(seatDevice) ELSE UNCHANGED <<source, dropPending, owner, told>>
  /\ UNCHANGED <<life, seatVars, clipVars>>

-----------------------------------------------------------------------------
Requests ==
  \/ \E s \in Sources : CreateSource(s) \/ DestroySource(s)
  \/ \E d \in Devices : CreateDevice(d) \/ DestroyDevice(d)
  \/ \E d \in Devices, s \in Sources, cleared, committed \in BOOLEAN :
       HandleSetSelection(d, s, cleared, committed)
  \/ \E d \in Devices, s \in Sources \cup {None}, view \in BOOLEAN : HandleStartDrag(d, s, view)
  \/ \E d \in Devices : OfferEvent(d) \/ HandleFinish(d) \/ DestroyOffers(d)

Messages ==
  \/ \E c \in Contents : ForeignCopy(c)
  \/ \E d \in Devices : ClipboardChanged(d)
  \/ DragEnter \/ Drop
  \/ \E drag \in BOOLEAN : MouseUp(drag)
  \/ \E bookmark \in BOOLEAN : HandleCopyTargetReply(bookmark)

\* Nothing is said of the program once it has used a device that is gone.
Next == ~ undefined /\ (Requests \/ Messages)

Spec == Init /\ [][Next]_vars

-----------------------------------------------------------------------------
(* Properties.                                                              *)

\* A device's source is alive and knows the device, so that the device is told before the
\* source goes: through selections, drags, clipboard changes and finished drops, and with
\* several devices and sources, no fDataSource dangles
\* (HaikuDataDeviceManager.cpp:375-379, 699-710, 744-747, 790-814, 863-866, 931-932).
SourceIsAlive ==
  ~ undefined =>
    \A d \in Devices : source[d] # None => Live(source[d]) /\ owner[source[d]] = d

\* A source is told once that it is over and nothing after that, and a device that lets a
\* living source go for no other has told it so (HaikuDataDeviceManager.cpp:667-728,
\* 744-747, 790-814).
SourcesAreToldOnce ==
  [][ /\ \A s \in Sources : told'[s] # "again"
      /\ \A d \in Devices, s \in Sources :
           source[d] = s /\ source'[d] = None /\ life'[s] = "live" => told'[s] = "over" ]_vars

\* The selection a client was offered is what is on the clipboard, once the news of it
\* have arrived, however many changes of its own and of others overtook each other
\* (HaikuDataDeviceManager.cpp:737-757, 913-933).
SelectionIsCurrent ==
  \A d \in Devices :
    Live(d) /\ notices[d] = 0 /\ d \notin unchanged => selection[d] = clipboard

=============================================================================
