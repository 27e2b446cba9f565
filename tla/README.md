# wayland-server: a TLA+ model, its checks and its proofs

wayland-server is a Wayland compositor for Haiku that runs inside the client's own process:
the client's libwayland is replaced (`wl_ips_*`), its requests are posted as messages to the
looper `gServerHandler`, and every toplevel, popup and subsurface is a Haiku window or a view
of one. The screen is drawn by Haiku's app_server. What makes the program hard is the meeting
of two worlds of threads and locks: a BWindow has a thread and a recursive lock each, Wayland
objects have one thread and one lock for all.

This directory holds TLA+ modules for the parts that have behaviour worth checking, TLC
configurations that check them on small instances, and TLAPS proofs that they keep their
invariants in instances of any size. `PROJECT.json` ties each definition to the source lines it
stands for, and lists runs, mutants, findings, hazards and theorems.

## Inventory

| Component | State it keeps | Operations | Hard behaviour | What makes it correct |
|---|---|---|---|---|
| Lock hand-over (`WaylandEnv.h`, `AppKitPtrs.h`) | `fActiveWlEnv` of a view, `fWaitSem`, locks and how often they are owned | constructor and destructor around each hook; `Wait` in `Detach`; `LockedPtr` | two lock orders; a request removes a view whose hook runs; a waiter is woken once | a hook's view stays; no deadlock, no lost wakeup; locks are as before |
| Views (`HaikuCompositor.cpp`) | `fView`, the view tree | `AttachWindow`, `AttachView`, `Detach`, `RemoveDescendantsAndSelf`, the hooks of `WaylandView` | as above, for a tree of views | as above |
| Surface state (`HaikuCompositor.cpp`) | `fPendingState`, `fState`, `pendingFields` | `HandleAttach`, setters, `HandleCommit` | fields applied by mark, regions moved, buffers shared by reference | a commit applies all and only what was set; a buffer is released when, and only when, it is replaced |
| Shared memory (`HaikuShm.*`) | pools, areas, buffers, reference counts | create, resize, destroy | buffers outlive pools, mapping fails | nothing used is freed, nothing unused kept |
| Frame callbacks (`HaikuCompositor.cpp`, `util/DoublyLinkedList.h`) | two intrusive lists | `HandleFrame`, `HandleCommit`, `CallFrameCallbacks` from `Draw` or `Pulse` | two threads on one list | each sent once, in order, in the end |
| Subsurfaces (`HaikuSubcompositor.*`) | parent, list of children, offsets | create, destroy, position | destruction in any order | no dead parent or child is followed |
| Seat (`HaikuSeat.*`) | `fPointerFocus`, `fKeyboardFocus`, `fTrack`, buttons, input objects | `MessageReceived`, `SetPointerFocus`, `SetKeyboardFocus`, `DoTrack`, `WindowActivated` | grabs, drags and focus intertwined; surfaces destroyed under focus; late objects | the client's picture is the seat's |
| xdg_surface, xdg_toplevel (`HaikuXdgSurface.*`, `HaikuXdgToplevel.*`) | geometry, serials, size and state | configure, ack, commit, `FrameResized`, full screen, decoration | client and user resize at once; stale acks | the user's resize is not undone |
| Windows of roles (`HaikuXdgToplevel.*`, `HaikuXdgPopup.*`) | the window, `fToplevel` in it | create, close, destroy | closing races destruction | a window goes once, without a view in it |
| Positioner (`HaikuXdgPositioner.*`) | sizes, anchor, gravity, adjustments | setters, `GetPosition` | flipping, sliding, odd sizes | inside if possible, moved only as allowed |
| Decoration (`HaikuServerDecoration.*`) | mode, `fServerDecoration` of the surface | create, `HandleRequestMode`, release | order against toplevel and first buffer; a second decoration; one released and still named | the window looks as the mode says; the client knows it |
| Clipboard, drag and drop (`HaikuDataDeviceManager.*`) | who points at whom; the drop that is pending | selection, drag, offers, clipboard changes; conversion of data types | each object may be destroyed first; news come late; types stand for each other | no dead source; told once; the offer is current; no data lost |
| Text input (`HaikuTextInput.*`) | composition, serial | commit, input method messages | one composition for all inputs and all windows; activation and input method events in several queues | each confirmed text is committed once, in order, where the focus is |
| Viewporter (`HaikuViewporter.*`) | - (in the surface) | set source, destination; destroy | outlives its surface | the view has the size of what it shows |
| Connection (`WaylandServer.*`) | display, one client | `wl_ips_client_connected`, `wl_ips_closure_send`; disconnection is a TODO | - | requests are served in order on one thread |
| Globals, resources (`WlGlobal.*`, `WlResource.*`, `HaikuXdgShell.*`) | the tie to libwayland's resource | bind, destroy | - | - |
| Output (`HaikuOutput.*`), keymap and key codes (`XkbKeymap.*`, `WaylandKeycodes.h`), `meson.build` | none | events at bind; text | - | - |

How they interact: requests reach all of them on the server thread, which owns the server's
lock; app_server messages reach `WaylandView` and the windows on window threads, which take
that lock through `WaylandEnv` before they enter the seat, the data device, the text input or
the xdg objects. `Pulse` takes no lock (the first finding below). The seat calls the data
device and the text input; the surface calls its role through `SurfaceHook`; the roles own
the windows the surface's view is attached to.

## Modules

`WaylandEnv` and `ViewGate` come first, since every other module relies on them. Where a
handler of the seat, a role or the data device is one action, it is because `WaylandEnv`
gives it the server's lock for all of it, and where it is not (`Detached` in `Seat` and
`XdgWindows`, `DetachStep` in `Subsurfaces`) it is because `WaylandEnv::Wait` gives that lock up.

| Module | Models | State and actions |
|---|---|---|
| `ViewGate` | what the hand-over promises: a view with a hook stays in its window | `attached`, `busy`; insert, begin, end, remove |
| `WaylandEnv` | `WaylandEnv.h`, its users in `HaikuCompositor.cpp`, dispatch in `WaylandServer.cpp` | the recursive locks (`owner`, `depth`), the view tree, `env` = `fActiveWlEnv`, a program counter for each window thread and the server's; one action for each lock, unlock, semaphore operation, and write between them. Implements `ViewGate`. |
| `Positioner` | `HaikuXdgPositioner.cpp`, `HaikuXdgPopup::UpdatePosition` | `fState` by axis; the setters and the placement, as operators named after the functions |
| `Seat` | focus and grabs of `HaikuSeat.cpp` | `seat` = `fPointerFocus`, `fKeyboardFocus`, `fTrack`, `fOldMouseBtns`; `told` is what the client makes of its events; one action for each message, hook and request |
| `FrameCallbacks` | the callback lists of a surface | `next`, `previous`, `first`, `last` as in `DoublyLinkedList.h`; `asked`, `committed` and `done` = what was requested, committed and sent; one action for each statement that reads or writes a link. Implements `CallbackQueue`. |
| `CallbackQueue` | what a client may rely on of frame callbacks | `asked`, `committed`, `sent`; ask, commit, send |
| `Surface` | `HaikuSurface`'s double-buffered state, `HaikuViewporter.cpp`, `HaikuShm.cpp` | pending, current and marked fields; the viewport; references of buffers and areas; `busy` = the buffers not given back, `stranded` = those of them that a destroyed surface showed |
| `XdgToplevel` | configure, ack, commit, resize, decoration | serials, geometries, `sizeChanged`, the window's size and look; the decorations' `mode`, `told` = what the client knows of it, `styled` = the decoration the look was last set from |
| `XdgWindows` | windows of toplevels and popups, from creation to deletion | role, window and view, quit requests in the window's queue |
| `Subsurfaces` | `HaikuSubcompositor.cpp`, surfaces and their views, in the windows of `XdgWindows`, which it extends | `parent` and `list` = `fParent` and `SurfaceList`, `children` = the tree of views, which `Detach` takes apart view by view |
| `DataDevice` | `HaikuDataDeviceManager.cpp`, the seat's calls to it | `source` and `owner` = the two `fDataDevice`/`fDataSource` pointers, notices under way, what each source was told |
| `DataFormats` | the conversions of `HaikuDataDeviceManager.cpp` between what clients offer and Haiku's messages, and the types of an offer | no state: operators on messages, named after the functions |
| `TextInput` | `HaikuTextInput.cpp`, the keyboard focus in `HaikuSeat.cpp`, `WaylandView::WindowActivated` | `inbox` = the queues of the windows, `focus`, `global` = the composition, `told` = what each text input was sent; `overtaken`, `astray` = whether a window was passed by another, and the compositions that a switch or a disable came across |

`MC...` modules add what TLC needs (symmetry sets, values of constants, in `MCDataDevice` the
inputs of `DataFormats`). `...Proofs` modules hold theorems. Definitions commented `Fault:` are
wrong versions of the definition below them, such as a plausible bug would make; no
specification uses them. Each property of each passing run has one that violates it.

## Runs

| Run | Instance | Shows |
|---|---|---|
| `env` | two windows, two views, in one window or in both, fair | the hand-over keeps views, order of locks, asserts and locks, loses no wakeup, implements `ViewGate`; hooks return and requests are served |
| `positioner` | sizes 1, 2, 7 in a work area of 5 x 5, anchors in it and at its edges, all sides and adjustments, both axes at once | popups that may slide end inside, each axis moves only as allowed, and no adjustment makes more stick out |
| `seat` | two surfaces, a pointer, a keyboard, two buttons, a data device | the client knows the focus, buttons and grabs end, the focus dangles in one known way only |
| `frames` | four callbacks, with and without the frame rate limit, fair | from `Draw`, under the lock, no list is met half spliced, the lists are a queue and all is sent; from `Pulse`, even without it, none is sent twice |
| `frames_race` (violated) | three callbacks | the assert of `DoublyLinkedList::Remove` fails |
| `surface` | three fields and the viewport, two buffers, three areas, a mapping that may fail | commits, releases, references and view sizes are right; a buffer is kept for ever only when its surface was destroyed showing it |
| `toplevel` | two decorations, two sizes, three configures, two resizes to report | the user's resize wins, the look follows the mode of the decoration that set it |
| `toplevel_mode` (violated) | one decoration, two configures, one resize, fair | a client is not told its decoration's mode |
| `windows` | a toplevel, a popup, two more surfaces that may be subsurfaces of these or of each other, a quit request for each window, fair | walks up the views are safe, subsurfaces are shown, nothing dangles but in one known way; windows go when and only when they are released |
| `windows_popup` (violated) | a toplevel, a popup, a quit request | a popup's window is deleted with its view in it |
| `data_device` | two devices, three sources, another program, two notices; every combination of nine types of a client, and of nine fields of another program | no dead source, each told once, the selection is the clipboard's; no data are lost or taken for others |
| `text_input` | two windows, two text inputs, three compositions, two switches of the window, three messages waiting for each | the focus follows the user, texts are committed once and in order, no stale text is shown |

Bounds, all named in the modules or their `.cfg`: the number of windows, views, surfaces,
buffers and so on; `MaxSerial`, `MaxResizes`, `MaxCloses`, `MaxNotices`, `MaxCompositions`, `MaxSwitches`, `MaxWaiting`, `MaxReplies`. Two
of a kind let one disturb the other; a third is there where a tree (a surface between two
others), an old mapping (areas) or a replaced source matters, a fourth where a list must have
a middle on both sides of a splice. Three configures are enough for one that answers the first
commit and two for resizes, which the client acks out of step with its commits. Two
decorations are enough for one to take the place of the other and be released before it or
after. Two compositions and two switches are enough for a text of one to
meet the focus or the state of the other, and a third lets the reply to a disable come when
its composition is long over; three messages let a window fall behind by a whole composition. For what is proved the bounds do not matter. Symmetry is used only where a run
checks no liveness. `CHECK_DEADLOCK FALSE` stands where the system stops: all callbacks,
windows, surfaces or compositions are used up, libwayland serves a client no more after a
fatal error (`Surface`), or the program has no defined behaviour any more (`DataDevice`, `XdgToplevel`).

## Fairness

* `WaylandEnv`: strong fairness for each hook and for the server thread. Haiku's looper locks
  and semaphores serve waiters in turn, so a thread that finds a lock taken again and again is
  not passed over for ever; nothing else makes threads wait. Messages and requests need not
  come. A request may still wait for ever for a view if new hooks of it keep beginning, so
  `RequestTerminates` says so.
* `FrameCallbacks`: weak fairness for the two threads, strong for `Draw`, which needs the
  server's lock. Something must have been damaged (`invalid`) for a frame to come.
* `Subsurfaces`, `XdgToplevel`: a window's looper handles the messages in its queue, and a hook
  that the server waits for ends, which `env` shows, so that `Detach` goes on.

## What is proved

Each safety property that a passing run checks is a theorem, for instances of any size, and so
are both refinements.

`WaylandEnvProofs`, for any finite or infinite sets of windows and views, from the assumptions
that the names of the server, of nobody and of no window or view are not those of others:
`TypeOK`, `HandlerSeesLiveView`, `NoLockOrderInversion`, `AssertsHold`, `DetachKeepsLocks`,
`NoLostWakeup`, `EnvWrittenUnderLock` (which no run checks any more, being proved) and
`ImplementsGate`. The inductive invariant `IInv` is needed because each of these depends on
what the other threads may be doing. Its parts:

* `Ownership`: exactly who owns each lock at each point of each thread, and that nobody owns
  one twice, so that giving up "all" is giving up one;
* `WaitLocals`: what `Wait` has yet to take back, so that what it owned it will own;
* `Tree`: a subtree is in one window, so that the lock `Detach` took is that of each view
  `RemoveDescendantsAndSelf` comes to;
* `Hooks`: a hook between giving up its window and taking it back has an environment in its
  view, so that a view without one, seen under the window's lock, has no hook;
* `Request` and `Walk`: which view a request is about, and that the walk down the tree keeps
  to one window (a set of views closed under the parent, up to the view of the request);
* `Handover`: only the environment of the view that is waited for has a semaphore, until it
  is posted, and a view is removed without one.

There is a lemma for each action; the refinement follows from `IInv` in both states. The
lemma for the removal of a view, `RemoveSelfGate`, is the heart of it: the server thread owns
the window, so no hook of it is at its ends, and the view has no environment, so none is in
between.

`FrameCallbacksProofs`, for any callbacks. What holds without the lock and what needs it are
two invariants:

* `OrderInv` holds whether `Pulse` or `Draw` sends. It numbers the callbacks by their requests
  and says that links go forward, and that none leads from what the window thread can reach
  (`Reach`) into what a commit has not linked yet. So the window thread only goes forward, and
  no callback is sent twice (`SentAtMostOnce`), although the assert of the list fails.
  `TypeOK`, where the two threads are and who has the lock, is proved first and not run.
* `ListsAreQueue` is for `Draw`: at each statement of either thread the two lists are
  consecutive callbacks, parted after the `b`-th, and `QueueAt` says which links and ends are
  set by then. From it follow `SoundUnderLock` and, step by step, the refinement
  `ImplementsQueue`: a commit takes effect when `TakeFrom` is entered, `Unlink` sends, and
  all other steps on the lists stutter.

`SeatProofs`, for any surfaces, input objects and buttons: type correctness, `FocusIsTold`,
`PressedIsKnown`, `GrabHasReason`, `GrabKeepsFocus`, `DanglesOnlyAfterLateHook`. A handler is
a composition of functions of the seat's state and the client's picture of it, so the proof is
too: `Good` says that a picture agrees with a seat (for those objects that were there in time;
the buttons the client holds are among those of the seat, or their release went elsewhere;
none are held while a drag or an interactive move has the pointer), there is a lemma for each
function that it preserves `Good`, and an action only adds up the lemmas of what it calls.
`PressedIsKnown` alone would not be inductive: a release is told only if the track is the
client's, so `Good` has to tie the track to the buttons.

`SurfaceProofs`, for any attributes and mappings and finitely many buffers: type correctness,
`DifferencesAreMarked`, `BusyIsCurrent`, `RefsCounted`, `ViewFitsContent`. The invariant has a
part for the state of the surface, where the three copies of a field and its mark depend on
each other, and one for the references, where counts are cardinalities; `SetRefsCounts` and
`RemapCounts` say what a changed reference does to them. `BusyIsCurrent` is about every
surface there was: what a destroyed one showed stays in `busy`, and in `stranded`, a history
variable that no other variable depends on, until the buffer is shown and replaced again.

`XdgToplevelProofs`: type correctness, `LookFollowsMode` and `UserResizeWins`, for any sizes
and numbers of decorations and configures. `LookFollowsMode` needs `styled`, a history
variable too: the surface's decoration need not be the one that set the look, and
`LookIsStyled` says that what set it is a decoration that was made, and has the mode shown.

`XdgWindowsProofs` has three parts.

* Windows: type correctness and `ToplevelWindowIsReleased`, for any toplevels and popups.
* Subsurfaces, for any surfaces: `WalkIsSafe`, `SubsurfacesAreShown` and
  `DanglesOnlyAfterSurface`. The invariant `TreeInv` says, as long as nothing undefined was
  done: the lists of subsurfaces and `fParent` agree (`ParentsList`), the views in a view are
  those of living subsurfaces (`ChildrenAreSubsurfaces`), a surface goes after its role
  (`RolesBeforeSurfaces`), and a window shows its subsurfaces in their order but in the tree
  that `Detach` is taking apart (`OthersAreShown`, without which `SubsurfacesAreShown` would
  say nothing of the time after a `Detach`). A tree is the least set with its top that the
  links keep to (`Reachable`), so what is proved of trees needs no induction: a set that has
  the top and keeps to the links has the tree. `TreesKeepWindows`: each step of the trees is
  one of `XdgWindows` or a stutter, so what is proved of its `Spec` holds with trees in the
  windows. This needs `TreeInv`: the step that ends a `Detach` with the role's window
  is written for any surface, and only the invariant says that it is one with a role.
* Placement, for any integers and any work area: type correctness, `SlideKeepsInside`,
  `OverflowNeverGrows` and `AxisMovesAsAllowed`, from lemmas about what each adjustment does
  to an axis (`PositionOfAxis` describes the outcome of all three stages, `FlipMirrors` says
  that halving odd sizes puts a flipped popup at most a pixel off its mirror image).

`DataDeviceProofs`: type correctness, `SourceIsAlive`, `SourcesAreToldOnce`,
`SelectionIsCurrent`, from the invariant that the two pointers between a device and a source
agree as far as they are followed, and that what a source was told agrees with where it is
still named. Of the conversions `DataAreKept`, for any types a client offers and any fields a
program puts in a message, which for `DataFormatsHold` TLC evaluates for nine of each. The
proof follows an offer as it is put together: after each step whatever is offered has its
data there or in the original message (`Readable`).

`TextInputProofs`, for any windows, text inputs, compositions and switches: type correctness,
which says that nothing confirmed is kept and that an active composition has somebody to reply
to, `InputsKnowFocus`, and three properties of what was said in the past, which need
`HistoryInv`, an invariant on the order of the messages that wait in several queues:

* `FocusInv`, for `FocusFollowsActivation`: the activations that wait for a window are in
  their order, the last is the truth, and if no window overtook another the active one has
  the focus or will get it;
* `CommittedInv`, for `CommittedOnceInOrder`: a confirmed text is in one place, a queue or a
  text input; one that a later text passed waits where it will not be accepted;
* `PreeditInv`, for `PreeditIsCurrent`: the messages of a composition that nothing came across
  are together in one queue, after its start and up to its end, and the text is emptied
  before the end; so what is shown is of the current composition, or astray.

The proof of the last showed that a text input's reply may drop a composition other than the
one it was asked about: such a composition is `astray` too, and a third one is in the run for
it.

The assumptions are those named in the modules: model values that stand for "none" are none of
the others, kinds of objects are disjoint, bounds are natural numbers. `DataFormats` assumes
of a client that it offers MIME types, none of them the name of a field that
`ConvertToHaikuMessage` makes (`ClientDataAssumption`: nothing in the code keeps such a name
from being added a second time), and of other programs that they put text, typed as MIME
data or as a string, under the types of texts, URLs and PNG images (`HaikuDataAssumption`).

Only model-checked: liveness, which is out of reach of the prover (`RequestTerminates`,
`HookTerminates`, `CallbacksAreSent`, `WindowsGo`), and what the three violated runs find. No
module uses recursive operators.

## Findings

1. `frames_race`: with the frame limit, `Pulse` sends callbacks on the window thread without
   the server's lock while a commit adds callbacks on the server thread; `Remove` then meets
   a list with one end set, which its assert forbids.
2. `toplevel_mode`: `protocols/server-decoration.xml` promises that a new decoration is in the
   default mode announced, that its mode is sent when it is made, and that a request is
   acknowledged. The default announced is `modeServer`, but a new decoration is in `modeNone`
   and its window has no border; and no mode event is sent at all.
3. `windows_popup`: a popup's window agrees to quit while the popup lives, and is deleted with
   its surface's view in it, which `~WaylandView` reports as a bad deletion.

Other weak points that contradict nothing written in the repository are in the hazards of
`PROJECT.json` with a note: a buffer that is shown when its surface is destroyed is not given
back; a second decoration of a surface takes the place of the first but leaves the window's
look, and one that is released is still followed by its surface; a hook that runs while `~HaikuSurface` waits may leave the focus
on the dead surface; a toplevel's window may use the toplevel after it was destroyed; a data
device that was released is still used by the seat, offers and sources.

## What the models assume

* One client (`WaylandServer.cpp:71` has a TODO for more). It follows the protocol where the
  code relies on it without a check: a surface has one role, which is there before it is
  committed with a buffer; a source is used once; a positioner is not changed while a popup
  is being placed; a role is destroyed before its surface.
* Requests come one after the other, on the server thread, which has no lock before them and
  the server's lock once during them; hooks run on window threads, one at a time in each.
* `WaylandEnv`: `LockWithTimeout(0)` may fail whenever another thread owns or awaits the
  lock. A body of a hook locks at most one window.
* `Seat`: the app_server may send any message to any surface that has a view, with any
  transit, and real presses and releases alternate. A view's coordinates and input region
  decide which surface handles a message: any may. A drop message carries any buttons.
* `Positioner`: integers without overflow. `resize` adjustments are not kept, since the code
  computes a resized rectangle and drops it.
* `Surface`: a region or an offset is a value that matters only for being the same or not; a
  buffer is used with one surface at a time.
* `FrameCallbacks`: statements are atomic and seen in order by the other thread; a weaker
  memory could only do more harm in the run that is violated, and where the lock is used
  there is no race.
* `XdgToplevel`: one dimension of the size; titles, limits, positions and parents are left out. What a surface does with
  a decoration that was released is not defined, and nothing is claimed after it.
* `Subsurfaces`: a surface has its role's name, so it gets a window once; a popup's window is
  as in `XdgWindows`. Surfaces are not re-used as subsurfaces while a `wl_subsurface` of theirs
  is there, and a surface is not made its own ancestor.
* `DataDevice`: data is named by where it came from. `Accept` and `SetActions` of an offer are
  one action, an event to the source.
* `DataFormats`: a value is what it is (text, URL, files, an image) and which field it was
  made from; encodings, titles and line ends are left out. No type of a client is named like a
  field that the conversion makes. Only the first of several values
  of a name is read. A type whose data did not come in time is "empty", one that came in part
  counts as come.
* `TextInput`: the app_server sends an input method's events to the window that is active, and
  deactivation and activation to both windows concerned, in order for each window. An input
  method has one composition at a time and confirms its text or empties it before it stops. A
  text input is told by `done`; the serial in it, and the marks of a selection, are left out.

## Not modelled

Drawing and damage; encodings and titles of clipboard data, and the file a drop is saved to;
keys, wheel and keymaps; where the windows of interactive moves, resizes and popups go;
positions of subsurfaces and source rectangles of viewports, which are numbers that are stored
and passed on; start-up and globals, which run once; output and keymap, which keep no state;
disconnection, which is not implemented. Of the list template, what no code uses.

## Plan

1. A module that composes `Seat` and `DataDevice`: the seat's drag decides what the device is
   told. Each has the other's part in it now, as a choice.
2. The interactive resize of the seat as configures of `XdgToplevel`, with the size limits.
3. Proofs for these: that the composition implements both `Seat` and `DataDevice`, and that
   the user's resize still wins.
