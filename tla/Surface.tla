------------------------------ MODULE Surface ------------------------------
(***************************************************************************)
(* A surface's double-buffered state (HaikuCompositor.cpp) and the shared   *)
(* memory behind it (HaikuShm.cpp): what a commit applies, when a buffer is *)
(* given back to the client, and how long buffers and mappings live.        *)
(*                                                                         *)
(* All of it runs on the server thread.  Frame callbacks are in module      *)
(* FrameCallbacks, the view's window in WaylandEnv, the hook of the commit  *)
(* in XdgToplevel.  A buffer is used for one surface at a time.             *)
(***************************************************************************)
EXTENDS Naturals, FiniteSets

CONSTANTS
  Attrs,              \* the double-buffered attributes besides the buffer ...
  Offset,             \* ... which attach sets along with the buffer
  Viewport,           \* ... which its viewport sets, and gives the surface a size of its own
  Regions,            \* ... which are moved, not copied, at a commit
  Values,             \* what a client may set an attribute to
  Unset,              \* the initial value of an attribute
  Moved,              \* what a move leaves behind
  Buffers, NoBuffer,  \* wl_buffer objects
  Areas, NoArea       \* mappings of a pool's file

ASSUME AttrsAssumption == /\ Offset \in Attrs /\ Viewport \in Attrs /\ Offset # Viewport
                          /\ Regions \subseteq Attrs \ {Offset, Viewport}
ASSUME ValuesAssumption == {Unset, Moved} \cap Values = {} /\ Unset # Moved
ASSUME BuffersAssumption == NoBuffer \notin Buffers /\ IsFiniteSet(Buffers)
ASSUME AreasAssumption == NoArea \notin Areas

BufferField == "buffer"
ASSUME BufferFieldAssumption == BufferField \notin Attrs

VARIABLES
  alive,          \* the surface exists
  pending,        \* fPendingState and fState, except their buffers
  current,
  marked,         \* fPendingFields
  pendingBuffer,  \* fPendingState.buffer and fState.buffer
  buffer,
  held,           \* the client has the wl_buffer object
  refs,           \* BReferenceable's count of each buffer, 0 when there is none
  area,           \* fAreaRef of each buffer
  pool,           \* the client has the pool
  poolArea,       \* its fAreaRef
  areaRefs,       \* the count of each HaikuShmAreaRef, 0 when it is unmapped
  busy,           \* the buffers the client has committed and was not given back
  stranded,       \* history: those a surface showed when it was destroyed, and none has since
  windowed,       \* the surface's view is in a window
  viewSize,       \* what that view was sized to
  failed,         \* the client was sent a fatal error and is not served any more
  viewport,       \* the surface's wp_viewport exists
  left,           \* there is one that has outlived its surface
  undefined       \* it was destroyed, and reset what is no more

state == <<pending, current, marked, windowed, viewSize>>
given == <<busy, stranded>>
shm == <<held, refs, area, pool, poolArea, areaRefs>>
viewports == <<viewport, left, undefined>>
vars == <<alive, state, pendingBuffer, buffer, shm, given, failed, viewports>>

Fields == Attrs \cup {BufferField}
AttrValues == Values \cup {Unset, Moved}
Sizes == Values \cup Buffers \cup {NoBuffer, Unset}

TypeOK ==
  /\ alive \in BOOLEAN
  /\ pending \in [Attrs -> AttrValues]
  /\ current \in [Attrs -> AttrValues]
  /\ marked \subseteq Fields
  /\ pendingBuffer \in Buffers \cup {NoBuffer}
  /\ buffer \in Buffers \cup {NoBuffer}
  /\ held \subseteq Buffers
  /\ refs \in [Buffers -> Nat]
  /\ area \in [Buffers -> Areas \cup {NoArea}]
  /\ pool \in BOOLEAN
  /\ poolArea \in Areas \cup {NoArea}
  /\ areaRefs \in [Areas -> Nat]
  /\ busy \subseteq Buffers
  /\ stranded \subseteq Buffers
  /\ windowed \in BOOLEAN
  /\ viewSize \in Sizes
  /\ failed \in BOOLEAN
  /\ viewport \in BOOLEAN
  /\ left \in BOOLEAN
  /\ undefined \in BOOLEAN

Init ==
  /\ alive = FALSE
  /\ pending = [a \in Attrs |-> Unset]
  /\ current = [a \in Attrs |-> Unset]
  /\ marked = {}
  /\ pendingBuffer = NoBuffer
  /\ buffer = NoBuffer
  /\ held = {}
  /\ refs = [b \in Buffers |-> 0]
  /\ area = [b \in Buffers |-> NoArea]
  /\ pool = FALSE
  /\ poolArea = NoArea
  /\ areaRefs = [a \in Areas |-> 0]
  /\ busy = {}
  /\ stranded = {}
  /\ windowed = FALSE
  /\ viewSize = Unset
  /\ failed = FALSE
  /\ viewport = FALSE
  /\ left = FALSE
  /\ undefined = FALSE

Served == ~ failed /\ ~ undefined

-----------------------------------------------------------------------------
(* References.                                                              *)

\* A BReference to old is set to new, or taken (old is none), or dropped (new is none).
Rebind(counts, old, new) ==
  [x \in DOMAIN counts |-> (counts[x] + IF x = new THEN 1 ELSE 0) - IF x = old THEN 1 ELSE 0]

\* Buffers get the counts r.  One that nobody refers to any more is destroyed, and drops
\* its reference to its area (LastReferenceReleased).
SetRefs(r) ==
  LET dead == {b \in Buffers : refs[b] > 0 /\ r[b] = 0} IN
    /\ refs' = r
    /\ area' = [b \in Buffers |-> IF b \in dead THEN NoArea ELSE area[b]]
    /\ areaRefs' = [a \in Areas |->
                      areaRefs[a] - Cardinality({b \in dead : area[b] = a})]

-----------------------------------------------------------------------------
(* HaikuShm.                                                                *)

\* Remap: the file is mapped afresh, and the pool's reference goes from the mapping it
\* had to the new one.  When the file cannot be mapped, the client is sent an error and the
\* pool keeps its reference; when there is no memory for the new mapping's count, it has none.
Remap ==
  \/ \E a \in Areas : /\ areaRefs[a] = 0
                      /\ areaRefs' = Rebind(areaRefs, poolArea, a)
                      /\ poolArea' = a
                      /\ UNCHANGED failed
  \/ failed' = TRUE /\ UNCHANGED <<poolArea, areaRefs>>
  \/ /\ failed' = TRUE
     /\ areaRefs' = Rebind(areaRefs, poolArea, NoArea)
     /\ poolArea' = NoArea

CreatePool ==
  /\ Served /\ ~ pool
  /\ pool' = TRUE
  /\ Remap
  /\ UNCHANGED <<alive, state, pendingBuffer, buffer, held, refs, area, given, viewports>>

ResizePool ==
  /\ Served /\ pool
  /\ Remap
  /\ UNCHANGED <<alive, state, pendingBuffer, buffer, held, refs, area, pool, given, viewports>>

DestroyPool ==
  /\ Served /\ pool
  /\ pool' = FALSE
  /\ poolArea' = NoArea
  /\ areaRefs' = Rebind(areaRefs, poolArea, NoArea)
  /\ UNCHANGED <<alive, state, pendingBuffer, buffer, held, refs, area, given, failed, viewports>>

\* A new buffer, whose first reference is the client's, shares the pool's mapping.  The
\* client has not committed it yet.
CreateBuffer(b) ==
  /\ Served /\ pool
  /\ refs[b] = 0
  /\ refs' = [refs EXCEPT ![b] = 1]
  /\ held' = held \cup {b}
  /\ area' = [area EXCEPT ![b] = poolArea]
  /\ areaRefs' = Rebind(areaRefs, NoArea, poolArea)
  /\ busy' = busy \ {b}
  /\ stranded' = stranded \ {b}
  /\ UNCHANGED <<alive, state, pendingBuffer, buffer, pool, poolArea, failed, viewports>>

\* An unsupported format, or no bitmap of that size in the area.
CreateBufferFails ==
  /\ Served /\ pool
  /\ failed' = TRUE
  /\ UNCHANGED <<alive, state, pendingBuffer, buffer, shm, given, viewports>>

DestroyBuffer(b) ==
  /\ Served /\ b \in held
  /\ held' = held \ {b}
  /\ SetRefs(Rebind(refs, b, NoBuffer))
  /\ UNCHANGED <<alive, state, pendingBuffer, buffer, pool, poolArea, given, failed, viewports>>

-----------------------------------------------------------------------------
(* HaikuSurface.                                                            *)

CreateSurface ==
  /\ Served /\ ~ alive
  /\ alive' = TRUE
  /\ UNCHANGED <<state, pendingBuffer, buffer, shm, given, failed, viewports>>

SetAttr(a, v) ==
  /\ pending' = [pending EXCEPT ![a] = v]
  /\ marked' = marked \cup {a}
  /\ UNCHANGED <<alive, current, windowed, viewSize, pendingBuffer, buffer, shm, given, failed>>

\* HandleOffset, HandleSetOpaqueRegion and the like.
HandleSet(a, v) ==
  /\ Served /\ alive /\ a # Viewport
  /\ SetAttr(a, v)
  /\ UNCHANGED viewports

\* Fault: the buffer attached before keeps its reference.
HandleAttachLeaking(b, v) ==
  /\ Served /\ alive
  /\ b \in held \cup {NoBuffer}
  /\ pendingBuffer' = b
  /\ SetRefs(Rebind(refs, NoBuffer, b))
  /\ pending' = [pending EXCEPT ![Offset] = v]
  /\ marked' = marked \cup {BufferField, Offset}
  /\ UNCHANGED <<alive, current, windowed, viewSize, buffer, held, pool, poolArea, given, failed, viewports>>

\* Fault: the offset is not marked along with the buffer.
HandleAttachUnmarked(b, v) ==
  /\ Served /\ alive
  /\ b \in held \cup {NoBuffer}
  /\ pendingBuffer' = b
  /\ SetRefs(Rebind(refs, pendingBuffer, b))
  /\ pending' = [pending EXCEPT ![Offset] = v]
  /\ marked' = marked \cup {BufferField}
  /\ UNCHANGED <<alive, current, windowed, viewSize, buffer, held, pool, poolArea, given, failed, viewports>>

HandleAttach(b, v) ==
  /\ Served /\ alive
  /\ b \in held \cup {NoBuffer}
  /\ pendingBuffer' = b
  /\ SetRefs(Rebind(refs, pendingBuffer, b))
  /\ pending' = [pending EXCEPT ![Offset] = v]
  /\ marked' = marked \cup {BufferField, Offset}
  /\ UNCHANGED <<alive, current, windowed, viewSize, buffer, held, pool, poolArea, given, failed, viewports>>

\* Size(): of the viewport if it is set, else of the buffer.
Size(c, b) == IF c[Viewport] # Unset THEN c[Viewport] ELSE b

\* Fault: the buffer is given back also when it is the new one again.
BusyBoth(old, new) == (busy \cup {new}) \ {old, NoBuffer}

\* SendRelease for the old buffer, unless the new one is the same.
Busy(old, new) == (busy \ {old}) \cup ({new} \ {NoBuffer})

HandleCommit ==
  /\ Served /\ alive
  /\ marked' = {}
  /\ current' = [a \in Attrs |-> IF a \in marked THEN pending[a] ELSE current[a]]
  /\ pending' = [a \in Attrs |-> IF a \in marked \cap Regions THEN Moved ELSE pending[a]]
  /\ IF BufferField \in marked
     THEN /\ buffer' = pendingBuffer
          /\ SetRefs(Rebind(refs, buffer, pendingBuffer))
          /\ busy' = Busy(buffer, pendingBuffer)
          /\ stranded' = stranded \ {pendingBuffer}
     ELSE UNCHANGED <<buffer, refs, area, areaRefs, given>>
  /\ viewSize' = IF windowed THEN Size(current', buffer') ELSE viewSize
  /\ UNCHANGED <<alive, windowed, pendingBuffer, held, pool, poolArea, failed, viewports>>

\* Fault: the size of the surface's former view is taken for that of the new one.
AttachViewSized ==
  /\ Served /\ alive /\ ~ windowed
  /\ windowed' = TRUE
  /\ UNCHANGED <<alive, pending, current, marked, viewSize, pendingBuffer, buffer, shm, given, failed, viewports>>

\* The surface is given a new view, still without a size.
AttachView ==
  /\ Served /\ alive /\ ~ windowed
  /\ windowed' = TRUE
  /\ viewSize' = Unset
  /\ UNCHANGED <<alive, pending, current, marked, pendingBuffer, buffer, shm, given, failed, viewports>>

\* Detach, or the view of the parent is taken out of its window.
LeaveWindow ==
  /\ Served /\ windowed
  /\ windowed' = FALSE
  /\ UNCHANGED <<alive, pending, current, marked, viewSize, pendingBuffer, buffer, shm, given, failed, viewports>>

\* ~HaikuSurface: it detaches, and its states drop their buffers.  No release is sent for the
\* one it shows.
DestroySurface ==
  /\ Served /\ alive
  /\ alive' = FALSE
  /\ SetRefs(Rebind(Rebind(refs, buffer, NoBuffer), pendingBuffer, NoBuffer))
  /\ pending' = [a \in Attrs |-> Unset]
  /\ current' = [a \in Attrs |-> Unset]
  /\ marked' = {}
  /\ pendingBuffer' = NoBuffer
  /\ buffer' = NoBuffer
  /\ stranded' = stranded \cup ({buffer} \ {NoBuffer})
  /\ windowed' = FALSE
  /\ viewSize' = Unset
  /\ viewport' = FALSE
  /\ left' = (left \/ viewport)
  /\ UNCHANGED <<held, pool, poolArea, busy, failed, undefined>>

-----------------------------------------------------------------------------
(* HaikuViewport.                                                           *)

GetViewport ==
  /\ Served /\ alive /\ ~ viewport
  /\ viewport' = TRUE
  /\ UNCHANGED <<alive, state, pendingBuffer, buffer, shm, given, failed, left, undefined>>

\* HandleSetSource, HandleSetDestination: the surface gets a size, or again that of its buffer.
SetViewport(v) ==
  /\ Served /\ viewport
  /\ SetAttr(Viewport, v)
  /\ UNCHANGED viewports

\* ~HaikuViewport.
DestroyViewport ==
  /\ Served /\ viewport
  /\ viewport' = FALSE
  /\ SetAttr(Viewport, Unset)
  /\ UNCHANGED <<left, undefined>>

\* It follows fSurface all the same when that was destroyed before.
DestroyLeftViewport ==
  /\ Served /\ left
  /\ undefined' = TRUE
  /\ UNCHANGED <<alive, state, pendingBuffer, buffer, shm, given, failed, viewport, left>>

-----------------------------------------------------------------------------
ShmNext == \/ CreatePool \/ ResizePool \/ DestroyPool
           \/ \E b \in Buffers : CreateBuffer(b) \/ DestroyBuffer(b)
           \/ CreateBufferFails

SurfaceNext ==
  \/ CreateSurface \/ HandleCommit \/ AttachView \/ LeaveWindow \/ DestroySurface
  \/ \E a \in Attrs, v \in Values \cup {Unset} : HandleSet(a, v)
  \/ \E b \in Buffers \cup {NoBuffer}, v \in Values : HandleAttach(b, v)

ViewportNext == \/ GetViewport \/ DestroyViewport \/ DestroyLeftViewport
                \/ \E v \in Values \cup {Unset} : SetViewport(v)

Next == ShmNext \/ SurfaceNext \/ ViewportNext

Spec == Init /\ [][Next]_vars

-----------------------------------------------------------------------------
(* Properties.                                                              *)

\* A commit misses nothing and takes nothing that was not asked for: whatever differs
\* between the pending and the current state is marked, and what a move left behind is
\* never taken over again (HaikuCompositor.cpp:401-502).
DifferencesAreMarked ==
  /\ \A a \in Attrs \ marked : pending[a] \in {current[a], Moved}
  /\ \A a \in marked \cap Attrs : pending[a] # Moved
  /\ \A a \in Attrs : current[a] # Moved
  /\ BufferField \in marked \/ pendingBuffer = buffer

\* A buffer is kept from the client exactly as long as its surface shows it: none is given
\* back too early, not even when it is committed again, and a replaced one always is
\* (HaikuCompositor.cpp:473-476).  One that was shown when its surface was destroyed is never
\* given back (HaikuCompositor.cpp:301-316): it is kept until it is shown and replaced again.
BusyIsCurrent == busy = ({buffer} \ {NoBuffer}) \cup stranded

One(holds) == IF holds THEN 1 ELSE 0

\* The buffers in a mapping.
Users(a) == {b \in Buffers : area[b] = a}

\* A buffer lives as long as the client, the current or the pending state has it, and a
\* mapping as long as the pool or a buffer of it, also after the pool has been resized or
\* destroyed and the surface is gone: the counts neither free what is in use nor keep what
\* nobody has (HaikuShm.cpp:77-122, HaikuCompositor.cpp:420-516).
RefsCounted ==
  /\ \A b \in Buffers : refs[b] = One(b \in held) + One(b = buffer) + One(b = pendingBuffer)
  /\ \A a \in Areas : areaRefs[a] = Cardinality(Users(a)) + One(a = poolArea)
  /\ \A b \in Buffers : refs[b] > 0 => area[b] # NoArea

\* A view that was sized since it was put in the window has the size of what it shows, and
\* what that is is up to the buffer again, from the next commit on, when the surface's
\* viewport was destroyed or it never had one (HaikuCompositor.cpp:318-327, 504-513;
\* HaikuViewporter.cpp:73-77).
ViewFitsContent ==
  /\ windowed => viewSize \in {Unset, Size(current, buffer)}
  /\ ~ viewport => pending[Viewport] = Unset
  /\ ~ viewport /\ Viewport \notin marked => current[Viewport] = Unset

=============================================================================
