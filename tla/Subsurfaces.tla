----------------------------- MODULE Subsurfaces -----------------------------
(***************************************************************************)
(* Surfaces, subsurfaces and their views in the windows of XdgWindows       *)
(* (HaikuSubcompositor.cpp; HaikuSurface's destructor, AttachView and       *)
(* Detach in HaikuCompositor.cpp).  A subsurface's view is a child of its   *)
(* parent's.  Detach takes views out of the window one by one, leaves       *)
(* first, and may wait for a hook before each: hooks and other windows see  *)
(* every tree in between.                                                   *)
(*                                                                         *)
(* A surface with a role has the role's name.  Offsets, PlaceAbove and the  *)
(* like, which do nothing, and the stacking of subsurfaces are left out.    *)
(***************************************************************************)
EXTENDS XdgWindows, Sequences, SequencesExt

CONSTANTS
  Subs,     \* surfaces that are made subsurfaces
  None      \* no surface

ASSUME SubsAssumption == Subs \cap Roles = {} /\ None \notin Subs \cup Roles

Surfaces == Roles \cup Subs

VARIABLES
  dead,       \* surfaces that were destroyed
  objects,    \* surfaces with a HaikuSubsurface, which may outlive its surface
  parent,     \* its fParent
  list,       \* SurfaceList: the subsurfaces of a surface, in order
  viewed,     \* subsurfaces whose fView is not NULL
  children,   \* the child views of a surface's view, in order
  detaching,  \* the surface in Detach, and what its caller destroys; or Nothing
  missed,     \* subsurfaces that were there when their parent got its view, and got none
  lost,       \* surfaces whose fView was overwritten while it was in a window
  undefined   \* something deleted, or NULL, was followed

treeVars == <<dead, objects, parent, list, viewed, children, detaching, missed, lost, undefined>>
allVars == <<vars, treeVars>>

Nothing == [of |-> None, destroys |-> "nothing"]

TreeInit ==
  /\ Init
  /\ dead = {}
  /\ objects = {}
  /\ parent = [s \in Subs |-> None]
  /\ list = [s \in Surfaces |-> <<>>]
  /\ viewed = {}
  /\ children = [s \in Surfaces |-> <<>>]
  /\ detaching = Nothing
  /\ missed = {}
  /\ lost = {}
  /\ undefined = FALSE

-----------------------------------------------------------------------------
(* The trees.                                                               *)

HasView(s) == IF s \in Roles THEN view[s] ELSE s \in viewed

\* What can be reached from s when below[x] comes next after x: the least set that is closed
\* under that and has s in it.
Reachable(below, s) ==
  {t \in Surfaces : \A X \in SUBSET Surfaces :
                      s \in X /\ (\A x \in X : ToSet(below[x]) \subseteq X) => t \in X}

\* The surfaces whose views are in the view of s, itself included.
Tree(s) == Reachable(children, s)

\* The role in whose window the view of s is.
RootsOf(s) == {r \in Roles : view[r] /\ s \in Tree(r)}
InWindow(s) == RootsOf(s) # {}

\* The subsurfaces of s, of these, and so on.
Below(s) == Reachable(list, s)

\* The view that RemoveDescendantsAndSelf takes out first: at the end of the way down that
\* takes the first child each time.
FirstChild == [x \in Surfaces |-> IF children[x] = <<>> THEN <<>> ELSE <<Head(children[x])>>]
FirstLeaf(s) == {t \in Reachable(FirstChild, s) : children[t] = <<>>}

Without(seqs, s) == [x \in Surfaces |-> RemoveFirst(seqs[x], s)]

Running == ~ crashed /\ ~ undefined /\ \A r \in Roles : ~ badDeletion[r]

\* The server thread is ready for a request.
Idle == Running /\ Serving /\ detaching = Nothing

-----------------------------------------------------------------------------
(* Attaching views.                                                         *)

Earlier(s) == ToSet(list[s])

\* Fault: none gets a view.
AttachViewsToNoSubsurfaces(s, tree) ==
  /\ children' = [tree EXCEPT ![s] = <<>>]
  /\ viewed' = viewed \cup ({s} \cap Subs)
  /\ missed' = (missed \ {s})
  /\ UNCHANGED <<lost, undefined>>

\* AttachViewsToEarlierSubsurfaces, after AttachView or AttachWindow of s: each subsurface of
\* s gets a new view, without those of its own subsurfaces.
AttachViewsToEarlierSubsurfaces(s, tree) ==
  /\ children' = [x \in Surfaces |-> IF x = s THEN list[s]
                                     ELSE IF x \in Earlier(s) THEN <<>> ELSE tree[x]]
  /\ viewed' = viewed \cup ({s} \cap Subs) \cup Earlier(s)
  /\ missed' = (missed \ ({s} \cup Earlier(s))) \cup UNION {ToSet(list[c]) : c \in Earlier(s)}
  /\ lost' = lost \cup {c \in {s} \cup Earlier(s) : InWindow(c)}
  /\ undefined' = \E c \in Earlier(s) : c \in dead \/ c \notin objects

\* HaikuSubsurface::Create.
CreateSubsurface(s, p) ==
  /\ Idle
  /\ s \in Subs \ (dead \cup objects)
  /\ p \in Surfaces \ (dead \cup Below(s))
  /\ objects' = objects \cup {s}
  /\ parent' = [parent EXCEPT ![s] = p]
  /\ list' = [list EXCEPT ![p] = Append(@, s)]
  /\ IF HasView(p)
     THEN AttachViewsToEarlierSubsurfaces(s, [children EXCEPT ![p] = Append(@, s)])
     ELSE missed' = missed \ {s} /\ UNCHANGED <<viewed, children, lost, undefined>>
  /\ UNCHANGED <<vars, dead, detaching>>

\* HaikuXdgToplevel::Create looks for no earlier subsurfaces.
CreateToplevel(r) ==
  /\ Idle /\ r \in Toplevels \ dead
  /\ Create(r)
  /\ missed' = missed \cup Earlier(r)
  /\ UNCHANGED <<dead, objects, parent, list, viewed, children, detaching, lost, undefined>>

\* HaikuXdgPopup::Create.
CreatePopup(r) ==
  /\ Idle /\ r \in Popups \ dead
  /\ Create(r)
  /\ AttachViewsToEarlierSubsurfaces(r, children)
  /\ UNCHANGED <<dead, objects, parent, list, detaching>>

-----------------------------------------------------------------------------
(* Destruction.                                                             *)

\* ~HaikuXdgToplevel, ~HaikuXdgPopup find no hook, and take all views out.
DestroyRoleAtOnce(r) ==
  /\ Idle
  /\ DestroyRole(r)
  /\ children' = IF crashed' THEN children
                 ELSE [s \in Surfaces |-> IF s \in Tree(r) THEN <<>> ELSE children[s]]
  /\ UNCHANGED <<dead, objects, parent, list, viewed, detaching, missed, lost, undefined>>

\* They wait for a hook of one of the views.
BeginDestroyRole(r) ==
  /\ Idle
  /\ DestroyWaits(r)
  /\ detaching' = [of |-> r, destroys |-> "role"]
  /\ UNCHANGED <<dead, objects, parent, list, viewed, children, missed, lost, undefined>>

\* ~HaikuSubsurface: Detach of a surface that is no more, or the first step of it.
BeginDestroySubsurface(s) ==
  /\ Idle /\ s \in objects
  /\ IF s \in dead THEN undefined' = TRUE /\ UNCHANGED detaching
     ELSE detaching' = [of |-> s, destroys |-> "subsurface"] /\ UNCHANGED undefined
  /\ UNCHANGED <<vars, dead, objects, parent, list, viewed, children, missed, lost>>

\* Fault: the subsurfaces lose their parent before the views are taken out.
BeginDestroySurfaceOrphaning(s) ==
  /\ Idle /\ s \notin dead
  /\ s \in Roles => role[s] \in {"none", "destroyed"}
  /\ detaching' = [of |-> s, destroys |-> "surface"]
  /\ parent' = [c \in Subs |-> IF c \in Earlier(s) THEN None ELSE parent[c]]
  /\ UNCHANGED <<vars, dead, objects, list, viewed, children, missed, lost, undefined>>

\* ~HaikuSurface; a client destroys the role before it.
BeginDestroySurface(s) ==
  /\ Idle /\ s \notin dead
  /\ s \in Roles => role[s] \in {"none", "destroyed"}
  /\ detaching' = [of |-> s, destroys |-> "surface"]
  /\ UNCHANGED <<vars, dead, objects, parent, list, viewed, children, missed, lost, undefined>>

Detaching(s, destroys) == Running /\ detaching = [of |-> s, destroys |-> destroys]

\* RemoveDescendantsAndSelf takes out a view below that of s.
RemoveDescendant(s) ==
  /\ Running /\ detaching.of = s
  /\ children[s] # <<>>
  /\ \E leaf \in FirstLeaf(s) : children' = Without(children, leaf)
  /\ UNCHANGED <<vars, dead, objects, parent, list, viewed, detaching, missed, lost, undefined>>

\* The view of s itself goes, and is deleted.
RemoveSelf(s) ==
  /\ children[s] = <<>>
  /\ children' = Without(children, s)
  /\ viewed' = viewed \ {s}
  /\ detaching' = Nothing

FinishRole(r) ==
  /\ Detaching(r, "role")
  /\ Detached(r)
  /\ RemoveSelf(r)
  /\ UNCHANGED <<dead, objects, parent, list, missed, lost, undefined>>

Unlist(s) ==
  list' = IF parent[s] = None THEN list
          ELSE [list EXCEPT ![parent[s]] = RemoveFirst(@, s)]

\* The rest of ~HaikuSubsurface.
FinishSubsurface(s) ==
  /\ Detaching(s, "subsurface")
  /\ RemoveSelf(s)
  /\ Unlist(s)
  /\ objects' = objects \ {s}
  /\ parent' = [parent EXCEPT ![s] = None]
  /\ missed' = missed \ {s}
  /\ undefined' = (parent[s] \in dead)
  /\ UNCHANGED <<vars, dead, lost>>

\* Fault: the subsurfaces keep their parent.
OrphanNot(s) == UNCHANGED parent

Orphan(s) == parent' = [c \in Subs |-> IF c \in Earlier(s) THEN None ELSE parent[c]]

\* The rest of ~HaikuSurface.
FinishSurface(s) ==
  /\ Detaching(s, "surface")
  /\ RemoveSelf(s)
  /\ dead' = dead \cup {s}
  /\ Orphan(s)
  /\ list' = [list EXCEPT ![s] = <<>>]
  /\ UNCHANGED <<vars, objects, missed, lost, undefined>>

Window(r) == (Close(r) \/ WindowStep(r) \/ UseToplevel(r)) /\ UNCHANGED treeVars

-----------------------------------------------------------------------------
DetachStep(s) == RemoveDescendant(s) \/ FinishRole(s) \/ FinishSubsurface(s) \/ FinishSurface(s)

Requests ==
  \/ \E s \in Subs, p \in Surfaces : CreateSubsurface(s, p)
  \/ \E r \in Roles : CreateToplevel(r) \/ CreatePopup(r) \/ DestroyRoleAtOnce(r) \/ BeginDestroyRole(r)
  \/ \E s \in Subs : BeginDestroySubsurface(s)
  \/ \E s \in Surfaces : BeginDestroySurface(s)

TreeNext == Requests \/ (\E s \in Surfaces : DetachStep(s)) \/ (\E r \in Roles : Window(r))

TreeSpec == TreeInit /\ [][TreeNext]_allVars

\* A window's looper handles its messages, and a hook the server waits for ends.
FairTreeSpec == /\ TreeSpec
                /\ \A r \in Roles : WF_allVars(WindowStep(r) /\ UNCHANGED treeVars)
                /\ \A s \in Surfaces : WF_allVars(DetachStep(s))

-----------------------------------------------------------------------------
(* Properties.                                                              *)

\* A hook of any view in a window, also of one in a tree that is half taken out, may go from
\* its surface to the parent and further up, as MessageReceived does
\* (HaikuCompositor.cpp:214-222): it meets only surfaces that are alive and have their view
\* in the same window.  And no view is left in a window when its surface gets another.
WalkIsSafe ==
  Running =>
    /\ \A s \in Surfaces : InWindow(s) =>
         /\ s \notin dead
         /\ s \in Subs => /\ s \in objects \cap viewed
                          /\ parent[s] \in Surfaces \ dead
                          /\ RootsOf(parent[s]) = RootsOf(s)
    /\ lost = {}

\* a comes before b in a list.
Precedes(seq, a, b) == \E i, j \in DOMAIN seq : i < j /\ seq[i] = a /\ seq[j] = b

\* The views in the view of s are those of its subsurfaces, oldest first, but those that
\* missed it.
ShownInOrder(s) ==
  /\ ToSet(children[s]) = ToSet(list[s]) \ (missed \cup dead)
  /\ \A a, b \in Subs : Precedes(children[s], a, b) => Precedes(list[s], a, b)

\* Between requests, the views in the view of a surface in a window are those of its
\* subsurfaces, oldest first, but those that were there before a toplevel, or that were made
\* two levels below a surface without a view (HaikuSubcompositor.cpp:69-73,
\* HaikuCompositor.cpp:338-357).
SubsurfacesAreShown ==
  Running /\ detaching = Nothing => \A s \in Surfaces : InWindow(s) => ShownInOrder(s)

\* No parent, subsurface or list leads to what was deleted, in whatever order surfaces,
\* subsurfaces and roles are destroyed, but from a subsurface that outlives its own surface:
\* fSurface is never reset (HaikuSubcompositor.cpp:76-83, HaikuCompositor.cpp:301-316).
DanglesOnlyAfterSurface == undefined => dead \cap objects # {}
=============================================================================
