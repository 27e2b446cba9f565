-------------------------- MODULE XdgWindowsProofs --------------------------
(***************************************************************************)
(* What XdgWindows guarantees for any number of toplevels and popups, asked *)
(* to quit any number of times, what Subsurfaces adds for any surfaces in   *)
(* them, and where Positioner places a popup.                               *)
(***************************************************************************)
EXTENDS Subsurfaces, Positioner, TLAPS

\* A role that is there names its window and has its view in it, and no other does; a
\* toplevel's window agrees to quit only when its role is destroyed.  A window whose view was
\* deleted with it is gone.
RolesKeepWindows ==
  /\ \A r \in Roles : named[r] <=> role[r] \in {"alive", "dying"}
  /\ \A r \in Roles : view[r] <=> role[r] \in {"alive", "dying"}
  /\ \A r \in Toplevels : window[r] \in {"quit", "gone"} => role[r] = "destroyed"
  /\ \A r \in Roles : badDeletion[r] => window[r] = "gone"

IInv == TypeOK /\ RolesKeepWindows

LEMMA InitIInv == Init => IInv
<1> SUFFICES ASSUME Init  PROVE IInv
  OBVIOUS
<1>1. closes \in [Roles -> 0..MaxCloses]
  BY MaxClosesAssumption DEF Init
<1>2. TypeOK
  BY <1>1 DEF Init, TypeOK
<1>3. RolesKeepWindows
  BY DEF Init, RolesKeepWindows, Roles
<1> QED BY <1>2, <1>3 DEF IInv

-----------------------------------------------------------------------------
(* One lemma for each action.                                               *)

LEMMA CreateIInv ==
  ASSUME NEW r \in Roles, IInv, Create(r)  PROVE IInv'
<1>1. TypeOK'
  BY DEF Create, IInv, TypeOK
<1>2. RolesKeepWindows'
  BY DEF Create, IInv, TypeOK, RolesKeepWindows, Roles
<1> QED BY <1>1, <1>2 DEF IInv

LEMMA DestroyIInv ==
  ASSUME NEW r \in Roles, IInv, Destroy(r), role[r] \in {"alive", "dying"}  PROVE IInv'
<1>1. CASE window[r] = "gone"
  BY <1>1 DEF Destroy, IInv, TypeOK, RolesKeepWindows, Roles
<1>2. CASE window[r] # "gone"
  <2>1. /\ role' = [role EXCEPT ![r] = "destroyed"]
        /\ named' = [named EXCEPT ![r] = FALSE]
        /\ view' = [view EXCEPT ![r] = FALSE]
        /\ inbox' = [inbox EXCEPT ![r] = @ + 1]
        /\ UNCHANGED <<window, closes, asked, badDeletion, crashed>>
    BY <1>2 DEF Destroy
  <2>2. TypeOK'
    BY <2>1 DEF IInv, TypeOK
  <2>3. RolesKeepWindows'
    BY <2>1 DEF IInv, TypeOK, RolesKeepWindows, Roles
  <2> QED BY <2>2, <2>3 DEF IInv
<1> QED BY <1>1, <1>2

LEMMA DestroyWaitsIInv ==
  ASSUME NEW r \in Roles, IInv, DestroyWaits(r)  PROVE IInv'
  BY DEF DestroyWaits, IInv, TypeOK, RolesKeepWindows, Roles

LEMMA CloseIInv ==
  ASSUME NEW r \in Roles, IInv, Close(r)  PROVE IInv'
<1>1. TypeOK'
  BY MaxClosesAssumption DEF Close, IInv, TypeOK
<1>2. RolesKeepWindows'
  BY DEF Close, IInv, RolesKeepWindows
<1> QED BY <1>1, <1>2 DEF IInv

\* Only here a window agrees to quit: a toplevel's, when nothing names it.
LEMMA QuitRequestedIInv ==
  ASSUME NEW r \in Roles, IInv, QuitRequested(r)  PROVE IInv'
<1>1. CASE r \in Popups
  <2>1. TypeOK'
    BY <1>1 DEF QuitRequested, ClosePopup, IInv, TypeOK
  <2>2. RolesKeepWindows'
    BY <1>1, RolesAssumption DEF QuitRequested, ClosePopup, IInv, TypeOK, RolesKeepWindows, Roles
  <2> QED BY <2>1, <2>2 DEF IInv
<1>2. CASE r \notin Popups
  <2>1. TypeOK'
    BY <1>2 DEF QuitRequested, CloseToplevel, IInv, TypeOK
  <2>2. RolesKeepWindows'
    BY <1>2 DEF QuitRequested, CloseToplevel, IInv, TypeOK, RolesKeepWindows, Roles
  <2> QED BY <2>1, <2>2 DEF IInv
<1> QED BY <1>1, <1>2

LEMMA QuitIInv ==
  ASSUME NEW r \in Roles, IInv, Quit(r)  PROVE IInv'
<1>1. TypeOK'
  BY DEF Quit, IInv, TypeOK
<1>2. RolesKeepWindows'
  BY DEF Quit, IInv, TypeOK, RolesKeepWindows, Roles
<1> QED BY <1>1, <1>2 DEF IInv

LEMMA UseToplevelIInv ==
  ASSUME NEW r \in Roles, IInv, UseToplevel(r)  PROVE IInv'
  BY DEF UseToplevel, IInv, TypeOK, RolesKeepWindows

-----------------------------------------------------------------------------
LEMMA NextIInv == IInv /\ [Next]_vars => IInv'
<1> SUFFICES ASSUME IInv, [Next]_vars  PROVE IInv'
  OBVIOUS
<1>1. CASE UNCHANGED vars
  BY <1>1 DEF vars, IInv, TypeOK, RolesKeepWindows
<1>2. ASSUME NEW r \in Roles, Create(r)  PROVE IInv'
  BY <1>2, CreateIInv
<1>3. ASSUME NEW r \in Roles, DestroyRole(r) \/ Detached(r)  PROVE IInv'
  BY <1>3, DestroyIInv DEF DestroyRole, Detached
<1>4. ASSUME NEW r \in Roles, DestroyWaits(r)  PROVE IInv'
  BY <1>4, DestroyWaitsIInv
<1>5. ASSUME NEW r \in Roles, Close(r)  PROVE IInv'
  BY <1>5, CloseIInv
<1>6. ASSUME NEW r \in Roles, WindowStep(r)  PROVE IInv'
  BY <1>6, QuitRequestedIInv, QuitIInv DEF WindowStep
<1>7. ASSUME NEW r \in Roles, UseToplevel(r)  PROVE IInv'
  BY <1>7, UseToplevelIInv
<1> QED BY <1>1, <1>2, <1>3, <1>4, <1>5, <1>6, <1>7 DEF Next

\* The inductive invariant, for any roles: a role and its window begin and end together.
THEOREM Invariance == Spec => []IInv
<1>1. Init => IInv
  BY InitIInv
<1>2. IInv /\ [Next]_vars => IInv'
  BY NextIInv
<1> QED BY <1>1, <1>2, PTL DEF Spec

\* TypeOK holds: every role has a window from the time it is created.
THEOREM TypeCorrect == Spec => []TypeOK
<1>1. IInv => TypeOK
  BY DEF IInv
<1> QED BY <1>1, Invariance, PTL

\* The window of a toplevel is deleted only when the client has destroyed the toplevel and
\* its view is out (HaikuXdgToplevel.cpp:49-56, 283-294), for any roles and any quit requests.
THEOREM ToplevelWindowIsReleasedCorrect == Spec => []ToplevelWindowIsReleased
<1>1. IInv => ToplevelWindowIsReleased
  BY DEF IInv, RolesKeepWindows, ToplevelWindowIsReleased, Roles
<1> QED BY <1>1, Invariance, PTL

-----------------------------------------------------------------------------
(* Lists without repetitions.                                               *)

LEMMA AppendFacts ==
  ASSUME NEW S, NEW q \in Seq(S), NEW e \in S, e \notin ToSet(q), IsInjective(q)
  PROVE  /\ Append(q, e) \in Seq(S) /\ ToSet(Append(q, e)) = ToSet(q) \cup {e}
         /\ IsInjective(Append(q, e))
         /\ \A a, b : Precedes(Append(q, e), a, b) <=> Precedes(q, a, b) \/ (b = e /\ a \in ToSet(q))
<1> DEFINE r == Append(q, e)
<1>1. r \in Seq(S) /\ Len(r) = Len(q) + 1 /\ r[Len(q) + 1] = e /\ \A i \in 1..Len(q) : r[i] = q[i]
  OBVIOUS
<1>2. DOMAIN r = 1..(Len(q) + 1) /\ DOMAIN q = 1..Len(q) /\ Len(q) \in Nat
  BY <1>1
<1>3. ToSet(r) = ToSet(q) \cup {e}
  BY <1>1, <1>2 DEF ToSet
<1>4. IsInjective(r)
  BY <1>1, <1>2 DEF ToSet, IsInjective
<1>5. ASSUME NEW a, NEW b  PROVE Precedes(r, a, b) <=> Precedes(q, a, b) \/ (b = e /\ a \in ToSet(q))
  <2>1. ASSUME Precedes(r, a, b)  PROVE Precedes(q, a, b) \/ (b = e /\ a \in ToSet(q))
    BY <1>1, <1>2, <2>1 DEF Precedes, ToSet
  <2>2. ASSUME Precedes(q, a, b)  PROVE Precedes(r, a, b)
    BY <1>1, <1>2, <2>2 DEF Precedes
  <2>3. ASSUME b = e, a \in ToSet(q)  PROVE Precedes(r, a, b)
    <3>1. PICK i \in 1..Len(q) : q[i] = a
      BY <1>2, <2>3 DEF ToSet
    <3>2. r[i] = a /\ r[Len(q) + 1] = b /\ i < Len(q) + 1
      BY <1>1, <1>2, <2>3, <3>1
    <3> HIDE DEF r
    <3> QED BY <1>2, <3>1, <3>2 DEF Precedes
  <2> QED BY <2>1, <2>2, <2>3
<1> QED BY <1>1, <1>3, <1>4, <1>5

\* What is not in a list is not removed from it.
LEMMA RemoveFirstNothing ==
  ASSUME NEW S, NEW q \in Seq(S), NEW e, e \notin ToSet(q)
  PROVE  RemoveFirst(q, e) = q
  BY DEF RemoveFirst, ToSet

LEMMA RemoveFirstAt ==
  ASSUME NEW S, NEW q \in Seq(S), NEW k \in 1..Len(q), IsInjective(q)
  PROVE  RemoveFirst(q, q[k]) = SubSeq(q, 1, k - 1) \o SubSeq(q, k + 1, Len(q))
<1> DEFINE I == {i \in 1..Len(q) : q[i] = q[k]}
<1>1. I = {k}
  BY DEF IsInjective
<1>2. Min(I) = k
  <2>1. \A x \in I : x = k
    BY <1>1
  <2>2. k \in I /\ \A y \in I : k =< y
    BY <1>1
  <2> HIDE DEF I
  <2> QED BY <2>1, <2>2 DEF Min
<1>3. SelectInSeq(q, LAMBDA v : v = q[k]) = k
  BY <1>1, <1>2 DEF SelectInSeq
<1> QED BY <1>3 DEF RemoveFirst, RemoveAt

LEMMA RemoveFirstFacts ==
  ASSUME NEW S, NEW q \in Seq(S), NEW e, IsInjective(q)
  PROVE  /\ RemoveFirst(q, e) \in Seq(S) /\ ToSet(RemoveFirst(q, e)) = ToSet(q) \ {e}
         /\ IsInjective(RemoveFirst(q, e))
         /\ \A a, b : Precedes(RemoveFirst(q, e), a, b)
                        <=> Precedes(q, a, b) /\ a # e /\ b # e
<1>1. CASE e \notin ToSet(q)
  <2>1. \A a, b : Precedes(q, a, b) => a # e /\ b # e
    BY <1>1 DEF Precedes, ToSet
  <2> QED BY <1>1, <2>1, RemoveFirstNothing
<1>2. CASE e \in ToSet(q)
  <2>1. PICK k \in 1..Len(q) : q[k] = e
    BY <1>2 DEF ToSet
  <2> DEFINE r == SubSeq(q, 1, k - 1) \o SubSeq(q, k + 1, Len(q))
  <2>2. RemoveFirst(q, e) = r
    BY <2>1, RemoveFirstAt
  <2>3. /\ r \in Seq(S) /\ Len(r) = Len(q) - 1
        /\ \A i \in 1..Len(r) : r[i] = IF i < k THEN q[i] ELSE q[i + 1]
    <3> DEFINE u == SubSeq(q, 1, k - 1)
               v == SubSeq(q, k + 1, Len(q))
    <3>1. u \in Seq(S) /\ Len(u) = k - 1 /\ \A i \in 1..(k - 1) : u[i] = q[i]
      OBVIOUS
    <3>2. v \in Seq(S) /\ Len(v) = Len(q) - k /\ \A i \in 1..(Len(q) - k) : v[i] = q[k + i]
      OBVIOUS
    <3> HIDE DEF u, v
    <3>3. /\ u \o v \in Seq(S) /\ Len(u \o v) = Len(q) - 1
          /\ \A i \in 1..Len(q) - 1 : (u \o v)[i] = IF i < k THEN u[i] ELSE v[i - (k - 1)]
      BY <3>1, <3>2
    <3>4. \A i \in 1..Len(q) - 1 : (u \o v)[i] = IF i < k THEN q[i] ELSE q[i + 1]
      <4>1. TAKE i \in 1..Len(q) - 1
      <4>2. CASE i < k
        BY <3>1, <3>3, <4>2
      <4>3. CASE ~(i < k)
        <5>1. i - (k - 1) \in 1..(Len(q) - k) /\ k + (i - (k - 1)) = i + 1
          BY <4>3
        <5> QED BY <3>2, <3>3, <4>3, <5>1
      <4> QED BY <4>2, <4>3
    <3> QED BY <3>3, <3>4 DEF u, v
  <2> HIDE DEF r
  <2>4. DOMAIN r = 1..(Len(q) - 1) /\ DOMAIN q = 1..Len(q) /\ Len(q) \in Nat
    BY <2>3
  <2>5. ToSet(r) = ToSet(q) \ {e}
    <3>1. ASSUME NEW i \in 1..(Len(q) - 1)  PROVE r[i] \in ToSet(q) \ {e}
      BY <2>1, <2>3, <2>4, <3>1 DEF ToSet, IsInjective
    <3>2. ASSUME NEW j \in 1..Len(q), q[j] # e  PROVE q[j] \in ToSet(r)
      <4>1. CASE j < k
        <5>1. j \in 1..(Len(q) - 1) /\ r[j] = q[j]
          BY <2>3, <2>4, <4>1
        <5> QED BY <2>4, <5>1 DEF ToSet
      <4>2. CASE j > k
        <5>1. j - 1 \in 1..(Len(q) - 1) /\ r[j - 1] = q[j]
          BY <2>3, <2>4, <4>2
        <5> QED BY <2>4, <5>1 DEF ToSet
      <4> QED BY <2>1, <3>2, <4>1, <4>2
    <3> QED BY <2>4, <3>1, <3>2 DEF ToSet
  <2>6. IsInjective(r)
    BY <2>3, <2>4 DEF IsInjective
  <2>7. ASSUME NEW a, NEW b  PROVE Precedes(r, a, b) <=> Precedes(q, a, b) /\ a # e /\ b # e
    <3>1. ASSUME Precedes(r, a, b)  PROVE Precedes(q, a, b) /\ a # e /\ b # e
      <4>1. PICK i, j \in 1..(Len(q) - 1) : i < j /\ r[i] = a /\ r[j] = b
        BY <2>4, <3>1 DEF Precedes
      <4>2. a # e /\ b # e
        BY <2>4, <2>5, <4>1 DEF ToSet
      <4>3. \E m, n \in 1..Len(q) : m < n /\ q[m] = a /\ q[n] = b
        BY <2>3, <2>4, <4>1
      <4> QED BY <2>4, <4>2, <4>3 DEF Precedes
    <3>2. ASSUME Precedes(q, a, b), a # e, b # e  PROVE Precedes(r, a, b)
      <4>1. PICK m, n \in 1..Len(q) : m < n /\ q[m] = a /\ q[n] = b
        BY <2>4, <3>2 DEF Precedes
      <4>2. m # k /\ n # k
        BY <2>1, <3>2, <4>1
      <4> DEFINE i == IF m < k THEN m ELSE m - 1
                 j == IF n < k THEN n ELSE n - 1
      <4>3. i \in 1..(Len(q) - 1) /\ j \in 1..(Len(q) - 1) /\ i < j /\ r[i] = a /\ r[j] = b
        BY <2>3, <2>4, <4>1, <4>2
      <4> HIDE DEF i, j
      <4> QED BY <2>4, <4>3 DEF Precedes
    <3> QED BY <3>1, <3>2
  <2> QED BY <2>2, <2>3, <2>5, <2>6, <2>7
<1> QED BY <1>1, <1>2

-----------------------------------------------------------------------------
(* What is reached.                                                         *)

Downward(below) == \A x \in Surfaces : ToSet(below[x]) \subseteq Surfaces

LEMMA ReachSelf ==
  \A below : \A s \in Surfaces : s \in Reachable(below, s)
  BY DEF Reachable

LEMMA ReachStep ==
  \A below : \A s \in Surfaces : \A x \in Reachable(below, s) :
    \A c \in ToSet(below[x]) : c \in Surfaces => c \in Reachable(below, s)
  BY DEF Reachable

\* The induction: a closed set with s in it holds whatever can be reached.
LEMMA ReachLeast ==
  ASSUME NEW below, NEW s, NEW X \in SUBSET Surfaces, s \in X,
         \A x \in X : ToSet(below[x]) \subseteq X
  PROVE  Reachable(below, s) \subseteq X
  BY DEF Reachable

\* What is reached is reached from somewhere.
LEMMA ReachBack ==
  ASSUME NEW below, Downward(below), NEW s \in Surfaces, NEW t \in Reachable(below, s), t # s
  PROVE  \E x \in Reachable(below, s) : t \in ToSet(below[x])
<1> SUFFICES ASSUME \A x \in Reachable(below, s) : t \notin ToSet(below[x])  PROVE FALSE
  OBVIOUS
<1> DEFINE X == Reachable(below, s) \ {t}
<1>1. X \in SUBSET Surfaces /\ s \in X
  BY ReachSelf DEF Reachable
<1>2. ASSUME NEW x \in X, NEW c \in ToSet(below[x])  PROVE c \in X
  BY <1>1, <1>2, ReachStep DEF Downward
<1>3. \A x \in X : ToSet(below[x]) \subseteq X
  BY <1>2
<1> HIDE DEF X
<1>4. Reachable(below, s) \subseteq X
  BY <1>1, <1>3, ReachLeast
<1> QED BY <1>4 DEF X

\* Fewer links reach less.
LEMMA ReachFewer ==
  ASSUME NEW below, Downward(below), NEW fewer, NEW s \in Surfaces,
         \A x \in Surfaces : ToSet(fewer[x]) \subseteq ToSet(below[x])
  PROVE  Reachable(fewer, s) \subseteq Reachable(below, s)
<1> DEFINE X == Reachable(below, s)
<1>1. X \in SUBSET Surfaces /\ s \in X
  BY ReachSelf DEF Reachable
<1>2. ASSUME NEW x \in X, NEW c \in ToSet(fewer[x])  PROVE c \in X
  <2>1. c \in ToSet(below[x]) /\ c \in Surfaces
    BY <1>1, <1>2 DEF Downward
  <2> QED BY <2>1, <1>2, ReachStep
<1> HIDE DEF X
<1> QED BY <1>1, <1>2, ReachLeast DEF X

-----------------------------------------------------------------------------
(* The trees of views.                                                      *)

TreeTypeOK ==
  /\ dead \subseteq Surfaces /\ objects \subseteq Subs
  /\ parent \in [Subs -> Surfaces \cup {None}]
  /\ list \in [Surfaces -> Seq(Subs)] /\ children \in [Surfaces -> Seq(Subs)]
  /\ viewed \subseteq Subs /\ missed \subseteq Subs /\ lost \subseteq Surfaces
  /\ detaching \in {Nothing} \cup [of : Surfaces, destroys : {"role", "subsurface", "surface"}]
  /\ undefined \in BOOLEAN

\* A subsurface is in the list of its parent, once, and in no other; a surface that is
\* destroyed is nobody's parent.
ParentsList ==
  /\ \A s \in Surfaces : ToSet(list[s]) = {c \in objects : parent[c] = s} /\ IsInjective(list[s])
  /\ \A c \in Subs : parent[c] # None => c \in objects
  /\ \A s \in dead : list[s] = <<>>

\* The views in a view are those of subsurfaces that are alive.
ChildrenAreSubsurfaces ==
  \A s \in Surfaces :
    /\ \A c \in ToSet(children[s]) : parent[c] = s /\ c \in viewed \ dead
    /\ IsInjective(children[s])
    /\ ~ HasView(s) \/ s \in dead => children[s] = <<>>

\* A surface is destroyed after its role, and what is being taken apart is there.
RolesBeforeSurfaces ==
  /\ \A r \in Roles : role[r] \in {"alive", "dying"} => r \notin dead
  /\ detaching # Nothing =>
       /\ detaching.of \notin dead
       /\ detaching.destroys = "role" => detaching.of \in Roles /\ role[detaching.of] = "dying"
       /\ detaching.destroys = "subsurface" => detaching.of \in objects
       /\ detaching.destroys = "surface" /\ detaching.of \in Roles
            => role[detaching.of] \in {"none", "destroyed"}

\* What is in a window shows its subsurfaces, but what Detach is at.
OthersAreShown ==
  \A s \in Surfaces :
    InWindow(s) /\ (detaching # Nothing => s \notin Tree(detaching.of)) => ShownInOrder(s)

Trees == IInv /\ TreeTypeOK /\ ParentsList /\ ChildrenAreSubsurfaces /\ RolesBeforeSurfaces

\* The trees are sound as long as nothing undefined was done.
TreeInv == /\ IInv /\ TreeTypeOK
           /\ Running => Trees /\ OthersAreShown /\ lost = {}
           /\ DanglesOnlyAfterSurface

LEMMA SubsAreSurfaces ==
  /\ Roles \subseteq Surfaces /\ Subs \subseteq Surfaces /\ None \notin Surfaces
  /\ \A s \in Surfaces : s \in Subs <=> s \notin Roles
  BY SubsAssumption DEF Surfaces

LEMMA SeqToSet ==
  ASSUME NEW S, NEW q \in Seq(S)  PROVE ToSet(q) \subseteq S /\ (ToSet(q) = {} <=> q = <<>>)
  BY DEF ToSet

LEMMA LinksGoDown == TreeTypeOK => Downward(children) /\ Downward(list)
  BY SeqToSet, SubsAreSurfaces DEF TreeTypeOK, Downward

LEMMA InWindowIff ==
  \A s : InWindow(s) <=> \E r \in Roles : view[r] /\ s \in Tree(r)
  BY DEF InWindow, RootsOf

LEMMA ChildFacts ==
  ASSUME Trees, NEW x \in Surfaces, NEW c \in ToSet(children[x])
  PROVE  /\ c \in Subs /\ c \in Surfaces /\ c \notin Roles /\ parent[c] = x
         /\ c \in objects /\ c \in viewed /\ c \notin dead /\ c \in ToSet(list[x])
         /\ x \notin dead /\ HasView(x)
<1>1. c \in Subs /\ c \in Surfaces /\ c \notin Roles /\ children[x] # <<>>
  BY SeqToSet, SubsAreSurfaces DEF Trees, TreeTypeOK
<1>2. parent[c] = x /\ c \in viewed /\ c \notin dead /\ x \notin dead /\ HasView(x)
  BY <1>1 DEF Trees, ChildrenAreSubsurfaces
<1>3. c \in objects /\ c \in ToSet(list[x])
  BY <1>1, <1>2, SubsAreSurfaces DEF Trees, ParentsList
<1> QED BY <1>1, <1>2, <1>3

LEMMA TreeBack ==
  ASSUME Trees, NEW s \in Surfaces, NEW x \in Tree(s), x # s
  PROVE  x \in Subs /\ parent[x] \in Tree(s) /\ x \in ToSet(children[parent[x]])
<1>1. PICK y \in Tree(s) : x \in ToSet(children[y])
  BY LinksGoDown, ReachBack DEF Tree, Trees
<1>2. y \in Surfaces
  BY DEF Tree, Reachable
<1> QED BY <1>1, <1>2, ChildFacts

LEMMA TreeFacts ==
  /\ \A s \in Surfaces : Tree(s) \subseteq Surfaces /\ s \in Tree(s)
  /\ Trees => \A s \in Surfaces : \A x \in Tree(s) : ToSet(children[x]) \subseteq Tree(s)
<1>1. \A s \in Surfaces : Tree(s) \subseteq Surfaces /\ s \in Tree(s)
  BY ReachSelf DEF Tree, Reachable
<1>2. ASSUME Trees, NEW s \in Surfaces, NEW x \in Tree(s), NEW c \in ToSet(children[x])
      PROVE  c \in Tree(s)
  BY <1>1, <1>2, ChildFacts, ReachStep DEF Tree
<1> QED BY <1>1, <1>2

LEMMA ShownIsAlive ==
  ASSUME Trees, NEW s \in Surfaces, InWindow(s)  PROVE s \notin dead /\ HasView(s)
<1>1. PICK r \in Roles : view[r] /\ s \in Tree(r)
  BY InWindowIff
<1>2. CASE s = r
  BY <1>1, <1>2 DEF Trees, IInv, RolesKeepWindows, RolesBeforeSurfaces, HasView
<1>3. CASE s # r
  <2>1. s \in Subs /\ parent[s] \in Tree(r) /\ s \in ToSet(children[parent[s]])
    BY <1>1, <1>3, TreeBack, SubsAreSurfaces
  <2>2. parent[s] \in Surfaces
    BY <2>1, SubsAreSurfaces, TreeFacts
  <2> QED BY <2>1, <2>2, ChildFacts, SubsAreSurfaces DEF HasView
<1> QED BY <1>2, <1>3

\* A role is at the top of its tree, and a tree has one role.
LEMMA RoleIsRoot ==
  ASSUME Trees, NEW s \in Surfaces, NEW r \in Roles, r \in Tree(s)  PROVE r = s
  BY TreeBack, SubsAreSurfaces

LEMMA OneRoot ==
  ASSUME Trees, NEW r \in Roles, NEW q \in Roles, NEW s \in Tree(r), s \in Tree(q)
  PROVE  r = q
<1> SUFFICES ASSUME r # q  PROVE FALSE
  OBVIOUS
<1> DEFINE X == Tree(r) \ Tree(q)
<1>1. X \in SUBSET Surfaces /\ r \in X
  BY TreeFacts, SubsAreSurfaces, RoleIsRoot
<1>2. ASSUME NEW x \in X, NEW c \in ToSet(children[x])  PROVE c \in X
  <2>1. c \in Tree(r) /\ c \in Subs /\ c # q /\ parent[c] = x
    BY <1>1, <1>2, TreeFacts, SubsAreSurfaces, ChildFacts
  <2>2. c \in Tree(q) => x \in Tree(q)
    BY <2>1, TreeBack, SubsAreSurfaces
  <2> QED BY <1>2, <2>1, <2>2
<1> HIDE DEF X
<1>3. Tree(r) \subseteq X
  BY <1>1, <1>2, ReachLeast DEF Tree
<1> QED BY <1>3 DEF X

LEMMA LeafIsTree ==
  ASSUME Trees, NEW s \in Surfaces, children[s] = <<>>  PROVE Tree(s) = {s}
<1>1. ToSet(children[s]) \subseteq {s}
  BY DEF ToSet
<1>2. Tree(s) \subseteq {s}
  BY <1>1, ReachLeast DEF Tree
<1> QED BY <1>2, TreeFacts

\* What is in a window has its parent there.
LEMMA ParentIsShown ==
  ASSUME Trees, NEW c \in Subs, InWindow(c)
  PROVE  parent[c] \in Surfaces /\ InWindow(parent[c]) /\ c \in ToSet(children[parent[c]])
<1>1. PICK r \in Roles : view[r] /\ c \in Tree(r)
  BY InWindowIff
<1>2. c # r
  BY SubsAreSurfaces
<1>3. parent[c] \in Tree(r) /\ c \in ToSet(children[parent[c]])
  BY <1>1, <1>2, TreeBack, SubsAreSurfaces
<1> QED BY <1>1, <1>3, InWindowIff, TreeFacts, SubsAreSurfaces

-----------------------------------------------------------------------------
(* What follows.                                                            *)

LEMMA WalkIsSafeInv == TreeInv => WalkIsSafe
<1> SUFFICES ASSUME TreeInv, Running  PROVE WalkIsSafe
  BY DEF WalkIsSafe
<1>1. Trees /\ lost = {}
  BY DEF TreeInv
<1>2. ASSUME NEW s \in Surfaces, InWindow(s), s \in Subs
      PROVE  /\ s \in objects \cap viewed /\ parent[s] \in Surfaces \ dead
             /\ RootsOf(parent[s]) = RootsOf(s)
  <2> DEFINE p == parent[s]
  <2>1. p \in Surfaces /\ InWindow(p) /\ s \in ToSet(children[p])
    BY <1>1, <1>2, ParentIsShown
  <2>2. s \in objects \cap viewed /\ p \notin dead
    BY <1>1, <2>1, ChildFacts
  <2>3. ASSUME NEW r \in Roles, p \in Tree(r)  PROVE s \in Tree(r)
    BY <1>1, <2>1, <2>3, TreeFacts, SubsAreSurfaces
  <2>4. ASSUME NEW r \in Roles, s \in Tree(r)  PROVE p \in Tree(r)
    BY <1>1, <1>2, <2>4, TreeBack, SubsAreSurfaces
  <2> QED BY <2>1, <2>2, <2>3, <2>4 DEF RootsOf
<1> QED BY <1>1, <1>2, ShownIsAlive DEF WalkIsSafe

LEMMA SubsurfacesAreShownInv == TreeInv => SubsurfacesAreShown
  BY DEF TreeInv, OthersAreShown, SubsurfacesAreShown

-----------------------------------------------------------------------------
(* The actions.                                                             *)

Sound == Trees /\ OthersAreShown /\ lost = {}

\* Steps that leave the views where they are.
LEMMA SameTrees ==
  ASSUME Sound, UNCHANGED <<view, dead, objects, parent, list, viewed, children, missed, lost>>
  PROVE  /\ ParentsList' /\ ChildrenAreSubsurfaces' /\ lost' = {}
         /\ \A s \in Surfaces : /\ InWindow(s)' <=> InWindow(s)
                                /\ ShownInOrder(s)' <=> ShownInOrder(s)
         /\ \A s : Tree(s)' = Tree(s)
<1>1. ParentsList' /\ ChildrenAreSubsurfaces' /\ lost' = {}
  BY DEF Sound, Trees, ParentsList, ChildrenAreSubsurfaces, HasView
<1>2. \A s : Tree(s)' = Tree(s)
  BY DEF Tree
<1>3. \A s \in Surfaces : InWindow(s)' <=> InWindow(s)
  BY <1>2 DEF InWindow, RootsOf
<1>4. \A s \in Surfaces : ShownInOrder(s)' <=> ShownInOrder(s)
  BY DEF ShownInOrder
<1> QED BY <1>1, <1>2, <1>3, <1>4

LEMMA BeginDestroyRoleTrees ==
  ASSUME NEW r \in Roles, Sound, BeginDestroyRole(r)
  PROVE  TreeTypeOK' /\ ParentsList' /\ ChildrenAreSubsurfaces' /\ RolesBeforeSurfaces'
         /\ OthersAreShown' /\ lost' = {} /\ undefined' = undefined
<1>1. /\ detaching = Nothing /\ detaching' = [of |-> r, destroys |-> "role"]
      /\ role[r] = "alive" /\ role' = [role EXCEPT ![r] = "dying"]
      /\ UNCHANGED <<view, dead, objects, parent, list, viewed, children, missed, lost, undefined>>
  BY DEF BeginDestroyRole, Idle, DestroyWaits
<1>2. TreeTypeOK'
  BY <1>1, SubsAreSurfaces DEF Sound, Trees, TreeTypeOK
<1>3. RolesBeforeSurfaces'
  BY <1>1 DEF Sound, Trees, IInv, TypeOK, RolesBeforeSurfaces
<1>4. OthersAreShown'
  BY <1>1, SameTrees DEF Sound, OthersAreShown
<1> QED BY <1>1, <1>2, <1>3, <1>4, SameTrees

LEMMA BeginDestroySubsurfaceTrees ==
  ASSUME NEW s \in Subs, Sound, BeginDestroySubsurface(s)
  PROVE  /\ TreeTypeOK' /\ DanglesOnlyAfterSurface'
         /\ ~ undefined' => ParentsList' /\ ChildrenAreSubsurfaces' /\ RolesBeforeSurfaces'
                            /\ OthersAreShown' /\ lost' = {}
<1>1. /\ detaching = Nothing /\ s \in objects
      /\ UNCHANGED <<role, view, dead, objects, parent, list, viewed, children, missed, lost>>
  BY DEF BeginDestroySubsurface, Idle, vars
<1>2. CASE s \in dead
  <2>1. undefined' = TRUE /\ detaching' = detaching
    BY <1>2 DEF BeginDestroySubsurface
  <2>2. TreeTypeOK' /\ DanglesOnlyAfterSurface'
    BY <1>1, <1>2, <2>1 DEF Sound, Trees, TreeTypeOK, DanglesOnlyAfterSurface
  <2> QED BY <2>1, <2>2
<1>3. CASE s \notin dead
  <2>1. undefined' = undefined /\ detaching' = [of |-> s, destroys |-> "subsurface"]
        /\ ~ undefined
    BY <1>3 DEF BeginDestroySubsurface, Idle, Running
  <2>2. TreeTypeOK' /\ DanglesOnlyAfterSurface'
    BY <1>1, <2>1, SubsAreSurfaces DEF Sound, Trees, TreeTypeOK, DanglesOnlyAfterSurface
  <2>3. RolesBeforeSurfaces'
    BY <1>1, <1>3, <2>1 DEF Sound, Trees, RolesBeforeSurfaces
  <2>4. OthersAreShown'
    BY <1>1, SameTrees DEF Sound, OthersAreShown
  <2> QED BY <1>1, <2>2, <2>3, <2>4, SameTrees
<1> QED BY <1>2, <1>3

LEMMA BeginDestroySurfaceTrees ==
  ASSUME NEW s \in Surfaces, Sound, BeginDestroySurface(s)
  PROVE  TreeTypeOK' /\ ParentsList' /\ ChildrenAreSubsurfaces' /\ RolesBeforeSurfaces'
         /\ OthersAreShown' /\ lost' = {} /\ undefined' = undefined
<1>1. /\ detaching = Nothing /\ detaching' = [of |-> s, destroys |-> "surface"]
      /\ s \notin dead /\ (s \in Roles => role[s] \in {"none", "destroyed"})
      /\ UNCHANGED <<role, view, dead, objects, parent, list, viewed, children, missed, lost, undefined>>
  BY DEF BeginDestroySurface, Idle, vars
<1>2. TreeTypeOK'
  BY <1>1 DEF Sound, Trees, TreeTypeOK
<1>3. RolesBeforeSurfaces'
  BY <1>1 DEF Sound, Trees, RolesBeforeSurfaces
<1>4. OthersAreShown'
  BY <1>1, SameTrees DEF Sound, OthersAreShown
<1> QED BY <1>1, <1>2, <1>3, <1>4, SameTrees

\* A window's step moves no view.
LEMMA WindowTrees ==
  ASSUME NEW r \in Roles, Sound, Window(r)
  PROVE  TreeTypeOK' /\ ParentsList' /\ ChildrenAreSubsurfaces' /\ RolesBeforeSurfaces'
         /\ OthersAreShown' /\ lost' = {}
<1>1. UNCHANGED treeVars /\ UNCHANGED <<role, view>>
  BY DEF Window, Close, WindowStep, QuitRequested, Quit, UseToplevel
<1>2. TreeTypeOK' /\ RolesBeforeSurfaces'
  BY <1>1 DEF treeVars, Sound, Trees, TreeTypeOK, RolesBeforeSurfaces
<1>3. OthersAreShown'
  BY <1>1, SameTrees DEF treeVars, Sound, OthersAreShown
<1> QED BY <1>1, <1>2, <1>3, SameTrees DEF treeVars

LEMMA WindowKeepsRunning ==
  ASSUME NEW r \in Roles, IInv, Window(r), Running'  PROVE Running
<1>1. undefined' = undefined
  BY DEF Window, treeVars
<1>2. ~ crashed
  BY DEF Window, Close, WindowStep, QuitRequested, Quit, UseToplevel
<1>3. ASSUME NEW q \in Roles, badDeletion[q]  PROVE badDeletion'[q]
  <2>1. window[q] = "gone"
    BY <1>3 DEF IInv, RolesKeepWindows
  <2>2. CASE Quit(r)
    BY <1>3, <2>1, <2>2 DEF Quit, IInv, TypeOK
  <2>3. CASE ~ Quit(r)
    BY <1>3, <2>3 DEF Window, Close, WindowStep, QuitRequested, UseToplevel
  <2> QED BY <2>2, <2>3
<1> QED BY <1>1, <1>2, <1>3 DEF Running

\* A toplevel's window begins empty: its surface had no view, and so it had no views in it.
LEMMA CreateToplevelTrees ==
  ASSUME NEW r \in Roles, Sound, CreateToplevel(r)
  PROVE  TreeTypeOK' /\ ParentsList' /\ ChildrenAreSubsurfaces' /\ RolesBeforeSurfaces'
         /\ OthersAreShown' /\ lost' = {} /\ undefined' = undefined
<1>1. /\ detaching = Nothing /\ r \notin dead /\ role[r] = "none"
      /\ role' = [role EXCEPT ![r] = "alive"] /\ view' = [view EXCEPT ![r] = TRUE]
      /\ missed' = missed \cup Earlier(r)
      /\ UNCHANGED <<dead, objects, parent, list, viewed, children, detaching, lost, undefined>>
  BY DEF CreateToplevel, Create, Idle
<1>2. r \in Surfaces /\ ~ view[r] /\ children[r] = <<>>
  BY <1>1, SubsAreSurfaces DEF Sound, Trees, IInv, RolesKeepWindows, ChildrenAreSubsurfaces, HasView
<1>3. Earlier(r) \subseteq Subs
  BY <1>2, SeqToSet DEF Sound, Trees, TreeTypeOK, Earlier
<1>4. TreeTypeOK'
  BY <1>1, <1>3 DEF Sound, Trees, TreeTypeOK
<1>5. ParentsList'
  BY <1>1 DEF Sound, Trees, ParentsList
<1>6. ChildrenAreSubsurfaces'
  BY <1>1, <1>2 DEF Sound, Trees, IInv, TypeOK, ChildrenAreSubsurfaces, HasView
<1>7. RolesBeforeSurfaces'
  BY <1>1 DEF Sound, Trees, IInv, TypeOK, RolesBeforeSurfaces
<1>8. ASSUME NEW s \in Surfaces, InWindow(s)'  PROVE ShownInOrder(s)'
  <2>1. PICK q \in Roles : view'[q] /\ s \in Tree(q)
    BY <1>1, <1>8 DEF InWindow, RootsOf, Tree
  <2>2. CASE q = r
    <3>1. s = r
      BY <1>2, <2>1, <2>2, LeafIsTree DEF Sound
    <3> QED BY <1>1, <1>2, <3>1 DEF ShownInOrder, Earlier, ToSet, Precedes
  <2>3. CASE q # r
    <3>1. view[q] /\ InWindow(s)
      BY <1>1, <2>1, <2>3, InWindowIff DEF Sound, Trees, IInv, TypeOK
    <3>2. s # r
      BY <2>1, <2>3, RoleIsRoot, SubsAreSurfaces DEF Sound
    <3>3. ToSet(list[s]) \cap Earlier(r) = {}
      BY <1>2, <3>2 DEF Sound, Trees, ParentsList, Earlier
    <3>4. ShownInOrder(s)
      BY <1>1, <3>1 DEF Sound, OthersAreShown
    <3> QED BY <1>1, <3>3, <3>4 DEF ShownInOrder
  <2> QED BY <2>2, <2>3
<1> QED BY <1>1, <1>4, <1>5, <1>6, <1>7, <1>8 DEF Sound, OthersAreShown

\* Taking one view out.
LEMMA WithoutFacts ==
  ASSUME Trees, NEW e, children' = Without(children, e)
  PROVE  /\ children' \in [Surfaces -> Seq(Subs)]
         /\ \A x \in Surfaces :
              /\ ToSet(children'[x]) = ToSet(children[x]) \ {e}
              /\ IsInjective(children'[x])
              /\ \A a, b : Precedes(children'[x], a, b) => Precedes(children[x], a, b) /\ a # e /\ b # e
              /\ e \notin ToSet(children[x]) => children'[x] = children[x]
         /\ \A s \in Surfaces : Tree(s)' \subseteq Tree(s)
         /\ e \in Subs => \A s \in Surfaces : e # s => e \notin Tree(s)'
<1>1. ASSUME NEW x \in Surfaces
      PROVE  children[x] \in Seq(Subs) /\ IsInjective(children[x])
             /\ children'[x] = RemoveFirst(children[x], e)
  BY DEF Trees, TreeTypeOK, ChildrenAreSubsurfaces, Without
<1>2. ASSUME NEW x \in Surfaces
      PROVE  /\ children'[x] \in Seq(Subs)
             /\ ToSet(children'[x]) = ToSet(children[x]) \ {e}
             /\ IsInjective(children'[x])
             /\ \A a, b : Precedes(children'[x], a, b) => Precedes(children[x], a, b) /\ a # e /\ b # e
             /\ e \notin ToSet(children[x]) => children'[x] = children[x]
  BY <1>1, RemoveFirstFacts, RemoveFirstNothing
<1>3. children' \in [Surfaces -> Seq(Subs)]
  BY <1>2 DEF Without
<1>4. Downward(children) /\ Downward(children')
  BY <1>3, LinksGoDown, SeqToSet, SubsAreSurfaces DEF Trees, Downward
<1>5. \A s \in Surfaces : Tree(s)' \subseteq Tree(s)
  BY <1>2, <1>4, ReachFewer DEF Tree
<1>6. ASSUME e \in Subs, NEW s \in Surfaces, e # s, e \in Tree(s)'  PROVE FALSE
  <2>1. \E x \in Reachable(children', s) : e \in ToSet(children'[x])
    BY <1>4, <1>6, ReachBack DEF Tree
  <2> QED BY <1>2, <2>1 DEF Reachable
<1> QED BY <1>2, <1>3, <1>5, <1>6

\* RemoveDescendant takes a leaf of the tree it takes apart, and disturbs no other.
LEMMA RemoveDescendantTrees ==
  ASSUME NEW s \in Surfaces, Sound, RemoveDescendant(s)
  PROVE  TreeTypeOK' /\ ParentsList' /\ ChildrenAreSubsurfaces' /\ RolesBeforeSurfaces'
         /\ OthersAreShown' /\ lost' = {} /\ undefined' = undefined
<1>1. /\ detaching.of = s /\ detaching # Nothing /\ children[s] # <<>>
      /\ UNCHANGED <<role, view, dead, objects, parent, list, viewed, detaching, missed, lost, undefined>>
  BY SubsAreSurfaces DEF RemoveDescendant, Nothing, vars
<1>2. PICK leaf \in FirstLeaf(s) : children' = Without(children, leaf)
  BY DEF RemoveDescendant
<1>3. leaf \in Tree(s) /\ children[leaf] = <<>>
  <2>1. \A x \in Surfaces : ToSet(FirstChild[x]) \subseteq ToSet(children[x])
    BY SeqToSet DEF FirstChild, ToSet, Sound, Trees, TreeTypeOK
  <2>2. Reachable(FirstChild, s) \subseteq Tree(s)
    BY <2>1, LinksGoDown, ReachFewer DEF Tree, Sound, Trees
  <2> QED BY <1>2, <2>2 DEF FirstLeaf
<1>4. leaf # s /\ leaf \in Subs /\ leaf \in Surfaces /\ parent[leaf] \in Tree(s)
  BY <1>1, <1>3, TreeBack, SubsAreSurfaces DEF Sound
<1>5. TreeTypeOK' /\ ParentsList' /\ RolesBeforeSurfaces'
  BY <1>1, <1>2, WithoutFacts DEF Sound, Trees, TreeTypeOK, ParentsList, RolesBeforeSurfaces
<1>6. ChildrenAreSubsurfaces'
  BY <1>1, <1>2, <1>4, WithoutFacts, SeqToSet
     DEF Sound, Trees, TreeTypeOK, ChildrenAreSubsurfaces, HasView
<1>7. ASSUME NEW x \in Surfaces, InWindow(x)', x \notin Tree(s)'  PROVE ShownInOrder(x)'
  <2>1. PICK r \in Roles : view[r] /\ x \in Tree(r)'
    BY <1>1, <1>7 DEF InWindow, RootsOf
  <2>2. x \in Tree(r) /\ InWindow(x)
    BY <1>2, <2>1, WithoutFacts, InWindowIff, SubsAreSurfaces DEF Sound
  <2>3. x # leaf
    BY <1>2, <1>4, <2>1, WithoutFacts, SubsAreSurfaces DEF Sound
  <2>4. Tree(s) \subseteq Tree(s)' \cup {leaf}
    <3> DEFINE X == Tree(s)' \cup {leaf}
    <3>1. X \in SUBSET Surfaces /\ s \in X
      BY <1>4, ReachSelf DEF Tree, Reachable
    <3>2. ASSUME NEW y \in X, NEW c \in ToSet(children[y])  PROVE c \in X
      <4>1. c \in Surfaces
        BY <3>1, <3>2, ChildFacts DEF Sound
      <4>2. y # leaf
        BY <1>3, <3>2 DEF ToSet
      <4>3. c = leaf \/ c \in ToSet(children'[y])
        <5>1. y \in Surfaces
          BY <3>1
        <5>2. ToSet(children'[y]) = ToSet(children[y]) \ {leaf}
          BY <1>2, <5>1, WithoutFacts DEF Sound
        <5> QED BY <3>2, <5>2
      <4> QED BY <4>1, <4>2, <4>3, <1>4, ReachStep DEF Tree
    <3> HIDE DEF X
    <3>3. Tree(s) \subseteq X
      BY <3>1, <3>2, ReachLeast DEF Tree
    <3> QED BY <3>3 DEF X
  <2>5. x \notin Tree(s)
    BY <1>7, <2>3, <2>4
  <2>6. leaf \notin ToSet(children[x])
    BY <1>4, <2>5, ChildFacts DEF Sound
  <2>7. children'[x] = children[x]
    BY <1>2, <2>6, WithoutFacts DEF Sound
  <2>8. ShownInOrder(x)
    BY <1>1, <2>2, <2>5 DEF Sound, OthersAreShown
  <2> QED BY <1>1, <2>7, <2>8 DEF ShownInOrder
<1>8. OthersAreShown'
  BY <1>1, <1>7 DEF OthersAreShown
<1> QED BY <1>1, <1>5, <1>6, <1>8 DEF Sound

\* The role goes with the last view: no tree but its own was touched.
LEMMA FinishRoleTrees ==
  ASSUME NEW r \in Roles, Sound, FinishRole(r), ~ crashed'
  PROVE  TreeTypeOK' /\ ParentsList' /\ ChildrenAreSubsurfaces' /\ RolesBeforeSurfaces'
         /\ OthersAreShown' /\ lost' = {} /\ undefined' = undefined
<1>1. /\ detaching = [of |-> r, destroys |-> "role"] /\ detaching' = Nothing
      /\ detaching # Nothing /\ detaching.of = r
      /\ children[r] = <<>> /\ children' = Without(children, r)
      /\ viewed' = viewed \ {r}
      /\ role' = [role EXCEPT ![r] = "destroyed"] /\ view' = [view EXCEPT ![r] = FALSE]
      /\ UNCHANGED <<dead, objects, parent, list, missed, lost, undefined>>
  BY DEF FinishRole, Detaching, Detached, Destroy, RemoveSelf, Nothing
<1>2. r \in Surfaces /\ r \notin Subs
  BY SubsAreSurfaces
<1>3. viewed' = viewed /\ children' = children
  <2>1. \A x \in Surfaces : r \notin ToSet(children[x])
    BY <1>2, SeqToSet DEF Sound, Trees, TreeTypeOK
  <2>2. \A x \in Surfaces : children'[x] = children[x]
    BY <1>1, <2>1, WithoutFacts DEF Sound
  <2> QED BY <1>1, <1>2, <2>2, WithoutFacts DEF Sound, Trees, TreeTypeOK
<1>4. TreeTypeOK' /\ ParentsList' /\ RolesBeforeSurfaces'
  BY <1>1, <1>3 DEF Sound, Trees, IInv, TypeOK, TreeTypeOK, ParentsList, RolesBeforeSurfaces
<1>5. ChildrenAreSubsurfaces'
  BY <1>1, <1>2, <1>3 DEF Sound, Trees, IInv, TypeOK, ChildrenAreSubsurfaces, HasView
<1>6. ASSUME NEW x \in Surfaces, InWindow(x)'  PROVE ShownInOrder(x)'
  <2>1. PICK q \in Roles : view'[q] /\ x \in Tree(q)
    BY <1>3, <1>6 DEF InWindow, RootsOf, Tree
  <2>2. q # r /\ InWindow(x)
    BY <1>1, <2>1, InWindowIff DEF Sound, Trees, IInv, TypeOK
  <2>3. x \notin Tree(r)
    BY <1>1, <1>2, <2>1, <2>2, LeafIsTree, RoleIsRoot, SubsAreSurfaces DEF Sound
  <2>4. ShownInOrder(x)
    BY <1>1, <2>2, <2>3 DEF Sound, OthersAreShown
  <2> QED BY <1>1, <1>3, <2>4 DEF ShownInOrder
<1> QED BY <1>1, <1>4, <1>5, <1>6 DEF Sound, OthersAreShown

\* Nothing of a role is left in its window, and the other windows keep what they have.
LEMMA DestroyRoleAtOnceTrees ==
  ASSUME NEW r \in Roles, Sound, DestroyRoleAtOnce(r), ~ crashed'
  PROVE  TreeTypeOK' /\ ParentsList' /\ ChildrenAreSubsurfaces' /\ RolesBeforeSurfaces'
         /\ OthersAreShown' /\ lost' = {} /\ undefined' = undefined
<1>1. /\ detaching = Nothing
      /\ children' = [s \in Surfaces |-> IF s \in Tree(r) THEN <<>> ELSE children[s]]
      /\ role' = [role EXCEPT ![r] = "destroyed"] /\ view' = [view EXCEPT ![r] = FALSE]
      /\ UNCHANGED <<dead, objects, parent, list, viewed, detaching, missed, lost, undefined>>
  BY DEF DestroyRoleAtOnce, DestroyRole, Destroy, Idle
<1>2. r \in Surfaces /\ r \in Tree(r)
  BY SubsAreSurfaces, TreeFacts
<1>3. children' \in [Surfaces -> Seq(Subs)]
  BY <1>1 DEF Sound, Trees, TreeTypeOK
<1>4. \A x \in Surfaces : ToSet(children'[x]) \subseteq ToSet(children[x])
  BY <1>1 DEF ToSet
<1>5. TreeTypeOK' /\ ParentsList' /\ RolesBeforeSurfaces'
  BY <1>1, <1>3 DEF Sound, Trees, IInv, TypeOK, TreeTypeOK, ParentsList, RolesBeforeSurfaces
<1>6. ChildrenAreSubsurfaces'
  <2>1. ASSUME NEW x \in Surfaces, children'[x] # <<>>
        PROVE  children'[x] = children[x] /\ HasView(x)' = HasView(x)
    BY <1>1, <1>2, <2>1 DEF Sound, Trees, IInv, TypeOK, HasView
  <2>2. IsInjective(<<>>) /\ ToSet(<<>>) = {}
    BY DEF IsInjective, ToSet
  <2> QED BY <1>1, <2>1, <2>2 DEF Sound, Trees, ChildrenAreSubsurfaces
<1>7. ASSUME NEW x \in Surfaces, InWindow(x)'  PROVE ShownInOrder(x)'
  <2>1. PICK q \in Roles : view'[q] /\ x \in Tree(q)'
    BY <1>7 DEF InWindow, RootsOf
  <2>2. q # r /\ view[q]
    BY <1>1, <2>1 DEF Sound, Trees, IInv, TypeOK
  <2>3. x \in Tree(q)
    BY <1>4, <2>1, LinksGoDown, ReachFewer, SubsAreSurfaces DEF Sound, Trees, Tree
  <2>4. InWindow(x) /\ x \notin Tree(r)
    BY <2>2, <2>3, InWindowIff, OneRoot DEF Sound
  <2>5. ShownInOrder(x)
    BY <1>1, <2>4 DEF Sound, OthersAreShown
  <2> QED BY <1>1, <2>4, <2>5 DEF ShownInOrder
<1> QED BY <1>1, <1>5, <1>6, <1>7 DEF Sound, OthersAreShown

\* A subsurface leaves its parent's list, and its view the window.
LEMMA FinishSubsurfaceTrees ==
  ASSUME NEW s \in Subs, Sound, FinishSubsurface(s)
  PROVE  TreeTypeOK' /\ ParentsList' /\ ChildrenAreSubsurfaces' /\ RolesBeforeSurfaces'
         /\ OthersAreShown' /\ lost' = {} /\ ~ undefined'
<1>1. /\ detaching = [of |-> s, destroys |-> "subsurface"] /\ detaching' = Nothing
      /\ detaching # Nothing /\ detaching.of = s /\ s \in objects
      /\ children[s] = <<>> /\ children' = Without(children, s)
      /\ viewed' = viewed \ {s} /\ objects' = objects \ {s}
      /\ parent' = [parent EXCEPT ![s] = None] /\ missed' = missed \ {s}
      /\ undefined' = (parent[s] \in dead)
      /\ UNCHANGED <<role, view, dead, lost>>
  <2>1. detaching # Nothing /\ detaching.of = s /\ s \in objects
    BY DEF FinishSubsurface, Detaching, Sound, Trees, RolesBeforeSurfaces, Nothing
  <2> QED BY <2>1 DEF FinishSubsurface, Detaching, RemoveSelf, vars
<1>2. s \in Surfaces /\ s \notin Roles
  BY SubsAreSurfaces
<1>3. ~ undefined'
  <2>1. SUFFICES ASSUME parent[s] \in dead  PROVE FALSE
    BY <1>1
  <2>2. parent[s] \in Surfaces /\ list[parent[s]] = <<>>
    BY <2>1 DEF Sound, Trees, TreeTypeOK, ParentsList
  <2>3. s \in ToSet(list[parent[s]])
    BY <1>1, <2>2 DEF Sound, Trees, ParentsList
  <2> QED BY <2>2, <2>3 DEF ToSet
<1>4. list' \in [Surfaces -> Seq(Subs)]
      /\ \A x \in Surfaces : list'[x] = RemoveFirst(list[x], s)
  <2>1. CASE parent[s] = None
    <3>1. list' = list
      BY <2>1 DEF FinishSubsurface, Unlist
    <3>2. \A x \in Surfaces : s \notin ToSet(list[x])
      BY <2>1, SubsAreSurfaces DEF Sound, Trees, ParentsList
    <3> QED BY <3>1, <3>2, RemoveFirstNothing DEF Sound, Trees, TreeTypeOK
  <2>2. CASE parent[s] # None
    <3>1. list' = [list EXCEPT ![parent[s]] = RemoveFirst(@, s)] /\ parent[s] \in Surfaces
      BY <2>2 DEF FinishSubsurface, Unlist, Sound, Trees, TreeTypeOK
    <3>2. \A x \in Surfaces : x # parent[s] => s \notin ToSet(list[x])
      BY DEF Sound, Trees, ParentsList
    <3>3. \A x \in Surfaces : list[x] \in Seq(Subs) /\ IsInjective(list[x])
      BY DEF Sound, Trees, TreeTypeOK, ParentsList
    <3>4. \A x \in Surfaces : list'[x] = RemoveFirst(list[x], s)
      BY <3>1, <3>2, <3>3, RemoveFirstNothing DEF Sound, Trees, TreeTypeOK
    <3>5. RemoveFirst(list[parent[s]], s) \in Seq(Subs)
      BY <3>1, <3>3, RemoveFirstFacts
    <3>6. list' \in [Surfaces -> Seq(Subs)]
      BY <3>1, <3>5 DEF Sound, Trees, TreeTypeOK
    <3> QED BY <3>4, <3>6
  <2> QED BY <2>1, <2>2
<1>5. ASSUME NEW x \in Surfaces
      PROVE  /\ ToSet(list'[x]) = ToSet(list[x]) \ {s} /\ IsInjective(list'[x])
             /\ \A a, b : Precedes(list'[x], a, b) <=> Precedes(list[x], a, b) /\ a # s /\ b # s
             /\ list[x] = <<>> => list'[x] = <<>>
  <2>1. list[x] \in Seq(Subs) /\ IsInjective(list[x])
    BY DEF Sound, Trees, TreeTypeOK, ParentsList
  <2>2. list[x] = <<>> => s \notin ToSet(list[x])
    BY DEF ToSet
  <2> QED BY <1>4, <2>1, <2>2, RemoveFirstFacts, RemoveFirstNothing
<1>6. TreeTypeOK'
  BY <1>1, <1>4, WithoutFacts DEF Sound, Trees, TreeTypeOK
<1>7. ParentsList'
  <2>1. ASSUME NEW x \in Surfaces  PROVE ToSet(list'[x]) = {c \in objects' : parent'[c] = x}
    <3>1. ToSet(list[x]) = {c \in objects : parent[c] = x}
      BY DEF Sound, Trees, ParentsList
    <3>2. \A c \in objects' : parent'[c] = parent[c]
      BY <1>1 DEF Sound, Trees, TreeTypeOK
    <3> QED BY <1>1, <1>5, <3>1, <3>2
  <2>2. \A c \in Subs : parent'[c] # None => c \in objects'
    BY <1>1 DEF Sound, Trees, TreeTypeOK, ParentsList
  <2>3. \A x \in dead' : list'[x] = <<>>
    BY <1>1, <1>5 DEF Sound, Trees, TreeTypeOK, ParentsList
  <2> QED BY <1>5, <2>1, <2>2, <2>3 DEF ParentsList
<1>8. ChildrenAreSubsurfaces'
  <2>1. ASSUME NEW x \in Surfaces, NEW c \in ToSet(children'[x])
        PROVE  parent'[c] = x /\ c \in viewed' \ dead'
    <3>1. c # s /\ c \in ToSet(children[x])
      <4>1. ToSet(children'[x]) = ToSet(children[x]) \ {s}
        BY <1>1, WithoutFacts DEF Sound
      <4> QED BY <2>1, <4>1
    <3> QED BY <1>1, <3>1, ChildFacts DEF Sound, Trees, TreeTypeOK
  <2>2. ASSUME NEW x \in Surfaces, ~ HasView(x)' \/ x \in dead'  PROVE children'[x] = <<>>
    <3>1. x = s \/ ~ HasView(x) \/ x \in dead
      BY <1>1, <2>2 DEF HasView
    <3>2. children[x] = <<>>
      BY <1>1, <3>1 DEF Sound, Trees, ChildrenAreSubsurfaces
    <3>3. s \notin ToSet(children[x])
      BY <3>2 DEF ToSet
    <3> QED BY <1>1, <3>2, <3>3, WithoutFacts DEF Sound
  <2> QED BY <1>1, <2>1, <2>2, WithoutFacts DEF Sound, ChildrenAreSubsurfaces
<1>9. RolesBeforeSurfaces'
  BY <1>1 DEF Sound, Trees, RolesBeforeSurfaces
<1>10. ASSUME NEW x \in Surfaces, InWindow(x)'  PROVE ShownInOrder(x)'
  <2>1. PICK r \in Roles : view[r] /\ x \in Tree(r)'
    BY <1>1, <1>10 DEF InWindow, RootsOf
  <2>2. InWindow(x) /\ x # s
    BY <1>1, <1>2, <2>1, WithoutFacts, InWindowIff, SubsAreSurfaces DEF Sound
  <2>3. x \notin Tree(s)
    BY <1>1, <1>2, <2>2, LeafIsTree DEF Sound
  <2>4. ShownInOrder(x)
    BY <1>1, <2>2, <2>3 DEF Sound, OthersAreShown
  <2>5. ToSet(children'[x]) = ToSet(children[x]) \ {s}
        /\ \A a, b : Precedes(children'[x], a, b) => Precedes(children[x], a, b) /\ a # s /\ b # s
    BY <1>1, WithoutFacts DEF Sound
  <2>6. ToSet(children'[x]) = ToSet(list'[x]) \ (missed' \cup dead')
    BY <1>1, <1>5, <2>4, <2>5 DEF ShownInOrder
  <2>7. \A a, b \in Subs : Precedes(children'[x], a, b) => Precedes(list'[x], a, b)
    BY <1>5, <2>4, <2>5 DEF ShownInOrder
  <2> QED BY <2>6, <2>7 DEF ShownInOrder
<1> QED BY <1>1, <1>3, <1>6, <1>7, <1>8, <1>9, <1>10 DEF Sound, OthersAreShown

\* A surface leaves its subsurfaces without a parent.
LEMMA FinishSurfaceTrees ==
  ASSUME NEW s \in Surfaces, Sound, FinishSurface(s)
  PROVE  TreeTypeOK' /\ ParentsList' /\ ChildrenAreSubsurfaces' /\ RolesBeforeSurfaces'
         /\ OthersAreShown' /\ lost' = {} /\ undefined' = undefined
<1>1. /\ detaching = [of |-> s, destroys |-> "surface"] /\ detaching' = Nothing
      /\ detaching # Nothing /\ detaching.of = s
      /\ s \in Roles => role[s] \in {"none", "destroyed"}
      /\ children[s] = <<>> /\ children' = Without(children, s)
      /\ viewed' = viewed \ {s} /\ dead' = dead \cup {s}
      /\ parent' = [c \in Subs |-> IF c \in Earlier(s) THEN None ELSE parent[c]]
      /\ list' = [list EXCEPT ![s] = <<>>]
      /\ UNCHANGED <<role, view, objects, missed, lost, undefined>>
  <2>1. detaching # Nothing /\ detaching.of = s /\ (s \in Roles => role[s] \in {"none", "destroyed"})
    BY DEF FinishSurface, Detaching, Sound, Trees, RolesBeforeSurfaces, Nothing
  <2> QED BY <2>1 DEF FinishSurface, Detaching, RemoveSelf, Orphan, vars
<1>2. s \in Roles => ~ view[s]
  BY <1>1 DEF Sound, Trees, IInv, RolesKeepWindows
<1>3. ToSet(<<>>) = {} /\ IsInjective(<<>>)
  BY DEF ToSet, IsInjective
<1>4. ASSUME NEW x \in Surfaces
      PROVE  /\ list'[x] = IF x = s THEN <<>> ELSE list[x]
             /\ \A c \in Subs : parent'[c] = x <=> parent[c] = x /\ x # s
  <2>1. list'[x] = IF x = s THEN <<>> ELSE list[x]
    BY <1>1 DEF Sound, Trees, TreeTypeOK
  <2>2. ASSUME NEW c \in Subs  PROVE parent'[c] = x <=> parent[c] = x /\ x # s
    <3>1. parent[c] = s <=> c \in Earlier(s)
      BY SubsAreSurfaces DEF Sound, Trees, ParentsList, Earlier
    <3> QED BY <1>1, <3>1, SubsAreSurfaces
  <2> QED BY <2>1, <2>2
<1>5. TreeTypeOK'
  <2>1. list' \in [Surfaces -> Seq(Subs)] /\ parent' \in [Subs -> Surfaces \cup {None}]
    BY <1>1 DEF Sound, Trees, TreeTypeOK
  <2> QED BY <1>1, <2>1, WithoutFacts DEF Sound, Trees, TreeTypeOK
<1>6. ParentsList'
  <2>1. ASSUME NEW x \in Surfaces
        PROVE  ToSet(list'[x]) = {c \in objects' : parent'[c] = x} /\ IsInjective(list'[x])
    <3>1. ToSet(list[x]) = {c \in objects : parent[c] = x} /\ IsInjective(list[x])
      BY DEF Sound, Trees, ParentsList
    <3>2. objects \subseteq Subs
      BY DEF Sound, Trees, TreeTypeOK
    <3> QED BY <1>1, <1>3, <1>4, <3>1, <3>2
  <2>2. \A c \in Subs : parent'[c] # None => c \in objects'
    BY <1>1 DEF Sound, Trees, ParentsList
  <2>3. \A x \in dead' : list'[x] = <<>>
    BY <1>1, <1>4 DEF Sound, Trees, TreeTypeOK, ParentsList
  <2> QED BY <2>1, <2>2, <2>3 DEF ParentsList
<1>7. ASSUME NEW x \in Surfaces
      PROVE  children'[x] = <<>> <=> ToSet(children'[x]) = {}
  BY <1>1, WithoutFacts, SeqToSet DEF Sound
<1>8. ToSet(children'[s]) = {}
  BY <1>1, <1>3, WithoutFacts DEF Sound
<1>9. ChildrenAreSubsurfaces'
  <2>1. ASSUME NEW x \in Surfaces, NEW c \in ToSet(children'[x])
        PROVE  parent'[c] = x /\ c \in viewed' \ dead'
    <3>1. c # s /\ x # s /\ c \in ToSet(children[x])
      <4>1. ToSet(children'[x]) = ToSet(children[x]) \ {s}
        BY <1>1, WithoutFacts DEF Sound
      <4> QED BY <1>8, <2>1, <4>1
    <3> QED BY <1>1, <1>4, <3>1, ChildFacts DEF Sound
  <2>2. ASSUME NEW x \in Surfaces, ~ HasView(x)' \/ x \in dead'  PROVE children'[x] = <<>>
    <3>1. x = s \/ ~ HasView(x) \/ x \in dead
      BY <1>1, <2>2 DEF HasView
    <3>2. ToSet(children[x]) = {}
      BY <1>1, <1>3, <3>1 DEF Sound, Trees, ChildrenAreSubsurfaces
    <3> QED BY <1>1, <1>7, <3>2, WithoutFacts DEF Sound
  <2> QED BY <1>1, <2>1, <2>2, WithoutFacts DEF Sound, ChildrenAreSubsurfaces
<1>10. RolesBeforeSurfaces'
  BY <1>1 DEF Sound, Trees, RolesBeforeSurfaces
<1>11. ASSUME NEW x \in Surfaces, InWindow(x)'  PROVE ShownInOrder(x)'
  <2>1. PICK r \in Roles : view[r] /\ x \in Tree(r)'
    BY <1>1, <1>11 DEF InWindow, RootsOf
  <2>2. InWindow(x)
    BY <1>1, <2>1, WithoutFacts, InWindowIff, SubsAreSurfaces DEF Sound
  <2>3. x # s
    <3>1. SUFFICES ASSUME x = s  PROVE FALSE
      OBVIOUS
    <3>2. CASE s \in Subs
      BY <1>1, <2>1, <3>1, <3>2, WithoutFacts, SubsAreSurfaces DEF Sound
    <3>3. CASE s \in Roles
      <4>1. s \in Tree(r)
        BY <1>1, <2>1, <3>1, WithoutFacts, SubsAreSurfaces DEF Sound
      <4> QED BY <1>2, <2>1, <3>3, <4>1, RoleIsRoot, SubsAreSurfaces DEF Sound
    <3> QED BY <3>2, <3>3, SubsAreSurfaces
  <2>4. x \notin Tree(s)
    BY <1>1, <2>3, LeafIsTree DEF Sound
  <2>5. ShownInOrder(x)
    BY <1>1, <2>2, <2>4 DEF Sound, OthersAreShown
  <2>6. ToSet(children'[x]) = ToSet(children[x]) \ {s}
        /\ \A a, b : Precedes(children'[x], a, b) => Precedes(children[x], a, b)
    BY <1>1, WithoutFacts DEF Sound
  <2>7. list'[x] = list[x]
    BY <1>4, <2>3
  <2> QED BY <1>1, <2>5, <2>6, <2>7 DEF ShownInOrder
<1> QED BY <1>1, <1>5, <1>6, <1>9, <1>10, <1>11 DEF Sound, OthersAreShown

\* The views after it.
Attached(s, tree) ==
  /\ children' \in [Surfaces -> Seq(Subs)]
  /\ viewed' = viewed \cup ({s} \cap Subs) \cup Earlier(s)
  /\ missed' \subseteq Subs /\ lost' = {} /\ undefined' \in BOOLEAN
  /\ s \notin missed' /\ s \notin Earlier(s)
  /\ Earlier(s) \subseteq objects /\ \A c \in Earlier(s) : parent[c] = s
  /\ undefined' => dead \cap objects # {}
  /\ ~ undefined' => Earlier(s) \cap (missed' \cup dead) = {}
  /\ children'[s] = list[s]
  /\ \A x \in Earlier(s) : children'[x] = <<>> /\ ToSet(list[x]) \subseteq missed'
  /\ \A x \in Surfaces : x # s /\ x \notin Earlier(s) =>
       /\ children'[x] = tree[x]
       /\ \A d \in ToSet(list[x]) : d \in missed' <=> d \in missed

\* A surface that is in no window, and in no list, gets its view, and its subsurfaces get theirs.
LEMMA AttachFacts ==
  ASSUME Sound, NEW s \in Surfaces \ objects, ~ InWindow(s), NEW tree,
         tree \in [Surfaces -> Seq(Subs)],
         AttachViewsToEarlierSubsurfaces(s, tree)
  PROVE  Attached(s, tree)
<1>1. /\ children' = [x \in Surfaces |-> IF x = s THEN list[s]
                                         ELSE IF x \in Earlier(s) THEN <<>> ELSE tree[x]]
      /\ viewed' = viewed \cup ({s} \cap Subs) \cup Earlier(s)
      /\ missed' = (missed \ ({s} \cup Earlier(s))) \cup UNION {ToSet(list[c]) : c \in Earlier(s)}
      /\ lost' = lost \cup {c \in {s} \cup Earlier(s) : InWindow(c)}
      /\ undefined' = \E c \in Earlier(s) : c \in dead \/ c \notin objects
  BY DEF AttachViewsToEarlierSubsurfaces
<1>2. \A x \in Surfaces : list[x] \in Seq(Subs) /\ ToSet(list[x]) = {c \in objects : parent[c] = x}
  BY DEF Sound, Trees, TreeTypeOK, ParentsList
<1>3. objects \subseteq Subs /\ Subs \subseteq Surfaces
  BY SubsAreSurfaces DEF Sound, Trees, TreeTypeOK
<1>4. /\ Earlier(s) \subseteq objects /\ s \notin Earlier(s)
      /\ \A c \in Earlier(s) : parent[c] = s /\ c \in Subs /\ c \in Surfaces
  BY <1>2, <1>3 DEF Earlier
<1>5. \A c \in Earlier(s) : ~ InWindow(c)
  BY <1>4, ParentIsShown DEF Sound
<1>6. \A d : d \in missed' <=> \/ d \in missed /\ d # s /\ d \notin Earlier(s)
                               \/ \E c \in Earlier(s) : d \in ToSet(list[c])
  BY <1>1
<1>7. missed' \subseteq Subs
  BY <1>2, <1>3, <1>4, <1>6 DEF Sound, Trees, TreeTypeOK
<1>8. s \notin missed'
  BY <1>2, <1>4, <1>6
<1>9. \A c \in Earlier(s) : c \notin missed'
  BY <1>2, <1>4, <1>6
<1>10. ASSUME NEW x \in Surfaces, x # s, x \notin Earlier(s)
       PROVE  children'[x] = tree[x] /\ \A d \in ToSet(list[x]) : d \in missed' <=> d \in missed
  <2>1. \A d \in ToSet(list[x]) : parent[d] = x /\ d # s /\ d \notin Earlier(s)
    BY <1>2, <1>4, <1>10
  <2>2. ASSUME NEW d \in ToSet(list[x]), NEW c \in Earlier(s), d \in ToSet(list[c])
        PROVE  FALSE
    <3>1. parent[d] = c
      BY <1>2, <1>4, <2>2
    <3> QED BY <1>10, <2>1, <3>1
  <2> QED BY <1>1, <1>6, <1>10, <2>1, <2>2
<1>11. children' \in [Surfaces -> Seq(Subs)]
  <2>1. <<>> \in Seq(Subs)
    OBVIOUS
  <2> QED BY <1>1, <1>2, <2>1
<1>12. children'[s] = list[s] /\ \A x \in Earlier(s) : children'[x] = <<>>
  BY <1>1, <1>4
<1>13. lost' = {}
  BY <1>1, <1>5 DEF Sound
<1>14. undefined' => dead \cap objects # {}
  BY <1>1, <1>4
<1>15. ~ undefined' => Earlier(s) \cap (missed' \cup dead) = {}
  BY <1>1, <1>9
<1>16. \A x \in Earlier(s) : ToSet(list[x]) \subseteq missed'
  BY <1>6
<1>17. undefined' \in BOOLEAN
  BY <1>1
<1> QED BY <1>1, <1>4, <1>7, <1>8, <1>10, <1>11, <1>12, <1>13, <1>14, <1>15, <1>16, <1>17
   DEF Attached

\* A popup shows the subsurfaces its surface had, and nothing of theirs.
LEMMA CreatePopupTrees ==
  ASSUME NEW r \in Roles, Sound, CreatePopup(r)
  PROVE  /\ TreeTypeOK' /\ DanglesOnlyAfterSurface'
         /\ ~ undefined' => ParentsList' /\ ChildrenAreSubsurfaces' /\ RolesBeforeSurfaces'
                            /\ OthersAreShown' /\ lost' = {}
<1>1. /\ detaching = Nothing /\ r \notin dead /\ role[r] = "none"
      /\ role' = [role EXCEPT ![r] = "alive"] /\ view' = [view EXCEPT ![r] = TRUE]
      /\ AttachViewsToEarlierSubsurfaces(r, children)
      /\ UNCHANGED <<dead, objects, parent, list, detaching>>
  BY DEF CreatePopup, Create, Idle
<1>2. /\ r \in Surfaces \ objects /\ r \notin Subs /\ ~ view[r]
      /\ children \in [Surfaces -> Seq(Subs)]
  BY <1>1, SubsAreSurfaces DEF Sound, Trees, IInv, RolesKeepWindows, TreeTypeOK
<1>3. ~ InWindow(r)
  BY <1>2, InWindowIff, RoleIsRoot, SubsAreSurfaces DEF Sound
<1>4. Attached(r, children)
  BY <1>1, <1>2, <1>3, AttachFacts
<1>5. objects \subseteq Subs /\ Subs \subseteq Surfaces
  BY SubsAreSurfaces DEF Sound, Trees, TreeTypeOK
<1>6. TreeTypeOK' /\ DanglesOnlyAfterSurface'
  BY <1>1, <1>4, <1>5 DEF Attached, Sound, Trees, TreeTypeOK, DanglesOnlyAfterSurface
<1> SUFFICES ASSUME ~ undefined'
             PROVE  ParentsList' /\ ChildrenAreSubsurfaces' /\ RolesBeforeSurfaces' /\ OthersAreShown'
  BY <1>4, <1>6 DEF Attached
<1>7. ParentsList' /\ RolesBeforeSurfaces'
  BY <1>1 DEF Sound, Trees, IInv, TypeOK, ParentsList, RolesBeforeSurfaces
<1>8. ToSet(<<>>) = {} /\ IsInjective(<<>>)
  BY DEF ToSet, IsInjective
<1>9. ToSet(list[r]) = Earlier(r) /\ IsInjective(list[r])
  BY <1>2 DEF Earlier, Sound, Trees, ParentsList
<1>10. ASSUME NEW x \in Surfaces
       PROVE  /\ \A c \in ToSet(children'[x]) : parent'[c] = x /\ c \in viewed' \ dead'
              /\ IsInjective(children'[x])
              /\ ~ HasView(x)' \/ x \in dead' => children'[x] = <<>>
  <2>1. HasView(x)' <=> HasView(x) \/ x = r \/ x \in Earlier(r)
    BY <1>1, <1>2, <1>4, <1>5, SubsAreSurfaces DEF Attached, HasView, Sound, Trees, IInv, TypeOK
  <2>2. CASE x = r
    BY <1>1, <1>4, <1>9, <2>1, <2>2 DEF Attached
  <2>3. CASE x \in Earlier(r)
    BY <1>4, <1>8, <2>3 DEF Attached
  <2>4. CASE x # r /\ x \notin Earlier(r)
    BY <1>1, <1>4, <2>1, <2>4 DEF Attached, Sound, Trees, ChildrenAreSubsurfaces
  <2> QED BY <2>2, <2>3, <2>4
<1>11. ChildrenAreSubsurfaces'
  BY <1>10 DEF ChildrenAreSubsurfaces
<1>12. ASSUME NEW q \in Roles, view'[q], NEW x \in Tree(q)'
       PROVE  x = r \/ x \in Earlier(r) \/ InWindow(x)
  <2> DEFINE X == {y \in Surfaces : y = r \/ y \in Earlier(r) \/ y \in Tree(q)}
  <2>1. X \in SUBSET Surfaces /\ q \in X
    BY SubsAreSurfaces, TreeFacts
  <2>2. ASSUME NEW y \in X, NEW c \in ToSet(children'[y])  PROVE c \in X
    <3>1. CASE y = r
      BY <1>4, <1>5, <1>9, <2>2, <3>1 DEF Attached
    <3>2. CASE y \in Earlier(r)
      BY <1>4, <1>8, <2>2, <3>2 DEF Attached
    <3>3. CASE y # r /\ y \notin Earlier(r)
      <4>1. y \in Tree(q) /\ y \in Surfaces /\ c \in ToSet(children[y])
        BY <1>4, <2>2, <3>3 DEF Attached
      <4>2. c \in Tree(q) /\ c \in Surfaces
        BY <4>1, TreeFacts, ChildFacts, SubsAreSurfaces DEF Sound
      <4> QED BY <4>2
    <3> QED BY <3>1, <3>2, <3>3
  <2> HIDE DEF X
  <2>3. Reachable(children', q) \subseteq X
    BY <2>1, <2>2, ReachLeast
  <2>4. x \in X
    BY <2>3 DEF Tree
  <2>5. CASE q = r
    <3>1. InWindow(x) \/ x = r \/ x \in Earlier(r) \/ x \in Tree(r)
      BY <2>4, <2>5 DEF X
    <3>2. ToSet(children[r]) = {}
      BY <1>2, <1>8, SubsAreSurfaces DEF Sound, Trees, ChildrenAreSubsurfaces, HasView
    <3>3. Tree(r) = {r}
      BY <1>2, <3>2, SeqToSet, LeafIsTree DEF Sound
    <3> QED BY <3>1, <3>3
  <2>6. CASE q # r
    <3>1. view[q]
      BY <1>1, <1>12, <2>6 DEF Sound, Trees, IInv, TypeOK
    <3> QED BY <2>4, <3>1, InWindowIff DEF X
  <2> QED BY <2>5, <2>6
<1>13. ASSUME NEW x \in Surfaces, InWindow(x)'  PROVE ShownInOrder(x)'
  <2>1. PICK q \in Roles : view'[q] /\ x \in Tree(q)'
    BY <1>13 DEF InWindow, RootsOf
  <2>2. x = r \/ x \in Earlier(r) \/ InWindow(x)
    BY <2>1, <1>12
  <2>3. CASE x = r
    BY <1>1, <1>4, <1>9, <2>3 DEF Attached, ShownInOrder
  <2>4. CASE x \in Earlier(r)
    <3>1. \A a, b : ~ Precedes(<<>>, a, b)
      BY DEF Precedes
    <3> QED BY <1>1, <1>4, <1>8, <2>4, <3>1 DEF Attached, ShownInOrder
  <2>5. CASE InWindow(x) /\ x # r /\ x \notin Earlier(r)
    <3>1. ShownInOrder(x)
      BY <1>1, <2>5 DEF Sound, OthersAreShown
    <3> QED BY <1>1, <1>4, <2>5, <3>1 DEF Attached, ShownInOrder
  <2> QED BY <2>2, <2>3, <2>4, <2>5
<1> QED BY <1>7, <1>11, <1>13 DEF OthersAreShown

\* A subsurface of a surface without a view only joins its parent's list.
LEMMA CreateUnseenTrees ==
  ASSUME NEW s \in Subs, NEW p \in Surfaces, Sound, CreateSubsurface(s, p), ~ HasView(p)
  PROVE  TreeTypeOK' /\ ChildrenAreSubsurfaces' /\ OthersAreShown' /\ lost' = {}
         /\ undefined' = undefined
<1>1. /\ detaching = Nothing /\ s \notin objects /\ s \notin dead
      /\ objects' = objects \cup {s} /\ parent' = [parent EXCEPT ![s] = p]
      /\ list' = [list EXCEPT ![p] = Append(@, s)] /\ missed' = missed \ {s}
      /\ UNCHANGED <<role, view, dead, viewed, children, detaching, lost, undefined>>
  BY DEF CreateSubsurface, Idle, vars
<1>2. TreeTypeOK'
  <2>1. Append(list[p], s) \in Seq(Subs)
    BY DEF Sound, Trees, TreeTypeOK
  <2> QED BY <1>1, <2>1, SubsAreSurfaces DEF Sound, Trees, TreeTypeOK
<1>3. ChildrenAreSubsurfaces'
  <2>1. ASSUME NEW x \in Surfaces, NEW c \in ToSet(children[x])  PROVE parent'[c] = parent[c]
    BY <1>1, <2>1, ChildFacts DEF Sound, Trees, TreeTypeOK
  <2> QED BY <1>1, <2>1 DEF Sound, Trees, ChildrenAreSubsurfaces, HasView
<1>4. ASSUME NEW x \in Surfaces, InWindow(x)'  PROVE ShownInOrder(x)'
  <2>1. InWindow(x)
    BY <1>1, <1>4 DEF InWindow, RootsOf, Tree
  <2>2. ShownInOrder(x) /\ x # p
    BY <1>1, <2>1, ShownIsAlive DEF Sound, OthersAreShown
  <2>3. list'[x] = list[x] /\ s \notin ToSet(list[x])
    BY <1>1, <2>2 DEF Sound, Trees, TreeTypeOK, ParentsList
  <2> QED BY <1>1, <2>2, <2>3 DEF ShownInOrder
<1> QED BY <1>1, <1>2, <1>3, <1>4 DEF Sound, OthersAreShown

\* A subsurface of a surface with a view is seen there, last, with the subsurfaces it had.
LEMMA CreateSeenTrees ==
  ASSUME NEW s \in Subs, NEW p \in Surfaces, Sound, CreateSubsurface(s, p), HasView(p)
  PROVE  /\ TreeTypeOK' /\ DanglesOnlyAfterSurface'
         /\ ~ undefined' => ChildrenAreSubsurfaces' /\ OthersAreShown' /\ lost' = {}
<1> DEFINE tree == [children EXCEPT ![p] = Append(@, s)]
<1>1. /\ detaching = Nothing /\ s \notin objects /\ s \notin dead
      /\ p \notin dead /\ p \notin Below(s)
      /\ objects' = objects \cup {s} /\ parent' = [parent EXCEPT ![s] = p]
      /\ list' = [list EXCEPT ![p] = Append(@, s)]
      /\ AttachViewsToEarlierSubsurfaces(s, tree)
      /\ UNCHANGED <<role, view, dead, detaching>>
  BY DEF CreateSubsurface, Idle, vars
<1>2. s \in Surfaces \ objects /\ objects \subseteq Subs /\ Subs \subseteq Surfaces
  BY <1>1, SubsAreSurfaces DEF Sound, Trees, TreeTypeOK
<1>3. ~ InWindow(s)
  BY <1>1, <1>2, ParentIsShown, ChildFacts DEF Sound
<1>4. tree \in [Surfaces -> Seq(Subs)]
      /\ \A x \in Surfaces : tree[x] = IF x = p THEN Append(children[p], s) ELSE children[x]
  <2>1. Append(children[p], s) \in Seq(Subs)
    BY DEF Sound, Trees, TreeTypeOK
  <2> QED BY <2>1 DEF Sound, Trees, TreeTypeOK
<1> HIDE DEF tree
<1>5. Attached(s, tree)
  BY <1>1, <1>2, <1>3, <1>4, AttachFacts
<1>6. p # s /\ p \notin Earlier(s)
  <2>1. s \in Below(s) /\ \A c \in Earlier(s) : c \in Below(s)
    BY <1>2, ReachSelf, ReachStep, SeqToSet
       DEF Below, Earlier, Sound, Trees, TreeTypeOK
  <2> QED BY <1>1, <2>1
<1>7. list' \in [Surfaces -> Seq(Subs)]
      /\ \A x \in Surfaces : list'[x] = IF x = p THEN Append(list[p], s) ELSE list[x]
  <2>1. Append(list[p], s) \in Seq(Subs)
    BY DEF Sound, Trees, TreeTypeOK
  <2> QED BY <1>1, <2>1 DEF Sound, Trees, TreeTypeOK
<1>8. TreeTypeOK'
  BY <1>1, <1>2, <1>5, <1>7 DEF Attached, Sound, Trees, TreeTypeOK
<1>9. DanglesOnlyAfterSurface'
  BY <1>1, <1>5 DEF Attached, DanglesOnlyAfterSurface
<1> SUFFICES ASSUME ~ undefined'  PROVE ChildrenAreSubsurfaces' /\ OthersAreShown'
  BY <1>5, <1>8, <1>9 DEF Attached
<1>10. ToSet(<<>>) = {} /\ IsInjective(<<>>) /\ \A a, b : ~ Precedes(<<>>, a, b)
  BY DEF ToSet, IsInjective, Precedes
<1>11. ToSet(list[s]) = Earlier(s) /\ IsInjective(list[s])
  BY <1>2 DEF Earlier, Sound, Trees, ParentsList
<1>12. children[p] \in Seq(Subs) /\ s \notin ToSet(children[p]) /\ IsInjective(children[p])
       /\ list[p] \in Seq(Subs) /\ s \notin ToSet(list[p]) /\ IsInjective(list[p])
  BY <1>1, ChildFacts DEF Sound, Trees, TreeTypeOK, ParentsList, ChildrenAreSubsurfaces
<1>13. /\ children'[p] = Append(children[p], s)
       /\ ToSet(children'[p]) = ToSet(children[p]) \cup {s} /\ IsInjective(children'[p])
       /\ \A a, b : Precedes(children'[p], a, b)
                      <=> Precedes(children[p], a, b) \/ (b = s /\ a \in ToSet(children[p]))
  <2>1. children'[p] = Append(children[p], s)
    BY <1>4, <1>5, <1>6 DEF Attached
  <2> QED BY <1>12, <2>1, AppendFacts
<1>14. /\ ToSet(list'[p]) = ToSet(list[p]) \cup {s}
       /\ \A a, b : Precedes(list'[p], a, b)
                      <=> Precedes(list[p], a, b) \/ (b = s /\ a \in ToSet(list[p]))
  <2>1. list'[p] = Append(list[p], s)
    BY <1>7
  <2> QED BY <1>12, <2>1, AppendFacts
<1>15. ASSUME NEW x \in Surfaces
       PROVE  /\ \A c \in ToSet(children'[x]) : parent'[c] = x /\ c \in viewed' \ dead'
              /\ IsInjective(children'[x])
              /\ ~ HasView(x)' \/ x \in dead' => children'[x] = <<>>
  <2>1. HasView(x)' <=> HasView(x) \/ x = s \/ x \in Earlier(s)
    BY <1>1, <1>2, <1>5, SubsAreSurfaces DEF Attached, HasView
  <2>2. \A c \in objects : parent'[c] = parent[c]
    BY <1>1, <1>2 DEF Sound, Trees, TreeTypeOK
  <2>3. parent'[s] = p /\ s \in viewed' \ dead'
    BY <1>1, <1>5 DEF Attached, Sound, Trees, TreeTypeOK
  <2>4. \A c \in ToSet(children[x]) : c \in objects /\ parent[c] = x /\ c \in viewed' \ dead'
    BY <1>1, <1>5, ChildFacts DEF Attached, Sound
  <2>5. CASE x = s
    BY <1>1, <1>5, <1>11, <2>1, <2>2, <2>5 DEF Attached
  <2>6. CASE x \in Earlier(s)
    BY <1>5, <1>10, <2>6 DEF Attached
  <2>7. CASE x = p
    BY <1>1, <1>6, <1>13, <2>1, <2>2, <2>3, <2>4, <2>7
  <2>8. CASE x # s /\ x \notin Earlier(s) /\ x # p
    <3>1. children'[x] = children[x]
      BY <1>4, <1>5, <2>8 DEF Attached
    <3> QED BY <1>1, <2>1, <2>2, <2>4, <3>1 DEF Sound, Trees, ChildrenAreSubsurfaces
  <2> QED BY <2>5, <2>6, <2>7, <2>8
<1>16. ChildrenAreSubsurfaces'
  BY <1>15 DEF ChildrenAreSubsurfaces
<1>17. ASSUME NEW r \in Roles, view[r], NEW x \in Tree(r)'
       PROVE  x = s \/ x \in Earlier(s) \/ InWindow(x)
  <2> DEFINE X == {y \in Surfaces : y = s \/ y \in Earlier(s) \/ y \in Tree(r)}
  <2>1. X \in SUBSET Surfaces /\ r \in X
    BY SubsAreSurfaces, TreeFacts
  <2>2. ASSUME NEW y \in X, NEW c \in ToSet(children'[y])  PROVE c \in X
    <3>1. CASE y = s
      BY <1>2, <1>5, <1>11, <2>2, <3>1 DEF Attached
    <3>2. CASE y \in Earlier(s)
      BY <1>5, <1>10, <2>2, <3>2 DEF Attached
    <3>3. CASE y # s /\ y \notin Earlier(s)
      <4>1. y \in Tree(r) /\ y \in Surfaces
        BY <2>2, <3>3
      <4>2. c = s \/ c \in ToSet(children[y])
        BY <1>4, <1>5, <1>13, <2>2, <3>3, <4>1 DEF Attached
      <4>3. c \in ToSet(children[y]) => c \in Tree(r) /\ c \in Surfaces
        BY <4>1, TreeFacts, ChildFacts, SubsAreSurfaces DEF Sound
      <4> QED BY <1>2, <4>2, <4>3
    <3> QED BY <3>1, <3>2, <3>3
  <2> HIDE DEF X
  <2>3. x \in X
    BY <2>1, <2>2, ReachLeast DEF Tree
  <2> QED BY <1>17, <2>3, InWindowIff DEF X
<1>18. ASSUME NEW x \in Surfaces, InWindow(x)'  PROVE ShownInOrder(x)'
  <2>1. PICK r \in Roles : view[r] /\ x \in Tree(r)'
    BY <1>1, <1>18 DEF InWindow, RootsOf
  <2>2. x = s \/ x \in Earlier(s) \/ InWindow(x)
    BY <1>17, <2>1
  <2>3. CASE x = s
    BY <1>1, <1>5, <1>6, <1>7, <1>11, <2>3 DEF Attached, ShownInOrder
  <2>4. CASE x \in Earlier(s)
    BY <1>1, <1>5, <1>6, <1>7, <1>10, <2>4 DEF Attached, ShownInOrder
  <2>5. CASE InWindow(x) /\ x = p
    <3>1. ShownInOrder(p)
      BY <1>1, <2>5 DEF Sound, OthersAreShown
    <3>2. \A d \in ToSet(list[p]) : d \in missed' <=> d \in missed
      BY <1>5, <1>6 DEF Attached
    <3>3. ToSet(children'[p]) = ToSet(list'[p]) \ (missed' \cup dead')
      BY <1>1, <1>5, <1>12, <1>13, <1>14, <3>1, <3>2 DEF Attached, ShownInOrder
    <3>4. \A a, b \in Subs : Precedes(children'[p], a, b) => Precedes(list'[p], a, b)
      BY <1>13, <1>14, <3>1 DEF ShownInOrder
    <3> QED BY <2>5, <3>3, <3>4 DEF ShownInOrder
  <2>6. CASE InWindow(x) /\ x # s /\ x \notin Earlier(s) /\ x # p
    <3>1. ShownInOrder(x)
      BY <1>1, <2>6 DEF Sound, OthersAreShown
    <3>2. children'[x] = children[x] /\ list'[x] = list[x]
          /\ \A d \in ToSet(list[x]) : d \in missed' <=> d \in missed
      BY <1>4, <1>5, <1>7, <2>6 DEF Attached
    <3> QED BY <1>1, <3>1, <3>2 DEF ShownInOrder
  <2> QED BY <2>2, <2>3, <2>4, <2>5, <2>6
<1> QED BY <1>16, <1>18 DEF OthersAreShown

LEMMA CreateSubsurfaceTrees ==
  ASSUME NEW s \in Subs, NEW p \in Surfaces, Sound, ~ undefined, CreateSubsurface(s, p)
  PROVE  /\ TreeTypeOK' /\ DanglesOnlyAfterSurface'
         /\ ~ undefined' => ParentsList' /\ ChildrenAreSubsurfaces' /\ RolesBeforeSurfaces'
                            /\ OthersAreShown' /\ lost' = {}
<1>1. /\ detaching = Nothing /\ s \notin objects /\ p \notin dead
      /\ objects' = objects \cup {s} /\ parent' = [parent EXCEPT ![s] = p]
      /\ list' = [list EXCEPT ![p] = Append(@, s)]
      /\ UNCHANGED <<role, view, dead, detaching>>
  BY DEF CreateSubsurface, Idle, vars
<1>2. RolesBeforeSurfaces'
  BY <1>1 DEF Sound, Trees, RolesBeforeSurfaces
<1>3. ParentsList'
  <2>1. ASSUME NEW x \in Surfaces
        PROVE  ToSet(list'[x]) = {c \in objects' : parent'[c] = x} /\ IsInjective(list'[x])
    <3>1. /\ list[x] \in Seq(Subs) /\ IsInjective(list[x])
          /\ ToSet(list[x]) = {c \in objects : parent[c] = x}
      BY DEF Sound, Trees, TreeTypeOK, ParentsList
    <3>2. \A c \in objects' : parent'[c] = IF c = s THEN p ELSE parent[c]
      BY <1>1 DEF Sound, Trees, TreeTypeOK
    <3>3. CASE x = p
      <4>1. list'[x] = Append(list[x], s) /\ s \notin ToSet(list[x])
        BY <1>1, <3>1, <3>3 DEF Sound, Trees, TreeTypeOK
      <4>2. ToSet(list'[x]) = ToSet(list[x]) \cup {s} /\ IsInjective(list'[x])
        BY <3>1, <4>1, AppendFacts
      <4> QED BY <1>1, <3>1, <3>2, <3>3, <4>2
    <3>4. CASE x # p
      <4>1. list'[x] = list[x]
        BY <1>1, <3>4 DEF Sound, Trees, TreeTypeOK
      <4> QED BY <1>1, <3>1, <3>2, <3>4, <4>1
    <3> QED BY <3>3, <3>4
  <2>2. \A c \in Subs : parent'[c] # None => c \in objects'
    BY <1>1 DEF Sound, Trees, TreeTypeOK, ParentsList
  <2>3. \A x \in dead' : list'[x] = <<>>
    BY <1>1 DEF Sound, Trees, TreeTypeOK, ParentsList
  <2> QED BY <2>1, <2>2, <2>3 DEF ParentsList
<1>4. CASE HasView(p)
  BY <1>2, <1>3, <1>4, CreateSeenTrees
<1>5. CASE ~ HasView(p)
  BY <1>2, <1>3, <1>5, CreateUnseenTrees DEF DanglesOnlyAfterSurface
<1> QED BY <1>4, <1>5

-----------------------------------------------------------------------------
LEMMA InitTreeInv == TreeInit => TreeInv
<1> SUFFICES ASSUME TreeInit  PROVE TreeInv
  OBVIOUS
<1>1. /\ IInv /\ dead = {} /\ objects = {} /\ parent = [s \in Subs |-> None]
      /\ list = [s \in Surfaces |-> <<>>] /\ children = [s \in Surfaces |-> <<>>]
      /\ viewed = {} /\ detaching = Nothing /\ missed = {} /\ lost = {} /\ undefined = FALSE
      /\ \A r \in Roles : role[r] = "none" /\ ~ view[r]
  BY InitIInv DEF TreeInit, Init
<1>2. ToSet(<<>>) = {} /\ IsInjective(<<>>)
  BY DEF ToSet, IsInjective
<1>3. TreeTypeOK
  <2>1. <<>> \in Seq(Subs)
    OBVIOUS
  <2> QED BY <1>1, <2>1 DEF TreeTypeOK
<1>4. ParentsList /\ ChildrenAreSubsurfaces /\ RolesBeforeSurfaces
  BY <1>1, <1>2 DEF ParentsList, ChildrenAreSubsurfaces, RolesBeforeSurfaces
<1>5. OthersAreShown
  BY <1>1, InWindowIff DEF OthersAreShown
<1> QED BY <1>1, <1>3, <1>4, <1>5 DEF TreeInv, Trees, DanglesOnlyAfterSurface

LEMMA TreeStepIsStep == TreeInv /\ [TreeNext]_allVars => [Next]_vars
<1> SUFFICES ASSUME TreeInv, [TreeNext]_allVars  PROVE [Next]_vars
  OBVIOUS
<1>1. CASE UNCHANGED allVars
  BY <1>1 DEF allVars
<1>2. CASE Requests
  <2>1. ASSUME NEW r \in Roles, CreateToplevel(r) \/ CreatePopup(r)  PROVE Next
    BY <2>1 DEF CreateToplevel, CreatePopup, Next
  <2>2. ASSUME NEW r \in Roles, DestroyRoleAtOnce(r) \/ BeginDestroyRole(r)  PROVE Next
    BY <2>2 DEF DestroyRoleAtOnce, BeginDestroyRole, Next
  <2> QED BY <1>2, <2>1, <2>2
          DEF Requests, CreateSubsurface, BeginDestroySubsurface, BeginDestroySurface
<1>3. ASSUME NEW s \in Surfaces, DetachStep(s)  PROVE [Next]_vars
  <2>1. CASE FinishRole(s)
    <3>1. s \in Roles
      BY <2>1 DEF FinishRole, Detaching, Nothing, TreeInv, Trees, RolesBeforeSurfaces
    <3> QED BY <2>1, <3>1 DEF FinishRole, Next
  <2> QED BY <1>3, <2>1 DEF DetachStep, RemoveDescendant, FinishSubsurface, FinishSurface
<1>4. ASSUME NEW r \in Roles, Window(r)  PROVE Next
  BY <1>4 DEF Window, Next
<1> QED BY <1>1, <1>2, <1>3, <1>4 DEF TreeNext

LEMMA IdleIsSound == TreeInv /\ Running => Sound /\ ~ undefined
  BY DEF TreeInv, Sound, Running

LEMMA RequestsTrees ==
  ASSUME TreeInv, IInv', Requests  PROVE TreeInv'
<1>1. Running /\ Sound /\ ~ undefined
  BY IdleIsSound DEF Requests, CreateSubsurface, CreateToplevel, CreatePopup, DestroyRoleAtOnce,
     BeginDestroyRole, BeginDestroySubsurface, BeginDestroySurface, Idle
<1> DEFINE Views == ParentsList /\ ChildrenAreSubsurfaces /\ RolesBeforeSurfaces /\ OthersAreShown
                    /\ lost = {}
<1>2. ASSUME TreeTypeOK', DanglesOnlyAfterSurface', Running' => Views'  PROVE TreeInv'
  BY <1>2 DEF TreeInv, Trees
<1>3. Running' => ~ undefined' /\ ~ crashed'
  BY DEF Running
<1>4. ~ undefined' => DanglesOnlyAfterSurface'
  BY DEF DanglesOnlyAfterSurface
<1>5. ASSUME NEW s \in Subs, NEW p \in Surfaces, CreateSubsurface(s, p)  PROVE TreeInv'
  BY <1>1, <1>2, <1>3, <1>5, CreateSubsurfaceTrees
<1>6. ASSUME NEW r \in Roles, CreateToplevel(r)  PROVE TreeInv'
  BY <1>1, <1>2, <1>4, <1>6, CreateToplevelTrees
<1>7. ASSUME NEW r \in Roles, CreatePopup(r)  PROVE TreeInv'
  BY <1>1, <1>2, <1>3, <1>7, CreatePopupTrees
<1>8. ASSUME NEW r \in Roles, DestroyRoleAtOnce(r)  PROVE TreeInv'
  <2>1. CASE crashed'
    <3>1. UNCHANGED treeVars
      BY <1>8, <2>1 DEF DestroyRoleAtOnce, treeVars
    <3>2. TreeTypeOK' /\ DanglesOnlyAfterSurface'
      BY <3>1 DEF treeVars, TreeInv, TreeTypeOK, DanglesOnlyAfterSurface
    <3> QED BY <1>2, <1>3, <2>1, <3>2
  <2>2. CASE ~ crashed'
    BY <1>1, <1>2, <1>4, <1>8, <2>2, DestroyRoleAtOnceTrees
  <2> QED BY <2>1, <2>2
<1>9. ASSUME NEW r \in Roles, BeginDestroyRole(r)  PROVE TreeInv'
  BY <1>1, <1>2, <1>4, <1>9, BeginDestroyRoleTrees
<1>10. ASSUME NEW s \in Subs, BeginDestroySubsurface(s)  PROVE TreeInv'
  BY <1>1, <1>2, <1>3, <1>10, BeginDestroySubsurfaceTrees
<1>11. ASSUME NEW s \in Surfaces, BeginDestroySurface(s)  PROVE TreeInv'
  BY <1>1, <1>2, <1>4, <1>11, BeginDestroySurfaceTrees
<1> QED BY <1>5, <1>6, <1>7, <1>8, <1>9, <1>10, <1>11 DEF Requests

LEMMA DetachStepTrees ==
  ASSUME TreeInv, IInv', NEW s \in Surfaces, DetachStep(s)  PROVE TreeInv'
<1>1. Running /\ Sound /\ ~ undefined
  BY IdleIsSound DEF DetachStep, RemoveDescendant, FinishRole, FinishSubsurface, FinishSurface, Detaching
<1> DEFINE Views == ParentsList /\ ChildrenAreSubsurfaces /\ RolesBeforeSurfaces /\ OthersAreShown
                    /\ lost = {}
<1>2. ASSUME TreeTypeOK', DanglesOnlyAfterSurface', Running' => Views'  PROVE TreeInv'
  BY <1>2 DEF TreeInv, Trees
<1>3. ~ undefined' => DanglesOnlyAfterSurface'
  BY DEF DanglesOnlyAfterSurface
<1>4. Running' => ~ crashed'
  BY DEF Running
<1>5. CASE RemoveDescendant(s)
  BY <1>1, <1>2, <1>3, <1>5, RemoveDescendantTrees
<1>6. CASE FinishRole(s)
  <2>1. s \in Roles
    BY <1>1, <1>6 DEF FinishRole, Detaching, Nothing, Sound, Trees, RolesBeforeSurfaces
  <2>2. CASE crashed'
    <3>1. TreeTypeOK'
      <4>1. children' \in [Surfaces -> Seq(Subs)] /\ viewed' \subseteq Subs
        BY <1>1, <1>6, WithoutFacts DEF FinishRole, RemoveSelf, Sound, Trees, TreeTypeOK
      <4> QED BY <1>1, <1>6, <4>1 DEF FinishRole, RemoveSelf, Sound, Trees, TreeTypeOK
    <3>2. DanglesOnlyAfterSurface'
      BY <1>1, <1>6 DEF FinishRole, DanglesOnlyAfterSurface
    <3> QED BY <1>2, <1>4, <2>2, <3>1, <3>2
  <2>3. CASE ~ crashed'
    BY <1>1, <1>2, <1>3, <1>6, <2>1, <2>3, FinishRoleTrees
  <2> QED BY <2>2, <2>3
<1>7. CASE FinishSubsurface(s)
  <2>1. s \in Subs
    <3>1. detaching # Nothing /\ detaching.of = s /\ s \in objects
      BY <1>1, <1>7 DEF FinishSubsurface, Detaching, Nothing, Sound, Trees, RolesBeforeSurfaces
    <3> QED BY <1>1, <3>1 DEF Sound, Trees, TreeTypeOK
  <2> QED BY <1>1, <1>2, <1>3, <1>7, <2>1, FinishSubsurfaceTrees
<1>8. CASE FinishSurface(s)
  BY <1>1, <1>2, <1>3, <1>8, FinishSurfaceTrees
<1> QED BY <1>5, <1>6, <1>7, <1>8 DEF DetachStep

LEMMA WindowStepTrees ==
  ASSUME TreeInv, IInv', NEW r \in Roles, Window(r)  PROVE TreeInv'
<1>1. TreeTypeOK' /\ DanglesOnlyAfterSurface'
  BY DEF Window, treeVars, TreeInv, TreeTypeOK, DanglesOnlyAfterSurface
<1>2. ASSUME Running'
      PROVE  ParentsList' /\ ChildrenAreSubsurfaces' /\ RolesBeforeSurfaces' /\ OthersAreShown'
             /\ lost' = {}
  <2>1. Sound
    BY <1>2, WindowKeepsRunning, IdleIsSound DEF TreeInv
  <2> QED BY <2>1, WindowTrees
<1> QED BY <1>1, <1>2 DEF TreeInv, Trees

LEMMA NextTreeInv == TreeInv /\ [TreeNext]_allVars => TreeInv'
<1> SUFFICES ASSUME TreeInv, [TreeNext]_allVars  PROVE TreeInv'
  OBVIOUS
<1>1. IInv'
  BY TreeStepIsStep, NextIInv DEF TreeInv
<1>2. CASE UNCHANGED allVars
  <2>1. TreeTypeOK' /\ DanglesOnlyAfterSurface' /\ (Running' <=> Running)
    BY <1>2 DEF allVars, vars, treeVars, TreeInv, TreeTypeOK, DanglesOnlyAfterSurface, Running
  <2>2. RolesBeforeSurfaces' <=> RolesBeforeSurfaces
    BY <1>2 DEF allVars, vars, treeVars, RolesBeforeSurfaces
  <2>3. ASSUME Running
        PROVE  Trees' /\ OthersAreShown' /\ lost' = {}
    <3>1. Sound
      BY <2>3, IdleIsSound
    <3>2. OthersAreShown'
      BY <1>2, <3>1, SameTrees DEF allVars, vars, treeVars, Sound, OthersAreShown
    <3> QED BY <1>1, <1>2, <2>1, <2>2, <3>1, <3>2, SameTrees DEF allVars, vars, treeVars, Sound, Trees
  <2> QED BY <1>1, <2>1, <2>3 DEF TreeInv
<1>3. CASE Requests
  BY <1>1, <1>3, RequestsTrees
<1>4. ASSUME NEW s \in Surfaces, DetachStep(s)  PROVE TreeInv'
  BY <1>1, <1>4, DetachStepTrees
<1>5. ASSUME NEW r \in Roles, Window(r)  PROVE TreeInv'
  BY <1>1, <1>5, WindowStepTrees
<1> QED BY <1>2, <1>3, <1>4, <1>5 DEF TreeNext

\* The inductive invariant, for any surfaces and any order of requests: lists and parents
\* agree, views are those of living subsurfaces, and Detach disturbs only its own tree.
THEOREM TreeInvariance == TreeSpec => []TreeInv
<1>1. TreeInit => TreeInv
  BY InitTreeInv
<1>2. TreeInv /\ [TreeNext]_allVars => TreeInv'
  BY NextTreeInv
<1> QED BY <1>1, <1>2, PTL DEF TreeSpec

\* A hook meets only surfaces that are alive and have their view in its window
\* (HaikuCompositor.cpp:214-222), whatever trees are built and half taken out.
THEOREM WalkIsSafeCorrect == TreeSpec => []WalkIsSafe
<1>1. TreeInv => WalkIsSafe
  BY WalkIsSafeInv
<1> QED BY <1>1, TreeInvariance, PTL

\* Between requests a window shows the subsurfaces of its surfaces, in their order
\* (HaikuSubcompositor.cpp:69-73, HaikuCompositor.cpp:338-357).
THEOREM SubsurfacesAreShownCorrect == TreeSpec => []SubsurfacesAreShown
<1>1. TreeInv => SubsurfacesAreShown
  BY SubsurfacesAreShownInv
<1> QED BY <1>1, TreeInvariance, PTL

\* Nothing that was deleted is followed, but from a subsurface that outlives its surface
\* (HaikuSubcompositor.cpp:76-83, HaikuCompositor.cpp:301-316).
THEOREM DanglesOnlyAfterSurfaceCorrect == TreeSpec => []DanglesOnlyAfterSurface
<1>1. TreeInv => DanglesOnlyAfterSurface
  BY DEF TreeInv
<1> QED BY <1>1, TreeInvariance, PTL

\* With surfaces in them, windows do what they do without: what is proved of Spec holds.
THEOREM TreesKeepWindows == TreeSpec => Spec
<1>1. TreeInit => Init
  BY DEF TreeInit
<1>2. TreeInv /\ [TreeNext]_allVars => [Next]_vars
  BY TreeStepIsStep
<1> QED BY <1>1, <1>2, TreeInvariance, PTL DEF TreeSpec, Spec

-----------------------------------------------------------------------------
(* The placement of popups, for positioners and work areas of any size.     *)

\* A positioner as the algorithm sees it, with any integers in it.
Input == [size : Int, rect : Int, extent : Int, offset : Int,
          anchor : Sides, gravity : Sides, flip : BOOLEAN, slide : BOOLEAN]

\* The fields of a positioner's axis are integers, sides and flags.
LEMMA AxisStatesAreInputs == ASSUME NEW s \in AxisStates PROVE s \in Input
<1>1. Sizes \subseteq Int /\ Extents \subseteq Int
  BY SizesAssumption, ExtentsAssumption
<1> QED
  BY <1>1, RectsAssumption, ShiftsAssumption DEF AxisStates, Input

\* Placing an axis gives a span of the popup's size.
LEMMA PlaceIsSpan ==
  ASSUME NEW s \in Input
  PROVE  Place(s) \in Spans /\ Place(s).hi - Place(s).lo + 1 = s.size
<1>1. AnchorPoint(s) \in Int
  BY DEF AnchorPoint, Input, Sides
<1>2. GravityShift(s) \in Int
  BY DEF GravityShift, Input, Sides
<1> QED
  BY <1>1, <1>2 DEF Place, Spans, Input

\* Flipping keeps the size.
LEMMA FlipIsInput ==
  ASSUME NEW s \in Input
  PROVE  Flip(s) \in Input /\ Flip(s).size = s.size
<1>1. -s.anchor \in Sides /\ -s.gravity \in Sides
  BY DEF Input, Sides
<1> QED
  BY <1>1 DEF Flip, Input

\* What an axis ends up as: its own place or the flipped one, then slid if the other
\* stages left the popup outside.
LEMMA PositionOfAxis ==
  ASSUME NEW state \in [Axes -> Input], NEW a \in Axes
  PROVE  \E span \in {Place(state[a]), Place(Flip(state[a]))} :
           /\ GetPosition(state)[a] \in {span, Slide(a, state[a], span)}
           /\ \/ span = Place(state[a])
              \/ Inside(a, span) /\ Flips(a, state[a], Place(state[a]))
           /\ GetPosition(state)[a] = span => Inside(a, span) \/ span = Slide(a, state[a], span)
<1> DEFINE pos == PlaceBoth(state)
           flipped == UnconstrainByFlip(state, pos)
           slid == UnconstrainBySlide(state, flipped)
           s == state[a]
<1>1. pos[a] = Place(s)
  BY DEF PlaceBoth
<1>2. /\ flipped[a] \in {Place(s), Place(Flip(s))}
      /\ \/ flipped[a] = Place(s)
         \/ Inside(a, flipped[a]) /\ Flips(a, s, Place(s))
  BY <1>1 DEF UnconstrainByFlip
<1>3. slid[a] = Slide(a, s, flipped[a])
  BY DEF UnconstrainBySlide
<1>4. CASE IsUnconstrained(pos)
  <2>1. GetPosition(state) = pos
    BY <1>4 DEF GetPosition, UnconstrainPosition
  <2>2. Inside(a, Place(s))
    BY <1>4, <1>1 DEF IsUnconstrained
  <2> QED
    BY <2>1, <2>2, <1>1
<1>5. CASE ~ IsUnconstrained(pos) /\ IsUnconstrained(flipped)
  <2>1. GetPosition(state) = flipped
    BY <1>5 DEF GetPosition, UnconstrainPosition
  <2>2. Inside(a, flipped[a])
    BY <1>5 DEF IsUnconstrained
  <2> QED
    BY <2>1, <2>2, <1>2
<1>6. CASE ~ IsUnconstrained(pos) /\ ~ IsUnconstrained(flipped)
  <2>1. GetPosition(state) = slid
    BY <1>6 DEF GetPosition, UnconstrainPosition, UnconstrainByResize
  <2> QED
    BY <2>1, <1>2, <1>3
<1> QED
  BY <1>4, <1>5, <1>6

\* A span no larger than the work area slides inside it.
LEMMA SlideFits ==
  ASSUME NEW a \in Axes, NEW s \in Input, NEW span \in Spans,
         s.slide, span.hi - span.lo <= WorkArea[a].hi - WorkArea[a].lo
  PROVE  Inside(a, Slide(a, s, span))
<1>1. WorkArea[a].lo \in Int /\ WorkArea[a].hi \in Int
  BY WorkAreaAssumption
<1>2. span.lo \in Int /\ span.hi \in Int
  BY DEF Spans
<1> QED
  BY <1>1, <1>2 DEF Inside, Slide, SlideBy, Near, Far, Abs

\* Sliding lets no more of a span stick out than before.
LEMMA SlideOverflow ==
  ASSUME NEW a \in Axes, NEW s \in Input, NEW span \in Spans, span.lo <= span.hi
  PROVE  Overflow(a, Slide(a, s, span)) <= Overflow(a, span)
<1>1. WorkArea[a].lo \in Int /\ WorkArea[a].hi \in Int
  BY WorkAreaAssumption
<1>2. span.lo \in Int /\ span.hi \in Int
  BY DEF Spans
<1>3. CASE ~ (s.slide /\ ~ Inside(a, span))
  <2>1. Slide(a, s, span) = span
    BY <1>3 DEF Slide
  <2>2. Overflow(a, span) \in Int
    BY <1>1, <1>2 DEF Overflow, Near, Far
  <2> QED
    BY <2>1, <2>2
<1>4. CASE s.slide /\ ~ Inside(a, span)
  BY <1>1, <1>2, <1>4 DEF Overflow, Inside, Slide, SlideBy, Near, Far, Abs
<1> QED
  BY <1>3, <1>4

\* Halving loses at most one.
LEMMA Half == ASSUME NEW n \in Int
              PROVE  n \div 2 \in Int /\ n - 2 * (n \div 2) \in {0, 1}
  OBVIOUS

\* Flipping an axis mirrors its place in the anchor rectangle, up to a pixel.
LEMMA FlipMirrors ==
  ASSUME NEW s \in Input
  PROVE  Abs(Place(Flip(s)).lo - Mirror(s)) <= 1
<1> DEFINE point == AnchorPoint(s) + AnchorPoint(Flip(s))
           shift == GravityShift(s) + GravityShift(Flip(s))
<1>1. /\ AnchorPoint(s) \in Int /\ AnchorPoint(Flip(s)) \in Int
      /\ point - 2 * s.rect - s.extent \in {-1, 0}
  <2>1. s.rect \in Int /\ s.extent \in Int /\ s.anchor \in Sides
    BY DEF Input
  <2>2. Flip(s).rect = s.rect /\ Flip(s).extent = s.extent /\ Flip(s).anchor = -s.anchor
    BY DEF Flip, Input
  <2>3. CASE s.anchor = 0
    BY <2>1, <2>2, <2>3, Half DEF AnchorPoint
  <2>4. CASE s.anchor # 0
    BY <2>1, <2>2, <2>4 DEF AnchorPoint, Sides
  <2> QED BY <2>3, <2>4
<1>2. /\ GravityShift(s) \in Int /\ GravityShift(Flip(s)) \in Int
      /\ shift - s.size \in {-1, 0}
  <2>1. s.size \in Int /\ s.gravity \in Sides
    BY DEF Input
  <2>2. Flip(s).size = s.size /\ Flip(s).gravity = -s.gravity
    BY DEF Flip, Input
  <2>3. CASE s.gravity = 0
    BY <2>1, <2>2, <2>3, Half DEF GravityShift
  <2>4. CASE s.gravity # 0
    BY <2>1, <2>2, <2>4 DEF GravityShift, Sides
  <2> QED BY <2>3, <2>4
<1>3. Place(Flip(s)).lo = s.offset + AnchorPoint(Flip(s)) - GravityShift(Flip(s))
  BY DEF Place, Flip, Input
<1>4. Mirror(s) = 2 * s.rect + s.extent - 1
                  - ((AnchorPoint(s) - GravityShift(s)) + s.size - 1) + s.offset
  <2> DEFINE z == [s EXCEPT !.offset = 0]
  <2>1. /\ z.offset = 0 /\ z.size = s.size
        /\ AnchorPoint(z) = AnchorPoint(s) /\ GravityShift(z) = GravityShift(s)
    BY DEF AnchorPoint, GravityShift, Input
  <2>2. Mirror(s) = 2 * s.rect + s.extent - 1 - Place(z).hi + s.offset
    BY DEF Mirror
  <2> HIDE DEF z
  <2>3. Place(z).hi = (AnchorPoint(s) - GravityShift(s)) + s.size - 1
    BY <1>1, <1>2, <2>1 DEF Place
  <2> QED BY <2>2, <2>3
<1>5. s.rect \in Int /\ s.extent \in Int /\ s.offset \in Int /\ s.size \in Int
  BY DEF Input
<1>6. Place(Flip(s)).lo - Mirror(s) \in {-1, 0, 1}
  BY <1>1, <1>2, <1>3, <1>4, <1>5
<1> QED BY <1>6 DEF Abs

-----------------------------------------------------------------------------
(* The specification.                                                       *)

\* A placed popup is where GetPosition puts it.
Placed == placed => fPosition = GetPosition(fState)

\* So they are for both axes of the positioner in every state.
LEMMA InputsAreInputs == PositionerTypeOK => fState \in [Axes -> Input]
  BY AxisStatesAreInputs DEF PositionerTypeOK

\* GetPosition gives each axis a span of integers.
LEMMA SpansOfPosition ==
  ASSUME NEW state \in [Axes -> Input]
  PROVE  GetPosition(state) \in [Axes -> Spans]
<1>1. ASSUME NEW a \in Axes, NEW s \in Input, NEW span \in Spans
      PROVE  Slide(a, s, span) \in Spans
  <2>1. WorkArea[a].lo \in Int /\ WorkArea[a].hi \in Int
    BY WorkAreaAssumption
  <2>2. SlideBy(a, s, span) \in Int
    BY <2>1 DEF SlideBy, Near, Far, Spans
  <2> QED
    BY <2>2 DEF Slide, Spans
<1>2. ASSUME NEW a \in Axes
      PROVE  GetPosition(state)[a] \in Spans
  BY <1>1, PositionOfAxis, PlaceIsSpan, FlipIsInput
<1> DEFINE IsAxisFunction(f) == f = [a \in Axes |-> f[a]]
<1>3. IsAxisFunction(GetPosition(state))
  <2>1. ASSUME NEW pos PROVE IsAxisFunction(UnconstrainBySlide(state, pos))
    BY DEF UnconstrainBySlide
  <2>2. ASSUME NEW pos PROVE IsAxisFunction(UnconstrainByFlip(state, pos))
    BY DEF UnconstrainByFlip
  <2>3. IsAxisFunction(PlaceBoth(state))
    BY DEF PlaceBoth
  <2> HIDE DEF IsAxisFunction
  <2> QED
    BY <2>1, <2>2, <2>3 DEF GetPosition, UnconstrainPosition, UnconstrainByResize
<1> QED
  BY <1>2, <1>3

\* Every positioner the requests build has its fields in range, and a popup's place
\* consists of integers.
THEOREM PositionerTypeCorrect == PositionerSpec => []PositionerTypeOK
<1> DEFINE zero == [size |-> 1, rect |-> 0, extent |-> 0, offset |-> 0,
                    anchor |-> 0, gravity |-> 0, flip |-> FALSE, slide |-> FALSE]
<1>0. NoPosition \in [Axes -> Spans]
  <2>1. [lo |-> 0, hi |-> -1] \in Spans
    BY DEF Spans
  <2> QED
    BY <2>1 DEF NoPosition
<1>1. PositionerInit => PositionerTypeOK
  <2>1. zero \in AxisStates
    BY SizesAssumption, RectsAssumption, ExtentsAssumption, ShiftsAssumption
       DEF AxisStates, Sides
  <2>2. PositionerInit => fState = [a \in Axes |-> zero]
    BY DEF PositionerInit
  <2> HIDE DEF zero
  <2> QED
    BY <1>0, <2>1, <2>2 DEF PositionerInit, PositionerTypeOK
<1>2. PositionerTypeOK /\ [PositionerNext]_positionerVars => PositionerTypeOK'
  <2> SUFFICES ASSUME PositionerTypeOK, [PositionerNext]_positionerVars PROVE PositionerTypeOK'
    OBVIOUS
  <2>1. ASSUME NEW a \in Axes, NEW s \in AxisStates, Set(a, s)
        PROVE  PositionerTypeOK'
    BY <2>1 DEF PositionerTypeOK, Set
  <2>2. CASE HandleSetSize
    BY <2>1, <2>2 DEF HandleSetSize, PositionerTypeOK, AxisStates
  <2>3. CASE HandleSetAnchorRect
    BY <2>1, <2>3 DEF HandleSetAnchorRect, PositionerTypeOK, AxisStates
  <2>4. CASE HandleSetAnchor
    BY <2>1, <2>4 DEF HandleSetAnchor, PositionerTypeOK, AxisStates
  <2>5. CASE HandleSetGravity
    BY <2>1, <2>5 DEF HandleSetGravity, PositionerTypeOK, AxisStates
  <2>6. CASE HandleSetConstraintAdjustment
    BY <2>1, <2>6 DEF HandleSetConstraintAdjustment, PositionerTypeOK, AxisStates
  <2>7. CASE HandleSetOffset
    BY <2>1, <2>7 DEF HandleSetOffset, PositionerTypeOK, AxisStates
  <2>8. CASE UpdatePosition
    BY <2>8, InputsAreInputs, SpansOfPosition DEF UpdatePosition, PositionerTypeOK
  <2>9. CASE Reuse
    BY <1>0, <2>9 DEF Reuse, PositionerTypeOK
  <2>10. CASE UNCHANGED positionerVars
    BY <2>10 DEF positionerVars, PositionerTypeOK
  <2> QED
    BY <2>2, <2>3, <2>4, <2>5, <2>6, <2>7, <2>8, <2>9, <2>10 DEF PositionerNext
<1> QED
  BY <1>1, <1>2, PTL DEF PositionerSpec

\* A popup that was placed is where its positioner puts it, whatever was set since.
LEMMA PlacedInv == PositionerSpec => []Placed
<1>1. PositionerInit => Placed
  BY DEF PositionerInit, Placed
<1>2. Placed /\ [PositionerNext]_positionerVars => Placed'
  BY DEF Placed, PositionerNext, positionerVars, UpdatePosition, Reuse, Set, HandleSetSize,
         HandleSetAnchorRect, HandleSetAnchor, HandleSetGravity,
         HandleSetConstraintAdjustment, HandleSetOffset
<1> QED
  BY <1>1, <1>2, PTL DEF PositionerSpec

\* A popup that may slide and fits is placed inside the work area.
THEOREM SlideKeepsInsideCorrect == PositionerSpec => []SlideKeepsInside
<1>1. PositionerTypeOK /\ Placed => SlideKeepsInside
  <2> SUFFICES ASSUME PositionerTypeOK, Placed, placed, NEW a \in Axes,
                      fState[a].slide, Fits(a)
               PROVE  Inside(a, fPosition[a])
    BY DEF SlideKeepsInside
  <2>1. fState \in [Axes -> Input] /\ fState[a] \in Input
    BY InputsAreInputs
  <2>2. PICK span \in {Place(fState[a]), Place(Flip(fState[a]))} :
          /\ fPosition[a] \in {span, Slide(a, fState[a], span)}
          /\ fPosition[a] = span => Inside(a, span) \/ span = Slide(a, fState[a], span)
    BY <2>1, PositionOfAxis DEF Placed
  <2>3. span \in Spans /\ span.hi - span.lo + 1 = fState[a].size
    BY <2>1, PlaceIsSpan, FlipIsInput
  <2>4. span.hi - span.lo <= WorkArea[a].hi - WorkArea[a].lo
    BY <2>1, <2>3, WorkAreaAssumption DEF Fits, Input, Spans
  <2>5. Inside(a, Slide(a, fState[a], span))
    BY <2>1, <2>3, <2>4, SlideFits
  <2> QED
    BY <2>2, <2>5
<1> QED
  BY <1>1, PositionerTypeCorrect, PlacedInv, PTL

\* The adjustments never make more of the popup stick out of the work area.
THEOREM OverflowNeverGrowsCorrect == PositionerSpec => []OverflowNeverGrows
<1>1. PositionerTypeOK /\ Placed => OverflowNeverGrows
  <2> SUFFICES ASSUME PositionerTypeOK, Placed, placed, NEW a \in Axes
               PROVE  Overflow(a, fPosition[a]) <= Overflow(a, Place(fState[a]))
    BY DEF OverflowNeverGrows
  <2>1. fState \in [Axes -> Input] /\ fState[a] \in Input
    BY InputsAreInputs
  <2>2. PICK span \in {Place(fState[a]), Place(Flip(fState[a]))} :
          /\ fPosition[a] \in {span, Slide(a, fState[a], span)}
          /\ span = Place(fState[a]) \/ Inside(a, span)
    BY <2>1, PositionOfAxis DEF Placed
  <2>3. span \in Spans /\ span.hi - span.lo + 1 = fState[a].size /\ Place(fState[a]) \in Spans
    BY <2>1, PlaceIsSpan, FlipIsInput
  <2>4. fState[a].size >= 1
    <3>1. fState[a].size \in Sizes
      BY DEF PositionerTypeOK, AxisStates
    <3>2. fState[a].size \in Nat /\ fState[a].size # 0
      BY <3>1, SizesAssumption
    <3> QED
      BY <3>2
  <2>5. Overflow(a, Slide(a, fState[a], span)) <= Overflow(a, span)
    BY <2>1, <2>3, <2>4, SlideOverflow DEF Spans, Input
  <2>6. Overflow(a, span) <= Overflow(a, Place(fState[a]))
    BY <2>2, <2>3, WorkAreaAssumption DEF Overflow, Inside, Near, Far, Spans
  <2>7. \A p \in {span, Slide(a, fState[a], span)} : Overflow(a, p) <= Overflow(a, span)
    BY <2>3, <2>5, WorkAreaAssumption DEF Overflow, Near, Far, Spans
  <2>8. Overflow(a, fPosition[a]) <= Overflow(a, span)
    BY <2>2, <2>7
  <2>9. ASSUME NEW p \in Spans PROVE Overflow(a, p) \in Int
    BY WorkAreaAssumption DEF Overflow, Near, Far, Spans
  <2>10. fPosition[a] \in Spans
    BY DEF PositionerTypeOK
  <2> QED
    BY <2>3, <2>6, <2>8, <2>9, <2>10
<1> QED
  BY <1>1, PositionerTypeCorrect, PlacedInv, PTL

\* An axis moves only where the popup did not fit, and then as its flags allow.
THEOREM AxisMovesAsAllowedCorrect == PositionerSpec => []AxisMovesAsAllowed
<1>1. PositionerTypeOK /\ Placed => AxisMovesAsAllowed
  <2> SUFFICES ASSUME PositionerTypeOK, Placed, placed, NEW a \in Axes,
                      fPosition[a] # Place(fState[a])
               PROVE  /\ ~ Inside(a, Place(fState[a]))
                      /\ \/ fState[a].slide
                         \/ fState[a].flip /\ Abs(fPosition[a].lo - Mirror(fState[a])) <= 1
    BY DEF AxisMovesAsAllowed
  <2>1. fState \in [Axes -> Input] /\ fState[a] \in Input
    BY InputsAreInputs
  <2>2. PICK span \in {Place(fState[a]), Place(Flip(fState[a]))} :
          /\ fPosition[a] \in {span, Slide(a, fState[a], span)}
          /\ \/ span = Place(fState[a])
             \/ Inside(a, span) /\ Flips(a, fState[a], Place(fState[a]))
    BY <2>1, PositionOfAxis DEF Placed
  <2>3. CASE span = Place(fState[a])
    BY <2>2, <2>3 DEF Slide
  <2>4. CASE span # Place(fState[a])
    <3>1. fPosition[a] = Place(Flip(fState[a]))
      BY <2>2, <2>4 DEF Slide
    <3>2. fState[a].flip /\ ~ Inside(a, Place(fState[a]))
      <4>1. Place(fState[a]) \in Spans
        BY <2>1, PlaceIsSpan
      <4> QED
        BY <2>2, <2>4, <4>1, WorkAreaAssumption DEF Flips, Inside, Near, Far, Spans
    <3> QED
      BY <2>1, <3>1, <3>2, FlipMirrors
  <2> QED
    BY <2>3, <2>4
<1> QED
  BY <1>1, PositionerTypeCorrect, PlacedInv, PTL
=============================================================================
