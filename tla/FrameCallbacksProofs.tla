------------------------ MODULE FrameCallbacksProofs ------------------------
(***************************************************************************)
(* What FrameCallbacks guarantees for any callbacks: no callback is sent    *)
(* twice, however the two threads disturb each other, and under the lock    *)
(* the lists are a queue.                                                   *)
(***************************************************************************)
EXTENDS FrameCallbacks, TLAPS

-----------------------------------------------------------------------------
(* The order of the callbacks.                                              *)

\* How many callbacks had been asked for with c, if it was; else 0.
At == [c \in Callbacks |-> IF \E i \in DOMAIN asked : asked[i] = c
                           THEN CHOOSE i \in DOMAIN asked : asked[i] = c ELSE 0]

\* Callbacks are asked for once.
AskedOnce == \A i \in 1..Len(asked) : At[asked[i]] = i

\* What is linked was asked for, and links follow the order of the requests.
LinksInOrder ==
  \A c \in Callbacks : /\ next[c] # Null => 0 < At[c] /\ At[c] < At[next[c]]
                       /\ previous[c] # Null => 0 < At[previous[c]] /\ At[previous[c]] < At[c]

\* The pending list holds what was asked for since the last commit, or what is being committed.
PendingIsLast ==
  /\ first["pending"] = Null <=> last["pending"] = Null
  /\ last["pending"] # Null => At[last["pending"]] = Len(asked)
  /\ first["pending"] # Null => 0 < At[first["pending"]]
  /\ spc = "idle" => IF first["pending"] = Null THEN committed = Len(asked)
                     ELSE At[first["pending"]] = committed + 1
  /\ spc # "idle" => first["pending"] # Null /\ committed = Len(asked)

\* How many callbacks the window thread may have met: what is being committed is not
\* reached until it is linked to the current list.
Reach == IF spc \in {"takeFrom", "linkNext", "setFirst"} THEN At[first["pending"]] - 1 ELSE committed

\* From within reach no link leads out of it.
LinksWithinReach == \A c \in Callbacks : At[c] <= Reach /\ next[c] # Null => At[next[c]] <= Reach

StateWithinReach ==
  /\ first["state"] # Null => 0 < At[first["state"]] /\ At[first["state"]] <= Reach
  /\ last["state"] # Null => 0 < At[last["state"]]
  /\ spc # "clear" /\ first["pending"] # Null /\ last["state"] # Null
       => At[last["state"]] < At[first["pending"]]
  /\ spc = "setFirst" => first["state"] = Null

\* The window thread goes forward: what it sent, what it removes, what is left.
GoesForward ==
  /\ \A i \in DOMAIN done : 0 < At[done[i]] /\ At[done[i]] <= Reach
  /\ \A i, j \in DOMAIN done : i < j => At[done[i]] < At[done[j]]
  /\ head # Null => 0 < At[head] /\ At[head] <= Reach
  /\ head # Null => \A i \in DOMAIN done : At[done[i]] < At[head]
  /\ first["state"] # Null => \A i \in DOMAIN done : At[done[i]] < At[first["state"]]
  /\ wpc \in {"remove", "removeFirst"} => head = first["state"]
  /\ wpc \in {"removeLast", "unlink"} /\ first["state"] # Null => At[head] < At[first["state"]]

OrderInv == /\ AskedOnce /\ LinksInOrder /\ PendingIsLast
            /\ LinksWithinReach /\ StateWithinReach /\ GoesForward

-----------------------------------------------------------------------------
(* The lists under the lock.                                                *)

\* The callbacks from the lo-th to the hi-th are linked forward, or backward.
Forward(lo, hi) == \A i \in lo..hi : next[asked[i]] = IF i = hi THEN Null ELSE asked[i + 1]
Backward(lo, hi) == \A i \in lo..hi : previous[asked[i]] = IF i = lo THEN Null ELSE asked[i - 1]

\* The first callback on the list and the first that has no previous one: the one that
\* is being sent leaves the list in steps.
FirstLeft == Len(done) + (IF wpc \in {"removeLast", "unlink"} THEN 2 ELSE 1)
FirstBack == Len(done) + (IF wpc = "unlink" THEN 2 ELSE 1)

\* The two threads do not meet.
OneThread == (wpc # "idle" <=> lock = "window") /\ ~ crashed

\* What is sent is what was asked for, in order, and so is what is being sent.
SentIsPrefix ==
  /\ Len(done) <= committed
  /\ \A i \in 1..Len(done) : done[i] = asked[i]
  /\ head # Null => Len(done) < committed /\ head = asked[Len(done) + 1]

\* The current list goes up to the b-th callback, the pending one from there on.
Split(b) ==
  /\ Len(done) <= b
  /\ IF spc = "idle" THEN b = committed ELSE b < committed /\ committed = Len(asked)
  /\ spc \in {"linkNext", "linkPrevious", "extendLast"} => Len(done) < b
  /\ spc \in {"setFirst", "setLast"} => Len(done) = b

PendingEnds(b) ==
  /\ first["pending"] = IF b < Len(asked) THEN asked[b + 1] ELSE Null
  /\ last["pending"] = IF b < Len(asked) THEN asked[Len(asked)] ELSE Null

StateEnds(b) ==
  /\ first["state"] = IF FirstLeft <= (IF spc \in {"setLast", "clear"} THEN Len(asked) ELSE b)
                      THEN asked[FirstLeft] ELSE Null
  /\ last["state"] = IF spc = "clear" THEN asked[Len(asked)]
                     ELSE IF FirstBack <= b THEN asked[b] ELSE Null

Linked(b) ==
  /\ IF spc \in {"linkPrevious", "extendLast", "setLast", "clear"}
     THEN Forward(Len(done) + 1, Len(asked))
     ELSE Forward(Len(done) + 1, b) /\ Forward(b + 1, Len(asked))
  /\ IF spc \in {"extendLast", "setLast", "clear"}
     THEN Backward(Len(done) + 1, Len(asked))
     ELSE Backward(FirstBack, b) /\ Backward(b + 1, Len(asked))

QueueAt(b) == Split(b) /\ PendingEnds(b) /\ StateEnds(b) /\ Linked(b)

ListsAreQueue == ~ limited => OneThread /\ SentIsPrefix /\ \E b \in 0..Len(asked) : QueueAt(b)

IInv == TypeOK /\ OrderInv /\ ListsAreQueue

-----------------------------------------------------------------------------
(* Type correctness.                                                        *)

LEMMA InitTypeOK == Init => TypeOK
<1> SUFFICES ASSUME Init PROVE TypeOK
  OBVIOUS
<1>1. asked \in Seq(Callbacks) /\ done \in Seq(Callbacks) /\ committed \in 0..Len(asked)
  BY DEF Init
<1>2. first \in [Lists -> Pointers] /\ last \in [Lists -> Pointers]
      /\ next \in [Callbacks -> Pointers] /\ previous \in [Callbacks -> Pointers]
  BY DEF Init, Pointers
<1> QED
  BY <1>1, <1>2, NullAssumption DEF Init, TypeOK, Pointers, ServerPCs, WindowPCs

\* A step of either thread keeps the types.
LEMMA NextTypeOK == TypeOK /\ [Next]_vars => TypeOK'
<1> SUFFICES ASSUME TypeOK, [Next]_vars PROVE TypeOK'
  OBVIOUS
<1> USE NullAssumption
<1>1. ASSUME NEW c \in Callbacks, HandleFrame(c)  PROVE TypeOK'
  BY <1>1 DEF HandleFrame, Insert, TypeOK, Lists, Pointers
<1>2. CASE HandleCommit
  BY <1>2 DEF HandleCommit, links, TypeOK, Lists, Pointers, ServerPCs
<1>3. CASE TakeFrom
  BY <1>3 DEF TakeFrom, links, TypeOK, Lists, Pointers, ServerPCs
<1>4. CASE LinkNext
  BY <1>4 DEF LinkNext, TypeOK, Lists, Pointers, ServerPCs
<1>5. CASE LinkPrevious
  BY <1>5 DEF LinkPrevious, TypeOK, Lists, Pointers, ServerPCs
<1>6. CASE SetFirst
  BY <1>6 DEF SetFirst, TypeOK, Lists, Pointers, ServerPCs
<1>7. CASE SetLast
  BY <1>7 DEF SetLast, TypeOK, Lists, Pointers, ServerPCs
<1>8. CASE Clear
  BY <1>8 DEF Clear, TypeOK, Lists, Pointers, ServerPCs
<1>9. CASE Pulse \/ Draw
  BY <1>9 DEF Pulse, Draw, links, TypeOK, Lists, Pointers, WindowPCs, ServerPCs
<1>10. CASE CallFrameCallbacks
  BY <1>10 DEF CallFrameCallbacks, links, TypeOK, Lists, Pointers, WindowPCs, ServerPCs
<1>11. CASE Remove
  BY <1>11 DEF Remove, links, TypeOK, Lists, Pointers, WindowPCs
<1>12. CASE RemoveFirst
  BY <1>12 DEF RemoveFirst, TypeOK, Lists, Pointers, WindowPCs
<1>13. CASE RemoveLast
  BY <1>13 DEF RemoveLast, TypeOK, Lists, Pointers, WindowPCs
<1>14. CASE Unlink
  BY <1>14 DEF Unlink, TypeOK, Lists, Pointers, WindowPCs
<1>15. CASE UNCHANGED vars
  BY <1>15 DEF vars, links, TypeOK
<1> QED
  BY <1>1, <1>2, <1>3, <1>4, <1>5, <1>6, <1>7, <1>8, <1>9, <1>10, <1>11, <1>12, <1>13,
     <1>14, <1>15 DEF Next, ServerStep, WindowStep

-----------------------------------------------------------------------------
(* The order of the callbacks, kept by both threads without a lock.         *)

\* A callback that was asked for is where it stands.
LEMMA AtIsPlace ==
  ASSUME TypeOK
  PROVE  /\ At \in [Callbacks -> 0..Len(asked)]
         /\ \A c \in Callbacks : At[c] # 0 => asked[At[c]] = c
  BY DEF At, TypeOK

\* A step that asks for nothing leaves the callbacks where they are.
LEMMA AtStays == ASSUME UNCHANGED asked PROVE At' = At
  BY DEF At

\* A new callback is the last.
LEMMA AtAppended ==
  ASSUME TypeOK, AskedOnce, NEW c \in Callbacks, HandleFrame(c)
  PROVE  At[c] = 0 /\ At' = [At EXCEPT ![c] = Len(asked) + 1] /\ AskedOnce'
<1>1. At[c] = 0
  BY DEF At, HandleFrame
<1>2. asked' = Append(asked, c) /\ asked \in Seq(Callbacks)
  BY DEF HandleFrame, Insert, TypeOK
<1>3. \A i, j \in DOMAIN asked : asked[i] = asked[j] => i = j
  BY <1>2 DEF AskedOnce
<1>4. DOMAIN asked = 1..Len(asked) /\ DOMAIN asked' = 1..(Len(asked) + 1) /\ Len(asked) \in Nat
  BY <1>2
<1>5. \A i \in DOMAIN asked' : asked'[i] = IF i = Len(asked) + 1 THEN c ELSE asked[i]
  BY <1>2, <1>4
<1>6. \A i \in DOMAIN asked : asked[i] # c
  BY DEF HandleFrame, Insert
<1>7. ASSUME NEW d \in Callbacks PROVE At'[d] = IF d = c THEN Len(asked) + 1 ELSE At[d]
  <2>1. CASE d = c
    <3>1. (\E i \in DOMAIN asked' : asked'[i] = d)
            /\ \A i \in DOMAIN asked' : asked'[i] = d => i = Len(asked) + 1
      BY <2>1, <1>4, <1>5, <1>6
    <3> QED BY <3>1, <2>1 DEF At
  <2>2. CASE d # c /\ \E i \in DOMAIN asked : asked[i] = d
    <3>1. PICK i \in DOMAIN asked : asked[i] = d
      BY <2>2
    <3>2. i \in DOMAIN asked' /\ asked'[i] = d /\ \A j \in DOMAIN asked' : asked'[j] = d => j = i
      BY <3>1, <2>2, <1>3, <1>4, <1>5
    <3>3. At[d] = i
      BY <3>1, <1>3 DEF At
    <3> QED BY <3>2, <3>3, <2>2 DEF At
  <2>3. CASE d # c /\ ~ \E i \in DOMAIN asked : asked[i] = d
    <3>1. ~ \E i \in DOMAIN asked' : asked'[i] = d
      BY <2>3, <1>4, <1>5
    <3> QED BY <3>1, <2>3 DEF At
  <2> QED BY <2>1, <2>2, <2>3
<1>8. At' = [At EXCEPT ![c] = Len(asked) + 1]
  BY <1>7 DEF At
<1>9. AskedOnce'
  BY <1>2, <1>4, <1>5, <1>6, <1>8, AtIsPlace DEF AskedOnce
<1> QED BY <1>1, <1>8, <1>9

LEMMA InitOrderInv == Init => OrderInv
<1> SUFFICES ASSUME Init PROVE OrderInv
  OBVIOUS
<1> QED
  BY DEF Init, OrderInv, Lists, AskedOnce, LinksInOrder, PendingIsLast, LinksWithinReach,
         StateWithinReach, GoesForward, Reach

LEMMA HandleFrameOrderInv ==
  ASSUME TypeOK, OrderInv, NEW c \in Callbacks, HandleFrame(c) PROVE OrderInv'
<1>1. At \in [Callbacks -> 0..Len(asked)] /\ Len(asked) \in Nat
  BY AtIsPlace DEF TypeOK
<1>2. At[c] = 0 /\ At' = [At EXCEPT ![c] = Len(asked) + 1] /\ AskedOnce'
  BY AtAppended DEF OrderInv
<1>3. Len(asked') = Len(asked) + 1
  BY DEF HandleFrame, Insert, TypeOK
<1> USE NullAssumption
<1>4. LinksInOrder'
  BY <1>1, <1>2, <1>3 DEF HandleFrame, Insert, TypeOK, OrderInv, LinksInOrder, PendingIsLast,
     Lists, Pointers
<1>5. PendingIsLast'
  BY <1>1, <1>2, <1>3 DEF HandleFrame, Insert, TypeOK, OrderInv, PendingIsLast, Lists, Pointers
<1>6. LinksWithinReach'
  BY <1>1, <1>2, <1>3 DEF HandleFrame, Insert, TypeOK, OrderInv, LinksWithinReach,
     PendingIsLast, LinksInOrder, Reach, Lists, Pointers
<1>7. StateWithinReach'
  BY <1>1, <1>2, <1>3 DEF HandleFrame, Insert, TypeOK, OrderInv, StateWithinReach,
     PendingIsLast, Reach, Lists, Pointers
<1>8. GoesForward'
  <2>1. UNCHANGED <<done, head, wpc, spc, committed>> /\ first'["state"] = first["state"]
    BY DEF HandleFrame, Insert, TypeOK, Lists
  <2>2. Reach' = Reach
    BY <2>1 DEF HandleFrame, Insert, Reach
  <2>3. \A d \in Callbacks : At[d] > 0 => At'[d] = At[d]
    BY <1>1, <1>2
  <2>4. /\ \A i \in DOMAIN done : done[i] \in Callbacks
        /\ head # Null => head \in Callbacks
        /\ first["state"] # Null => first["state"] \in Callbacks
    BY DEF TypeOK, Lists, Pointers
  <2>5. /\ \A i \in DOMAIN done : At'[done[i]] = At[done[i]]
        /\ head # Null => At'[head] = At[head]
        /\ first["state"] # Null => At'[first["state"]] = At[first["state"]]
    BY <2>3, <2>4 DEF OrderInv, GoesForward, StateWithinReach
  <2> QED
    BY <2>1, <2>2, <2>5 DEF OrderInv, GoesForward, TypeOK
<1> QED
  BY <1>2, <1>4, <1>5, <1>6, <1>7, <1>8 DEF OrderInv

\* The steps of the server thread.
LEMMA ServerOrderInv == ASSUME TypeOK, OrderInv, ServerStep PROVE OrderInv'
<1> USE NullAssumption
<1>1. At \in [Callbacks -> 0..Len(asked)] /\ Len(asked) \in Nat
  BY AtIsPlace DEF TypeOK
<1>2. UNCHANGED asked
  BY DEF ServerStep, HandleCommit, TakeFrom, LinkNext, LinkPrevious, SetFirst, SetLast, Clear
<1>3. At' = At /\ AskedOnce'
  BY <1>2, AtStays DEF OrderInv, AskedOnce
<1>4. CASE HandleCommit
  <2>1. LinksInOrder'
    BY <1>1, <1>3, <1>4 DEF HandleCommit, links, TypeOK, OrderInv, LinksInOrder,
       PendingIsLast, StateWithinReach, Lists, Pointers
  <2>2. PendingIsLast'
    BY <1>1, <1>3, <1>4 DEF HandleCommit, links, TypeOK, OrderInv, PendingIsLast, Lists, Pointers
  <2>3. LinksWithinReach'
    BY <1>1, <1>3, <1>4 DEF HandleCommit, links, TypeOK, OrderInv, LinksWithinReach, Reach,
       PendingIsLast, StateWithinReach, LinksInOrder, Lists, Pointers
  <2>4. StateWithinReach'
    BY <1>1, <1>3, <1>4 DEF HandleCommit, links, TypeOK, OrderInv, StateWithinReach, Reach,
       PendingIsLast, LinksInOrder, Lists, Pointers
  <2>5. GoesForward'
    BY <1>1, <1>3, <1>4 DEF HandleCommit, links, TypeOK, OrderInv, GoesForward,
       StateWithinReach, Reach, PendingIsLast, Lists, Pointers
  <2> QED
    BY <1>3, <2>1, <2>2, <2>3, <2>4, <2>5 DEF OrderInv
<1>5. CASE TakeFrom
  BY <1>1, <1>2, <1>3, <1>5 DEF TakeFrom, links, TypeOK, OrderInv, LinksInOrder,
     PendingIsLast, LinksWithinReach, StateWithinReach,
      GoesForward, Reach, Lists, Pointers
<1>6. CASE LinkNext
  <2>1. LinksInOrder'
    BY <1>1, <1>3, <1>6 DEF LinkNext, TypeOK, OrderInv, LinksInOrder, PendingIsLast,
       StateWithinReach, Lists, Pointers
  <2>2. PendingIsLast'
    BY <1>1, <1>3, <1>6 DEF LinkNext, TypeOK, OrderInv, PendingIsLast, Lists, Pointers
  <2>3. LinksWithinReach'
    <3>1. Reach' = Len(asked) \/ UNCHANGED <<next, spc, first, committed>>
      BY <1>2, <1>6 DEF LinkNext, Reach, TypeOK, OrderInv, PendingIsLast
    <3>2. CASE Reach' = Len(asked)
      <4>1. next' \in [Callbacks -> Pointers]
        BY <1>6 DEF LinkNext, TypeOK, Lists, Pointers
      <4> QED BY <4>1, <3>2, <1>1, <1>3 DEF LinksWithinReach, Pointers
    <3>3. CASE UNCHANGED <<next, spc, first, committed>>
      BY <3>3, <1>3 DEF OrderInv, LinksWithinReach, Reach
    <3> QED BY <3>1, <3>2, <3>3, <1>6 DEF LinkNext
  <2>4. StateWithinReach'
    BY <1>1, <1>3, <1>6 DEF LinkNext, TypeOK, OrderInv, StateWithinReach, Reach,
       PendingIsLast, LinksInOrder, Lists, Pointers
  <2>5. GoesForward'
    BY <1>1, <1>3, <1>6 DEF LinkNext, TypeOK, OrderInv, GoesForward, StateWithinReach, Reach,
       PendingIsLast, Lists, Pointers
  <2> QED
    BY <1>3, <2>1, <2>2, <2>3, <2>4, <2>5 DEF OrderInv
<1>7. CASE LinkPrevious
  BY <1>1, <1>2, <1>3, <1>7 DEF LinkPrevious, TypeOK, OrderInv, LinksInOrder, PendingIsLast,
     LinksWithinReach, StateWithinReach,
      GoesForward, Reach, Lists, Pointers
<1>8. CASE SetFirst
  BY <1>1, <1>2, <1>3, <1>8 DEF SetFirst, TypeOK, OrderInv, LinksInOrder, PendingIsLast,
     LinksWithinReach, StateWithinReach,
      GoesForward, Reach, Lists, Pointers
<1>9. CASE SetLast
  BY <1>1, <1>2, <1>3, <1>9 DEF SetLast, TypeOK, OrderInv, LinksInOrder, PendingIsLast,
     LinksWithinReach, StateWithinReach,
      GoesForward, Reach, Lists, Pointers
<1>10. CASE Clear
  BY <1>1, <1>2, <1>3, <1>10 DEF Clear, TypeOK, OrderInv, LinksInOrder, PendingIsLast,
     LinksWithinReach, StateWithinReach,
      GoesForward, Reach, Lists, Pointers
<1> QED
  BY <1>4, <1>5, <1>6, <1>7, <1>8, <1>9, <1>10 DEF ServerStep

\* The steps of the window thread.
LEMMA WindowOrderInv == ASSUME TypeOK, OrderInv, Pulse \/ Draw \/ WindowStep PROVE OrderInv'
<1> USE NullAssumption
<1>1. At \in [Callbacks -> 0..Len(asked)] /\ Len(asked) \in Nat
  BY AtIsPlace DEF TypeOK
<1>2. UNCHANGED asked
  BY DEF Pulse, Draw, WindowStep, CallFrameCallbacks, Remove, RemoveFirst, RemoveLast, Unlink
<1>3. At' = At /\ AskedOnce'
  BY <1>2, AtStays DEF OrderInv, AskedOnce
<1>4. CASE Pulse \/ Draw
  BY <1>1, <1>2, <1>3, <1>4 DEF Pulse, Draw, links, TypeOK, OrderInv, LinksInOrder,
     PendingIsLast, LinksWithinReach, StateWithinReach,
      GoesForward, Reach, Lists, Pointers
<1>5. CASE CallFrameCallbacks
  BY <1>1, <1>2, <1>3, <1>5 DEF CallFrameCallbacks, links, TypeOK, OrderInv, LinksInOrder,
     PendingIsLast, LinksWithinReach, StateWithinReach,
      GoesForward, Reach, Lists, Pointers
<1>6. CASE Remove
  BY <1>1, <1>2, <1>3, <1>6 DEF Remove, links, TypeOK, OrderInv, LinksInOrder, PendingIsLast,
     LinksWithinReach, StateWithinReach,
      GoesForward, Reach, Lists, Pointers
<1>7. CASE RemoveFirst
  BY <1>1, <1>2, <1>3, <1>7 DEF RemoveFirst, TypeOK, OrderInv, LinksInOrder, PendingIsLast,
     LinksWithinReach, StateWithinReach,
      GoesForward, Reach, Lists, Pointers
<1>8. CASE RemoveLast
  <2>1. LinksInOrder'
    <3>1. head \in Callbacks /\ next' = next
      BY <1>8 DEF RemoveLast, TypeOK, Pointers
    <3>2. CASE previous' = previous
      BY <3>1, <3>2, <1>3 DEF OrderInv, LinksInOrder
    <3>3. CASE next[head] # Null /\ previous' = [previous EXCEPT ![next[head]] = previous[head]]
      <4>1. next[head] \in Callbacks /\ At[head] < At[next[head]]
              /\ (previous[head] # Null => previous[head] \in Callbacks /\ 0 < At[previous[head]]
                                              /\ At[previous[head]] < At[head])
        BY <3>1, <3>3 DEF OrderInv, LinksInOrder, TypeOK, Pointers
      <4>2. \A c \in Callbacks : previous'[c] = IF c = next[head] THEN previous[head] ELSE previous[c]
        BY <3>3 DEF TypeOK
      <4> QED BY <4>1, <4>2, <3>1, <1>1, <1>3 DEF OrderInv, LinksInOrder
    <3> QED BY <3>2, <3>3, <1>8 DEF RemoveLast
  <2>2. PendingIsLast'
    BY <1>1, <1>3, <1>8 DEF RemoveLast, TypeOK, OrderInv, PendingIsLast, Lists, Pointers
  <2>3. LinksWithinReach'
    BY <1>1, <1>3, <1>8 DEF RemoveLast, TypeOK, OrderInv, LinksWithinReach, Reach,
       PendingIsLast, StateWithinReach, LinksInOrder, Lists, Pointers
  <2>4. StateWithinReach'
    BY <1>1, <1>3, <1>8 DEF RemoveLast, TypeOK, OrderInv, StateWithinReach, Reach,
       PendingIsLast, LinksInOrder, Lists, Pointers
  <2>5. GoesForward'
    BY <1>1, <1>3, <1>8 DEF RemoveLast, TypeOK, OrderInv, GoesForward, StateWithinReach,
       Reach, PendingIsLast, Lists, Pointers
  <2> QED
    BY <1>3, <2>1, <2>2, <2>3, <2>4, <2>5 DEF OrderInv
<1>9. CASE Unlink
  <2>1. LinksInOrder'
    BY <1>1, <1>3, <1>9 DEF Unlink, TypeOK, OrderInv, LinksInOrder, PendingIsLast,
       StateWithinReach, Lists, Pointers
  <2>2. PendingIsLast'
    BY <1>1, <1>3, <1>9 DEF Unlink, TypeOK, OrderInv, PendingIsLast, Lists, Pointers
  <2>3. LinksWithinReach'
    BY <1>1, <1>3, <1>9 DEF Unlink, TypeOK, OrderInv, LinksWithinReach, Reach, PendingIsLast,
       StateWithinReach, LinksInOrder, Lists, Pointers
  <2>4. StateWithinReach'
    BY <1>1, <1>3, <1>9 DEF Unlink, TypeOK, OrderInv, StateWithinReach, Reach, PendingIsLast,
       LinksInOrder, Lists, Pointers
  <2>5. GoesForward'
    <3>1. head \in Callbacks /\ head # Null /\ head' = Null /\ wpc' = "isEmpty"
          /\ wpc = "unlink" /\ UNCHANGED <<first, spc, committed>>
      BY <1>9 DEF Unlink, TypeOK, Pointers
    <3>2. /\ DOMAIN done' = 1..(Len(done) + 1) /\ DOMAIN done = 1..Len(done) /\ Len(done) \in Nat
          /\ \A i \in DOMAIN done' : done'[i] = IF i = Len(done) + 1 THEN head ELSE done[i]
      BY <3>1, <1>9 DEF Unlink, TypeOK
    <3>3. Reach' = Reach
      BY <3>1, <1>3 DEF Reach
    <3>4. /\ 0 < At[head] /\ At[head] <= Reach
          /\ \A i \in DOMAIN done : At[done[i]] < At[head]
          /\ first["state"] # Null => At[head] < At[first["state"]]
      BY <3>1 DEF OrderInv, GoesForward
    <3>5. \A i \in DOMAIN done' : 0 < At[done'[i]] /\ At[done'[i]] <= Reach
      BY <3>2, <3>4 DEF OrderInv, GoesForward
    <3>6. \A i, j \in DOMAIN done' : i < j => At[done'[i]] < At[done'[j]]
      BY <3>2, <3>4 DEF OrderInv, GoesForward
    <3>7. first["state"] # Null => \A i \in DOMAIN done' : At[done'[i]] < At[first["state"]]
      BY <3>2, <3>4 DEF OrderInv, GoesForward
    <3> QED BY <3>1, <3>3, <3>5, <3>6, <3>7, <1>3 DEF GoesForward
  <2> QED
    BY <1>3, <2>1, <2>2, <2>3, <2>4, <2>5 DEF OrderInv
<1> QED
  BY <1>4, <1>5, <1>6, <1>7, <1>8, <1>9 DEF WindowStep

\* Both threads keep the order.
LEMMA NextOrderInv == TypeOK /\ OrderInv /\ [Next]_vars => OrderInv'
<1> SUFFICES ASSUME TypeOK, OrderInv, [Next]_vars PROVE OrderInv'
  OBVIOUS
<1>1. CASE UNCHANGED vars
  BY <1>1, AtStays DEF vars, links, OrderInv, AskedOnce, LinksInOrder, PendingIsLast,
     LinksWithinReach, StateWithinReach, GoesForward, Reach
<1> QED
  BY <1>1, HandleFrameOrderInv, ServerOrderInv, WindowOrderInv DEF Next

\* No callback is sent twice, nor one that was not committed, with the frame rate limit or
\* without it: though Pulse takes callbacks from the list while TakeFrom splices it
\* (HaikuCompositor.cpp:275, 494).
THEOREM SentAtMostOnceCorrect == Spec => []SentAtMostOnce
<1>1. TypeOK /\ OrderInv => SentAtMostOnce
  <2> SUFFICES ASSUME TypeOK, OrderInv PROVE SentAtMostOnce
    OBVIOUS
  <2>1. \A i \in DOMAIN done : done[i] \in Callbacks
    BY DEF TypeOK
  <2>2. \A i, j \in DOMAIN done : i < j => At[done[i]] < At[done[j]]
    BY DEF OrderInv, GoesForward
  <2>3. At \in [Callbacks -> 0..Len(asked)] /\ DOMAIN done \subseteq Nat
    BY AtIsPlace DEF TypeOK
  <2>4. \A i, j \in DOMAIN done : done[i] = done[j] => i = j
    BY <2>1, <2>2, <2>3
  <2>5. Reach <= committed /\ committed \in Nat
    BY <2>3 DEF Reach, TypeOK, OrderInv, PendingIsLast, Lists, Pointers
  <2>6. ASSUME NEW i \in DOMAIN done PROVE At[done[i]] \in 1..committed /\ done[i] = asked[At[done[i]]]
    <3>1. 0 < At[done[i]] /\ At[done[i]] <= Reach
      BY DEF OrderInv, GoesForward
    <3>2. At[done[i]] \in Nat /\ Reach \in Nat
      BY <2>1, <2>3 DEF Reach, TypeOK, OrderInv, PendingIsLast, Lists, Pointers
    <3> QED BY <3>1, <3>2, <2>1, <2>5, AtIsPlace
  <2> QED BY <2>4, <2>6 DEF SentAtMostOnce
<1> QED
  BY <1>1, InitTypeOK, NextTypeOK, InitOrderInv, NextOrderInv, PTL DEF Spec

-----------------------------------------------------------------------------
(* The lists under the lock.                                                *)

\* What the lemmas below use of the callbacks that were asked for.
LEMMA AskedFacts ==
  ASSUME TypeOK, AskedOnce
  PROVE  /\ Len(asked) \in Nat /\ Len(done) \in Nat
         /\ DOMAIN asked = 1..Len(asked)
         /\ \A i \in 1..Len(asked) : asked[i] \in Callbacks /\ asked[i] # Null
         /\ \A i, j \in 1..Len(asked) : asked[i] = asked[j] => i = j
  BY NullAssumption DEF TypeOK, AskedOnce

LEMMA InitQueue == Init => ListsAreQueue
<1> SUFFICES ASSUME Init PROVE ListsAreQueue
  OBVIOUS
<1>1. Len(asked) = 0 /\ Len(done) = 0
  BY DEF Init
<1>2. OneThread /\ SentIsPrefix /\ QueueAt(0)
  BY <1>1 DEF Init, Lists, OneThread, SentIsPrefix, QueueAt, Split, PendingEnds, StateEnds,
     Linked,
         Forward, Backward, FirstLeft, FirstBack
<1> QED
  BY <1>1, <1>2 DEF ListsAreQueue

\* A request links its callback to the end of the pending list.
LEMMA HandleFrameQueue ==
  ASSUME TypeOK, AskedOnce, AskedOnce', OneThread, SentIsPrefix, NEW b \in 0..Len(asked), QueueAt(b),
         NEW c \in Callbacks, HandleFrame(c)
  PROVE  OneThread' /\ SentIsPrefix' /\ b \in 0..Len(asked') /\ QueueAt(b)'
<1> USE NullAssumption
<1>0. Len(asked) \in Nat
  BY AskedFacts
<1>1. /\ Len(asked) \in Nat /\ Len(done) \in Nat /\ DOMAIN asked = 1..Len(asked)
      /\ \A i \in 1..Len(asked) : asked[i] \in Callbacks /\ asked[i] # Null
      /\ \A i, j \in 1..Len(asked) : asked[i] = asked[j] => i = j
  BY AskedFacts
<1>2. /\ Len(asked') = Len(asked) + 1
      /\ \A i \in 1..Len(asked) : asked'[i] = asked[i] /\ asked[i] # c
      /\ asked'[Len(asked) + 1] = c
  BY <1>1, SMTT(20) DEF HandleFrame, Insert, TypeOK
<1>3. /\ spc = "idle" /\ wpc = "idle" /\ lock = "free" /\ head = Null /\ b = committed
      /\ UNCHANGED <<spc, wpc, head, lock, committed, done, crashed>>
  BY DEF HandleFrame, Insert, OneThread, TypeOK, QueueAt, Split
<1>4. OneThread' /\ b \in 0..Len(asked')
  BY <1>1, <1>2, <1>3 DEF OneThread
<1>5. SentIsPrefix'
  BY <1>1, <1>2, <1>3 DEF SentIsPrefix, TypeOK
<1>6. Split(b)'
  BY <1>1, <1>2, <1>3 DEF QueueAt, Split
<1>7. /\ first["pending"] = (IF b < Len(asked) THEN asked[b + 1] ELSE Null)
      /\ last["pending"] = (IF b < Len(asked) THEN asked[Len(asked)] ELSE Null)
  BY DEF QueueAt, PendingEnds
<1>8. PendingEnds(b)'
  BY <1>1, <1>2, <1>3, <1>7 DEF HandleFrame, Insert, PendingEnds, TypeOK, Lists
<1>9. StateEnds(b)'
  BY <1>1, <1>2, <1>3 DEF HandleFrame, Insert, QueueAt, Split, StateEnds, FirstLeft,
     FirstBack, TypeOK, Lists
<1>10. Linked(b)'
  <2>1. Forward(Len(done) + 1, b) /\ Forward(b + 1, Len(asked))
        /\ Backward(Len(done) + 1, b) /\ Backward(b + 1, Len(asked))
    BY <1>3 DEF QueueAt, Linked, FirstBack
  <2>2. \A x \in Callbacks : /\ next'[x] = IF x = c THEN Null ELSE IF x = last["pending"] THEN c ELSE next[x]
                             /\ previous'[x] = IF x = c THEN last["pending"] ELSE previous[x]
    BY DEF HandleFrame, Insert, TypeOK
  <2>3. ASSUME NEW i \in (Len(done) + 1)..b
        PROVE  /\ next'[asked'[i]] = IF i = b THEN Null ELSE asked'[i + 1]
               /\ previous'[asked'[i]] = IF i = Len(done) + 1 THEN Null ELSE asked'[i - 1]
    <3>1. i \in 1..Len(asked) /\ (i # b => i + 1 \in 1..Len(asked))
          /\ (i # Len(done) + 1 => i - 1 \in 1..Len(asked))
      BY <1>1
    <3>2. asked[i] # c /\ asked[i] # last["pending"] /\ asked[i] \in Callbacks
      BY <3>1, <1>1, <1>2, <1>7
    <3>3. next'[asked[i]] = next[asked[i]] /\ previous'[asked[i]] = previous[asked[i]]
      BY <3>2, <2>2
    <3>4. /\ next[asked[i]] = IF i = b THEN Null ELSE asked[i + 1]
          /\ previous[asked[i]] = IF i = Len(done) + 1 THEN Null ELSE asked[i - 1]
      BY <2>1, SMTT(20) DEF Forward, Backward
    <3> QED BY <3>1, <3>3, <3>4, <1>2
  <2>4. ASSUME NEW i \in (b + 1)..Len(asked)
        PROVE  /\ next'[asked'[i]] = asked'[i + 1]
               /\ previous'[asked'[i]] = IF i = b + 1 THEN Null ELSE asked'[i - 1]
    <3>1. /\ i \in 1..Len(asked) /\ b < Len(asked) /\ Len(asked) \in 1..Len(asked)
          /\ i # b + 1 => i - 1 \in 1..Len(asked)
          /\ i # Len(asked) => i + 1 \in 1..Len(asked)
      <4>1. i \in Nat /\ b \in Nat /\ b + 1 <= i /\ i <= Len(asked)
        BY <1>0
      <4> QED BY <4>1, <1>0
    <3>2. asked[i] # c /\ asked[i] \in Callbacks /\ (asked[i] = last["pending"] <=> i = Len(asked))
      BY <3>1, <1>1, <1>2, <1>7
    <3>3. /\ next[asked[i]] = IF i = Len(asked) THEN Null ELSE asked[i + 1]
          /\ previous[asked[i]] = IF i = b + 1 THEN Null ELSE asked[i - 1]
      BY <2>1 DEF Forward, Backward
    <3>4. previous'[asked'[i]] = IF i = b + 1 THEN Null ELSE asked'[i - 1]
      BY <3>1, <3>2, <3>3, <2>2, <1>2
    <3>5. next'[asked'[i]] = asked'[i + 1]
      BY <3>1, <3>2, <3>3, <2>2, <1>2
    <3> QED BY <3>4, <3>5
  <2>5. /\ next'[asked'[Len(asked) + 1]] = Null
        /\ previous'[asked'[Len(asked) + 1]] = IF b = Len(asked) THEN Null ELSE asked'[Len(asked)]
    BY <2>2, <1>1, <1>2, <1>7
  <2>6. Forward(Len(done) + 1, b)' /\ Backward(Len(done) + 1, b)'
    BY <2>3, <1>3 DEF Forward, Backward
  <2>7. Forward(b + 1, Len(asked))' /\ Backward(b + 1, Len(asked))'
    <3>1. \A i \in (b + 1)..(Len(asked) + 1) : i = Len(asked) + 1 \/ i \in (b + 1)..Len(asked)
      BY <1>1
    <3>2. \A i \in (b + 1)..(Len(asked) + 1) :
            next'[asked'[i]] = IF i = Len(asked) + 1 THEN Null ELSE asked'[i + 1]
      BY <3>1, <2>4, <2>5, <1>1
    <3>3. \A i \in (b + 1)..(Len(asked) + 1) :
            previous'[asked'[i]] = IF i = b + 1 THEN Null ELSE asked'[i - 1]
      <4> SUFFICES ASSUME NEW i \in (b + 1)..(Len(asked) + 1)
                   PROVE  previous'[asked'[i]] = IF i = b + 1 THEN Null ELSE asked'[i - 1]
        OBVIOUS
      <4>1. CASE i \in (b + 1)..Len(asked)
        BY <4>1, <2>4, SMTT(20)
      <4>2. CASE i = Len(asked) + 1
        <5>1. (i = b + 1 <=> b = Len(asked)) /\ i - 1 = Len(asked)
          BY <4>2, <1>0
        <5> QED BY <5>1, <4>2, <2>5
      <4> QED BY <3>1, <4>1, <4>2
    <3> QED BY <3>2, <3>3, <1>2 DEF Forward, Backward
  <2> QED BY <2>6, <2>7, <1>3 DEF Linked, FirstBack
<1> QED BY <1>4, <1>5, <1>6, <1>8, <1>9, <1>10 DEF QueueAt

\* The server thread splices the lists, and the window thread is not there.
LEMMA ServerQueue ==
  ASSUME TypeOK, AskedOnce, OneThread, SentIsPrefix, NEW b \in 0..Len(asked), QueueAt(b), ServerStep
  PROVE  OneThread' /\ SentIsPrefix' /\ \E n \in 0..Len(asked') : QueueAt(n)'
<1> USE NullAssumption DEF Lists
<1>1. /\ Len(asked) \in Nat /\ Len(done) \in Nat /\ DOMAIN asked = 1..Len(asked)
      /\ \A i \in 1..Len(asked) : asked[i] \in Callbacks /\ asked[i] # Null
      /\ \A i, j \in 1..Len(asked) : asked[i] = asked[j] => i = j
  BY AskedFacts
<1>2. wpc = "idle" /\ head = Null /\ UNCHANGED <<asked, done, wpc, head>>
        /\ FirstLeft = Len(done) + 1 /\ FirstBack = Len(done) + 1
  BY DEF ServerStep, HandleCommit, TakeFrom, LinkNext, LinkPrevious, SetFirst, SetLast, Clear,
         links, OneThread, TypeOK, FirstLeft, FirstBack
<1>3. FirstLeft' = Len(done) + 1 /\ FirstBack' = Len(done) + 1
  BY <1>2 DEF FirstLeft, FirstBack
<1>4. /\ first["pending"] = (IF b < Len(asked) THEN asked[b + 1] ELSE Null)
      /\ last["pending"] = (IF b < Len(asked) THEN asked[Len(asked)] ELSE Null)
  BY DEF QueueAt, PendingEnds
<1>5. CASE HandleCommit
  <2>1. OneThread' /\ SentIsPrefix'
    BY <1>1, <1>2, <1>5 DEF HandleCommit, OneThread, SentIsPrefix, TypeOK
  <2>2. QueueAt(b)'
    BY <1>1, <1>2, <1>3, <1>4, <1>5 DEF HandleCommit, links, QueueAt, Split, PendingEnds,
       StateEnds, Linked, Forward, Backward, TypeOK
  <2> QED BY <2>1, <2>2, <1>2
<1>6. CASE TakeFrom
  <2>1. OneThread' /\ SentIsPrefix'
    BY <1>1, <1>2, <1>6 DEF TakeFrom, OneThread, SentIsPrefix, TypeOK
  <2>2. QueueAt(b)'
    BY <1>1, <1>2, <1>3, <1>4, <1>6 DEF TakeFrom, links, QueueAt, Split, PendingEnds,
       StateEnds, Linked, Forward, Backward, TypeOK
  <2> QED BY <2>1, <2>2, <1>2
<1>7. CASE LinkNext
  <2>1. last["state"] = asked[b] /\ first["pending"] = asked[b + 1] /\ Len(done) < b /\ b < Len(asked)
    BY <1>1, <1>2, <1>4, <1>7 DEF LinkNext, QueueAt, Split, StateEnds
  <2>2. /\ next' = [next EXCEPT ![asked[b]] = asked[b + 1]] /\ spc' = "linkPrevious" /\ crashed' = crashed
    BY <2>1, <1>1, <1>7 DEF LinkNext
  <2>3. OneThread' /\ SentIsPrefix'
    BY <1>1, <1>2, <1>7, <2>2 DEF LinkNext, OneThread, SentIsPrefix, TypeOK
  <2>4. Split(b)' /\ PendingEnds(b)' /\ StateEnds(b)'
    BY <1>1, <1>2, <1>3, <1>7, <2>1, <2>2 DEF LinkNext, QueueAt, Split, PendingEnds, StateEnds
  <2>5. Forward(Len(done) + 1, b) /\ Forward(b + 1, Len(asked))
    BY <1>7 DEF LinkNext, QueueAt, Linked
  <2>6. ASSUME NEW i \in (Len(done) + 1)..Len(asked)
        PROVE  next'[asked[i]] = IF i = Len(asked) THEN Null ELSE asked[i + 1]
    <3>1. i \in 1..Len(asked) /\ b \in 1..Len(asked) /\ asked[i] \in Callbacks
          /\ (i = b \/ i \in (Len(done) + 1)..b \/ i \in (b + 1)..Len(asked))
      BY <1>1, <2>1
    <3>2. next'[asked[i]] = IF asked[i] = asked[b] THEN asked[b + 1] ELSE next[asked[i]]
      BY <3>1, <2>2 DEF TypeOK
    <3>3. asked[i] = asked[b] <=> i = b
      BY <3>1, <1>1
    <3>4. i # b => next[asked[i]] = IF i = Len(asked) THEN Null ELSE asked[i + 1]
      BY <3>1, <2>1, <2>5 DEF Forward
    <3> QED BY <3>2, <3>3, <3>4, <2>1
  <2>7. Linked(b)'
    BY <2>2, <2>6, <1>2, <1>3, <1>7 DEF LinkNext, QueueAt, Linked, Forward, Backward
  <2> QED BY <2>3, <2>4, <2>7, <1>2 DEF QueueAt
<1>8. CASE LinkPrevious
  <2>1. last["state"] = asked[b] /\ first["pending"] = asked[b + 1] /\ Len(done) < b /\ b < Len(asked)
    BY <1>1, <1>2, <1>4, <1>8 DEF LinkPrevious, QueueAt, Split, StateEnds
  <2>2. /\ previous' = [previous EXCEPT ![asked[b + 1]] = asked[b]] /\ spc' = "extendLast"
    BY <2>1, <1>1, <1>8 DEF LinkPrevious
  <2>3. OneThread' /\ SentIsPrefix'
    BY <1>1, <1>2, <1>8, <2>2 DEF LinkPrevious, OneThread, SentIsPrefix, TypeOK
  <2>4. Split(b)' /\ PendingEnds(b)' /\ StateEnds(b)'
    BY <1>1, <1>2, <1>3, <1>8, <2>1, <2>2 DEF LinkPrevious, QueueAt, Split, PendingEnds,
       StateEnds
  <2>5. Backward(Len(done) + 1, b) /\ Backward(b + 1, Len(asked))
    BY <1>2, <1>8 DEF LinkPrevious, QueueAt, Linked
  <2>6. ASSUME NEW i \in (Len(done) + 1)..Len(asked)
        PROVE  previous'[asked[i]] = IF i = Len(done) + 1 THEN Null ELSE asked[i - 1]
    <3>1. i \in 1..Len(asked) /\ b + 1 \in 1..Len(asked) /\ asked[i] \in Callbacks
          /\ (i = b + 1 \/ i \in (Len(done) + 1)..b \/ i \in (b + 1)..Len(asked))
      BY <1>1, <2>1
    <3>2. previous'[asked[i]] = IF asked[i] = asked[b + 1] THEN asked[b] ELSE previous[asked[i]]
      BY <3>1, <2>2 DEF TypeOK
    <3>3. asked[i] = asked[b + 1] <=> i = b + 1
      BY <3>1, <1>1
    <3>4. i # b + 1 => previous[asked[i]] = IF i = Len(done) + 1 THEN Null ELSE asked[i - 1]
      BY <3>1, <2>1, <2>5 DEF Backward
    <3> QED BY <3>2, <3>3, <3>4, <2>1, <1>1
  <2>7. Linked(b)'
    BY <2>2, <2>6, <1>2, <1>3, <1>8 DEF LinkPrevious, QueueAt, Linked, Forward, Backward
  <2> QED BY <2>3, <2>4, <2>7, <1>2 DEF QueueAt
<1>9. CASE SetFirst
  <2>1. OneThread' /\ SentIsPrefix'
    BY <1>1, <1>2, <1>9 DEF SetFirst, OneThread, SentIsPrefix, TypeOK
  <2>2. Split(b)' /\ PendingEnds(b)' /\ StateEnds(b)'
    BY <1>1, <1>2, <1>3, <1>4, <1>9 DEF SetFirst, QueueAt, Split, PendingEnds, StateEnds, TypeOK
  <2>3. Len(done) = b /\ Forward(b + 1, Len(asked)) /\ Backward(b + 1, Len(asked))
    BY <1>2, <1>9 DEF SetFirst, QueueAt, Split, Linked
  <2>4. Linked(b)'
    BY <2>3, <1>2, <1>3, <1>9 DEF SetFirst, Linked, Forward, Backward
  <2> QED BY <2>1, <2>2, <2>4, <1>2 DEF QueueAt
<1>10. CASE SetLast
  <2>1. OneThread' /\ SentIsPrefix'
    BY <1>1, <1>2, <1>10, SMTT(20) DEF SetLast, OneThread, SentIsPrefix, TypeOK
  <2>2. Split(b)' /\ PendingEnds(b)' /\ StateEnds(b)'
    <3>1. Split(b)' /\ PendingEnds(b)'
      BY <1>1, <1>2, <1>4, <1>10 DEF SetLast, QueueAt, Split, PendingEnds, TypeOK
    <3>2. b < Len(asked) /\ Len(done) <= b /\ (spc = "extendLast" => Len(done) < b)
      BY <1>1, <1>10 DEF SetLast, QueueAt, Split
    <3>3. first["state"] = asked[Len(done) + 1]
      BY <3>2, <1>1, <1>2, <1>10 DEF SetLast, QueueAt, StateEnds
    <3>4. first' = first /\ last'["state"] = asked[Len(asked)] /\ spc' = "clear"
      BY <3>2, <1>4, <1>10 DEF SetLast, TypeOK
    <3> QED BY <3>1, <3>2, <3>3, <3>4, <1>1, <1>2, <1>3 DEF StateEnds
  <2>3. Linked(b)'
    BY <1>2, <1>3, <1>10 DEF SetLast, QueueAt, Linked, Forward, Backward
  <2> QED BY <2>1, <2>2, <2>3, <1>2 DEF QueueAt
<1>11. CASE Clear
  <2>1. OneThread' /\ SentIsPrefix'
    BY <1>1, <1>2, <1>11 DEF Clear, OneThread, SentIsPrefix, TypeOK
  <2>2. committed = Len(asked) /\ committed' = committed
    BY <1>11 DEF Clear, QueueAt, Split
  <2>3. Split(Len(asked))' /\ PendingEnds(Len(asked))' /\ StateEnds(Len(asked))'
    BY <1>1, <1>2, <1>3, <1>4, <1>11, <2>2 DEF Clear, QueueAt, Split, PendingEnds, StateEnds,
       SentIsPrefix, TypeOK
  <2>4. Linked(Len(asked))'
    <3>1. Forward(Len(done) + 1, Len(asked)) /\ Backward(Len(done) + 1, Len(asked))
      BY <1>11 DEF Clear, QueueAt, Linked
    <3>2. spc' = "idle" /\ UNCHANGED <<next, previous>>
      BY <1>11 DEF Clear
    <3>3. Forward(Len(done) + 1, Len(asked))' /\ Backward(Len(done) + 1, Len(asked))'
      BY <3>1, <3>2, <1>2 DEF Forward, Backward
    <3>4. Forward(Len(asked) + 1, Len(asked))' /\ Backward(Len(asked) + 1, Len(asked))'
      <4>1. Len(asked') = Len(asked) /\ \A i : i \notin (Len(asked) + 1)..Len(asked)
        BY <1>1, <1>2
      <4> QED BY <4>1 DEF Forward, Backward
    <3> QED BY <3>2, <3>3, <3>4, <1>2, <1>3 DEF Linked
  <2> QED BY <2>1, <2>3, <2>4, <1>1, <1>2 DEF QueueAt
<1> QED
  BY <1>5, <1>6, <1>7, <1>8, <1>9, <1>10, <1>11 DEF ServerStep

\* The window thread takes the first callback from the list in steps, and the server
\* thread is not there.
LEMMA WindowQueue ==
  ASSUME TypeOK, AskedOnce, OneThread, SentIsPrefix, NEW b \in 0..Len(asked), QueueAt(b), ~ limited,
         Pulse \/ Draw \/ WindowStep
  PROVE  OneThread' /\ SentIsPrefix' /\ b \in 0..Len(asked') /\ QueueAt(b)'
<1> USE NullAssumption DEF Lists
<1>0. Len(asked) \in Nat /\ Len(done) \in Nat /\ b \in Nat /\ b <= Len(asked)
  BY AskedFacts
<1>1. /\ DOMAIN asked = 1..Len(asked)
      /\ \A i \in 1..Len(asked) : asked[i] \in Callbacks /\ asked[i] # Null
      /\ \A i, j \in 1..Len(asked) : asked[i] = asked[j] => i = j
  BY AskedFacts
<1>2. UNCHANGED <<asked, committed, spc>> /\ spc = "idle"
  BY DEF Pulse, Draw, WindowStep, CallFrameCallbacks, Remove, RemoveFirst, RemoveLast, Unlink,
         links, OneThread, TypeOK
<1>3. b = committed /\ Len(done) <= b
  BY <1>2 DEF QueueAt, Split
<1>4. /\ first["state"] = IF FirstLeft <= b THEN asked[FirstLeft] ELSE Null
      /\ last["state"] = IF FirstBack <= b THEN asked[b] ELSE Null
      /\ Forward(Len(done) + 1, b) /\ Forward(b + 1, Len(asked))
      /\ Backward(FirstBack, b) /\ Backward(b + 1, Len(asked))
  BY <1>2 DEF QueueAt, StateEnds, Linked
<1>5. head # Null => Len(done) < b /\ head = asked[Len(done) + 1]
  BY <1>3 DEF SentIsPrefix
\* What is left to show when the links and what was sent stay as they are.
<1>6. ASSUME UNCHANGED <<first, last, next, previous, done>>, FirstLeft' = FirstLeft, FirstBack' = FirstBack
      PROVE  QueueAt(b)'
  BY <1>2, <1>6 DEF QueueAt, Split, PendingEnds, StateEnds, Linked, Forward, Backward
<1>7. CASE Pulse \/ Draw
  <2>1. OneThread' /\ SentIsPrefix'
    BY <1>7 DEF Pulse, Draw, links, OneThread, SentIsPrefix
  <2>2. QueueAt(b)'
    BY <1>6, <1>7 DEF Pulse, Draw, links, FirstLeft, FirstBack
  <2> QED BY <2>1, <2>2, <1>2
<1>8. CASE CallFrameCallbacks
  <2>1. FirstLeft = Len(done) + 1 /\ UNCHANGED <<first, last, next, previous, done, crashed>>
    BY <1>8 DEF CallFrameCallbacks, links, FirstLeft
  <2>2. OneThread'
    BY <1>2, <1>8 DEF CallFrameCallbacks, OneThread, TypeOK
  <2>3. SentIsPrefix'
    BY <2>1, <1>0, <1>2, <1>3, <1>4, <1>8 DEF CallFrameCallbacks, SentIsPrefix
  <2>4. QueueAt(b)'
    BY <2>1, <1>6, <1>8 DEF CallFrameCallbacks, FirstLeft, FirstBack
  <2> QED BY <2>2, <2>3, <2>4, <1>2
<1>9. CASE Remove
  <2>1. OneThread' /\ SentIsPrefix'
    BY <1>9 DEF Remove, links, OneThread, SentIsPrefix
  <2>2. QueueAt(b)'
    BY <1>6, <1>9 DEF Remove, links, FirstLeft, FirstBack
  <2> QED BY <2>1, <2>2, <1>2
<1>10. CASE RemoveFirst
  <2>1. FirstLeft = Len(done) + 1 /\ FirstLeft' = Len(done) + 2 /\ FirstBack' = FirstBack /\ done' = done
    BY <1>10 DEF RemoveFirst, FirstLeft, FirstBack
  <2>2. head = asked[Len(done) + 1] /\ Len(done) < b /\ head = first["state"]
    BY <2>1, <1>0, <1>4, <1>5, <1>10 DEF RemoveFirst, TypeOK
  <2>3. UNCHANGED <<last, next, previous, crashed, lock, head>> /\ first' = [first EXCEPT !["state"] = next[head]]
        /\ wpc = "removeFirst" /\ wpc' = "removeLast"
    BY <2>2, <1>10 DEF RemoveFirst, OneThread
  <2>4. next[head] = IF Len(done) + 2 <= b THEN asked[Len(done) + 2] ELSE Null
    <3>1. Len(done) + 1 \in (Len(done) + 1)..b /\ (Len(done) + 1 = b <=> ~ (Len(done) + 2 <= b))
            /\ (Len(done) + 1) + 1 = Len(done) + 2
      BY <2>2, <1>0
    <3> QED BY <3>1, <2>2, <1>4 DEF Forward
  <2>5. first'["state"] = next[head] /\ first'["pending"] = first["pending"]
    BY <2>3 DEF TypeOK
  <2>6. OneThread' /\ SentIsPrefix'
    BY <2>1, <2>3, <1>2 DEF OneThread, SentIsPrefix
  <2>7. Split(b)' /\ PendingEnds(b)'
    BY <2>1, <2>3, <2>5, <1>2 DEF QueueAt, Split, PendingEnds
  <2>8. StateEnds(b)'
    BY <2>1, <2>3, <2>4, <2>5, <1>2, <1>4 DEF StateEnds
  <2>9. Linked(b)'
    BY <2>1, <2>3, <1>2 DEF QueueAt, Linked, Forward, Backward
  <2> QED BY <2>6, <2>7, <2>8, <2>9, <1>2 DEF QueueAt
<1>11. CASE RemoveLast
  <2>1. /\ FirstBack = Len(done) + 1 /\ FirstBack' = Len(done) + 2 /\ FirstLeft' = FirstLeft
        /\ UNCHANGED <<first, next, done, head, lock>> /\ wpc = "removeLast" /\ wpc' = "unlink"
    BY <1>11 DEF RemoveLast, FirstLeft, FirstBack
  <2>2. head = asked[Len(done) + 1] /\ Len(done) < b /\ last["state"] = asked[b] /\ head # Null
    BY <2>1, <1>0, <1>4, <1>5 DEF TypeOK
  <2>3. Len(done) + 1 \in 1..Len(asked) /\ b \in 1..Len(asked) /\ Len(done) + 1 \in (Len(done) + 1)..b
    BY <2>2, <1>0
  <2>4. previous[head] = Null /\ next[head] = IF Len(done) + 1 = b THEN Null ELSE asked[Len(done) + 2]
    <3>1. (Len(done) + 1) + 1 = Len(done) + 2
      BY <1>0
    <3> QED BY <2>1, <2>2, <2>3, <3>1, <1>4 DEF Forward, Backward
  <2>5. SentIsPrefix' /\ Split(b)'
    BY <2>1, <1>2 DEF QueueAt, SentIsPrefix, Split
  <2>6. CASE Len(done) + 1 = b
    <3>1. UNCHANGED <<previous, crashed>> /\ last' = [last EXCEPT !["state"] = Null]
      BY <2>2, <2>4, <2>6, <1>11 DEF RemoveLast, OneThread
    <3>2. last'["state"] = Null /\ last'["pending"] = last["pending"]
      BY <3>1 DEF TypeOK
    <3>3. PendingEnds(b)' /\ StateEnds(b)'
      <4>1. ~ (Len(done) + 2 <= b)
        BY <2>6, <1>0
      <4> QED BY <4>1, <3>2, <2>1, <1>2, <1>4 DEF QueueAt, PendingEnds, StateEnds
    <3>4. Linked(b)'
      <4>1. \A i : i \notin (Len(done) + 2)..b
        BY <2>6, <1>0
      <4>2. Backward(Len(done) + 2, b)'
        BY <4>1, <2>1 DEF Backward
      <4> QED BY <4>2, <3>1, <2>1, <1>2, <1>4 DEF Linked, Forward, Backward
    <3> QED BY <3>1, <3>3, <3>4, <2>1, <2>5, <1>2 DEF QueueAt, OneThread
  <2>7. CASE Len(done) + 1 # b
    <3>1. Len(done) + 2 \in 1..Len(asked) /\ Len(done) + 2 <= b
      BY <2>2, <2>7, <1>0
    <3>2. head # last["state"] /\ next[head] = asked[Len(done) + 2] /\ next[head] # Null
      BY <3>1, <2>2, <2>3, <2>4, <2>7, <1>1
    <3>3. last' = last /\ ~ crashed' /\ previous' = [previous EXCEPT ![asked[Len(done) + 2]] = Null]
      BY <3>2, <2>4, <1>11 DEF RemoveLast, OneThread
    <3>4. \A i \in 1..Len(asked) :
            previous'[asked[i]] = IF i = Len(done) + 2 THEN Null ELSE previous[asked[i]]
      BY <3>1, <3>3, <1>1 DEF TypeOK
    <3>5. PendingEnds(b)' /\ StateEnds(b)'
      BY <3>1, <3>3, <2>1, <2>2, <1>2, <1>4 DEF QueueAt, PendingEnds, StateEnds
    <3>6. ASSUME NEW i \in (Len(done) + 2)..b
          PROVE  previous'[asked[i]] = IF i = Len(done) + 2 THEN Null ELSE asked[i - 1]
      <4>1. i \in 1..Len(asked) /\ i \in (Len(done) + 1)..b /\ i # Len(done) + 1
        BY <1>0
      <4> QED BY <4>1, <3>4, <2>1, <1>4 DEF Backward
    <3>7. ASSUME NEW i \in (b + 1)..Len(asked)
          PROVE  previous'[asked[i]] = IF i = b + 1 THEN Null ELSE asked[i - 1]
      <4>1. i \in 1..Len(asked) /\ i # Len(done) + 2
        BY <3>1, <1>0
      <4> QED BY <4>1, <3>4, <1>4 DEF Backward
    <3>8. Linked(b)'
      BY <3>6, <3>7, <2>1, <1>2, <1>4 DEF Linked, Forward, Backward
    <3> QED BY <3>3, <3>5, <3>8, <2>1, <2>5, <1>2 DEF QueueAt, OneThread
  <2> QED BY <2>6, <2>7
<1>12. CASE Unlink
  <2>1. head = asked[Len(done) + 1] /\ Len(done) < b /\ head \in Callbacks
    BY <1>5, <1>12 DEF Unlink, TypeOK, Pointers
  <2>2. /\ wpc = "unlink" /\ wpc' = "isEmpty" /\ head' = Null /\ UNCHANGED <<first, last, lock, crashed>>
        /\ next' = [next EXCEPT ![head] = Null] /\ previous' = [previous EXCEPT ![head] = Null]
        /\ done' = Append(done, head)
    BY <1>12 DEF Unlink
  <2>3. Len(done') = Len(done) + 1 /\ \A i \in 1..Len(done') : done'[i] = IF i = Len(done) + 1 THEN head ELSE done[i]
    BY <2>2 DEF TypeOK
  <2>4. FirstLeft = Len(done) + 2 /\ FirstBack = Len(done) + 2
        /\ FirstLeft' = Len(done) + 2 /\ FirstBack' = Len(done) + 2
    BY <2>2, <2>3, <1>0 DEF FirstLeft, FirstBack
  <2>5. OneThread'
    BY <2>2 DEF OneThread
  <2>6. SentIsPrefix'
    <3>1. \A i \in 1..Len(done') : i = Len(done) + 1 \/ i \in 1..Len(done)
      BY <2>3, <1>0
    <3>2. \A i \in 1..Len(done') : done'[i] = asked[i]
      BY <3>1, <2>1, <2>3 DEF SentIsPrefix
    <3> QED BY <3>2, <2>1, <2>2, <2>3, <1>0, <1>2, <1>3 DEF SentIsPrefix
  <2>7. Split(b)' /\ PendingEnds(b)' /\ StateEnds(b)'
    BY <2>1, <2>2, <2>3, <2>4, <1>0, <1>2, <1>4 DEF QueueAt, Split, PendingEnds, StateEnds
  <2>8. \A i \in 1..Len(asked) : i # Len(done) + 1 =>
           next'[asked[i]] = next[asked[i]] /\ previous'[asked[i]] = previous[asked[i]]
    <3>1. Len(done) + 1 \in 1..Len(asked)
      BY <2>1, <1>0
    <3> QED BY <3>1, <2>1, <2>2, <1>1 DEF TypeOK
  <2>9. ASSUME NEW i \in (Len(done) + 2)..b
        PROVE  /\ next'[asked[i]] = IF i = b THEN Null ELSE asked[i + 1]
               /\ previous'[asked[i]] = IF i = Len(done) + 2 THEN Null ELSE asked[i - 1]
    <3>1. i \in 1..Len(asked) /\ i \in (Len(done) + 1)..b /\ i # Len(done) + 1
      BY <1>0
    <3> QED BY <3>1, <2>4, <2>8, <1>4 DEF Forward, Backward
  <2>10. ASSUME NEW i \in (b + 1)..Len(asked)
         PROVE  /\ next'[asked[i]] = IF i = Len(asked) THEN Null ELSE asked[i + 1]
                /\ previous'[asked[i]] = IF i = b + 1 THEN Null ELSE asked[i - 1]
    <3>1. i \in 1..Len(asked) /\ i # Len(done) + 1
      BY <2>1, <1>0
    <3> QED BY <3>1, <2>8, <1>4 DEF Forward, Backward
  <2>11. Len(done') + 1 = Len(done) + 2
    BY <2>3, <1>0
  <2>12. Linked(b)'
    BY <2>4, <2>9, <2>10, <2>11, <1>2 DEF Linked, Forward, Backward
  <2> QED BY <2>5, <2>6, <2>7, <2>12, <1>2 DEF QueueAt
<1> QED
  BY <1>7, <1>8, <1>9, <1>10, <1>11, <1>12 DEF WindowStep

\* Both threads keep the lists a queue, as long as Draw sends the callbacks.
LEMMA NextQueue == TypeOK /\ OrderInv /\ ListsAreQueue /\ [Next]_vars => ListsAreQueue'
<1> SUFFICES ASSUME TypeOK, OrderInv, ListsAreQueue, [Next]_vars, ~ limited' PROVE ListsAreQueue'
  BY DEF ListsAreQueue
<1>1. UNCHANGED limited
  BY DEF Next, vars, ServerStep, HandleCommit, TakeFrom, LinkNext, LinkPrevious, SetFirst,
     SetLast,
         Clear, Pulse, Draw, WindowStep, CallFrameCallbacks, Remove, RemoveFirst, RemoveLast,
         Unlink, HandleFrame
<1>2. PICK b \in 0..Len(asked) : QueueAt(b)
  BY <1>1 DEF ListsAreQueue
<1>3. ~ limited /\ OneThread /\ SentIsPrefix
  BY <1>1 DEF ListsAreQueue
<1>4. AskedOnce /\ AskedOnce'
  BY NextOrderInv DEF OrderInv
<1>5. ASSUME NEW c \in Callbacks, HandleFrame(c) PROVE ListsAreQueue'
  BY <1>2, <1>3, <1>4, <1>5, HandleFrameQueue DEF ListsAreQueue
<1>6. CASE ServerStep
  BY <1>2, <1>3, <1>4, <1>6, ServerQueue DEF ListsAreQueue
<1>7. CASE Pulse \/ Draw \/ WindowStep
  BY <1>2, <1>3, <1>4, <1>7, WindowQueue DEF ListsAreQueue
<1>8. CASE UNCHANGED vars
  BY <1>8 DEF vars, links, ListsAreQueue, OneThread, SentIsPrefix, QueueAt, Split, PendingEnds,
     StateEnds, Linked, Forward, Backward, FirstLeft, FirstBack
<1> QED
  BY <1>5, <1>6, <1>7, <1>8 DEF Next

-----------------------------------------------------------------------------
(* The theorems.                                                            *)

\* The types of the lists, their links and the two threads, which own the lock, and the
\* element that is being removed, exactly where they say.
THEOREM TypeCorrect == Spec => []TypeOK
  BY InitTypeOK, NextTypeOK, PTL DEF Spec

\* The inductive invariant holds of any callbacks, in every state of both threads.
THEOREM Invariance == Spec => []IInv
<1>1. Init => IInv
  BY InitTypeOK, InitOrderInv, InitQueue DEF IInv
<1>2. IInv /\ [Next]_vars => IInv'
  BY NextTypeOK, NextOrderInv, NextQueue DEF IInv
<1> QED
  BY <1>1, <1>2, PTL DEF Spec

\* Where Draw sends the callbacks, under the lock, the assert of Remove never fails
\* (util/DoublyLinkedList.h:512-513) and no null pointer is followed, for any number of
\* callbacks: only Pulse can damage the lists.
THEOREM SoundUnderLockCorrect == Spec => []SoundUnderLock
<1>1. IInv => SoundUnderLock
  <2>0. IInv /\ ~ limited => ~ crashed
    BY DEF IInv, ListsAreQueue, OneThread
  <2> SUFFICES ASSUME IInv, ~ limited, wpc = "remove"
               PROVE  first["state"] # Null /\ last["state"] # Null /\ head = first["state"]
    BY <2>0 DEF SoundUnderLock, RemoveAssertHolds
  <2>1. TypeOK /\ AskedOnce /\ OneThread /\ SentIsPrefix
    BY DEF IInv, OrderInv, ListsAreQueue
  <2>2. PICK b \in 0..Len(asked) : QueueAt(b)
    BY DEF IInv, ListsAreQueue
  <2>3. spc = "idle" /\ head # Null
    BY <2>1 DEF TypeOK, OneThread
  <2>4. Len(done) < b /\ head = asked[Len(done) + 1] /\ b = committed
    BY <2>1, <2>2, <2>3 DEF SentIsPrefix, QueueAt, Split
  <2>5. Len(asked) \in Nat /\ Len(done) \in Nat /\ \A i \in 1..Len(asked) : asked[i] # Null
    BY <2>1, AskedFacts
  <2>6. FirstLeft = Len(done) + 1 /\ FirstBack = Len(done) + 1
    BY DEF FirstLeft, FirstBack
  <2> QED
    BY <2>2, <2>3, <2>4, <2>5, <2>6 DEF QueueAt, StateEnds
<1> QED
  BY <1>1, Invariance, PTL

-----------------------------------------------------------------------------
(* The refinement.                                                          *)

\* A step of either thread is a step of the queue, or leaves it alone.
LEMMA NextImplementsQueue ==
  ASSUME IInv, [Next]_vars
  PROVE  [AsQueue!Next]_<<IF limited THEN <<>> ELSE asked, IF limited THEN 0 ELSE committed,
                          IF limited THEN <<>> ELSE done>>
<1> USE DEF AsQueue!Next
<1>1. UNCHANGED limited
  BY DEF Next, vars, ServerStep, HandleCommit, TakeFrom, LinkNext, LinkPrevious, SetFirst,
     SetLast,
         Clear, Pulse, Draw, WindowStep, CallFrameCallbacks, Remove, RemoveFirst, RemoveLast,
         Unlink, HandleFrame
<1>2. CASE limited
  BY <1>1, <1>2
<1> SUFFICES ASSUME ~ limited PROVE AsQueue!Next \/ UNCHANGED <<asked, committed, done>>
  BY <1>1, <1>2
<1>3. ASSUME NEW c \in Callbacks, HandleFrame(c) PROVE AsQueue!Ask(c)
  BY <1>1, <1>3 DEF HandleFrame, Insert, AsQueue!Ask
<1>4. CASE HandleCommit
  <2>1. PICK b \in 0..Len(asked) : QueueAt(b)
    BY DEF IInv, ListsAreQueue
  <2>2. b = committed /\ b < Len(asked)
    BY <2>1, <1>4 DEF HandleCommit, QueueAt, Split, PendingEnds
  <2> QED BY <2>2, <1>1, <1>4 DEF HandleCommit, AsQueue!Commit
<1>5. CASE Unlink
  <2>1. Len(done) < committed /\ head = asked[Len(done) + 1]
    BY <1>5 DEF Unlink, IInv, TypeOK, ListsAreQueue, SentIsPrefix
  <2> QED BY <2>1, <1>1, <1>5 DEF Unlink, AsQueue!Send
<1>6. CASE \/ TakeFrom \/ LinkNext \/ LinkPrevious \/ SetFirst \/ SetLast \/ Clear \/ Pulse \/ Draw
           \/ CallFrameCallbacks \/ Remove \/ RemoveFirst \/ RemoveLast \/ UNCHANGED vars
  BY <1>6 DEF TakeFrom, LinkNext, LinkPrevious, SetFirst, SetLast, Clear, Pulse, Draw,
              CallFrameCallbacks, Remove, RemoveFirst, RemoveLast, vars
<1> QED
  BY <1>3, <1>4, <1>5, <1>6 DEF Next, ServerStep, WindowStep

\* The lists are a queue where Draw sends the callbacks: each is sent once, after its commit,
\* in the order of the requests, and none is left out (HaikuCompositor.cpp:392-399, 494-496).
THEOREM ImplementsQueueCorrect == Spec => ImplementsQueue
<1>1. Init => AsQueue!Init
  BY DEF Init, AsQueue!Init
<1>2. IInv /\ [Next]_vars
        => [AsQueue!Next]_<<IF limited THEN <<>> ELSE asked, IF limited THEN 0 ELSE committed,
                            IF limited THEN <<>> ELSE done>>
  BY NextImplementsQueue
<1> QED
  BY <1>1, <1>2, Invariance, PTL DEF Spec, ImplementsQueue, AsQueue!Spec
=============================================================================
