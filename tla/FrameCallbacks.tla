--------------------------- MODULE FrameCallbacks ---------------------------
(***************************************************************************)
(* The frame callbacks of a surface (HaikuCompositor.cpp), on the intrusive *)
(* lists that hold them (util/DoublyLinkedList.h), one statement at a time. *)
(*                                                                         *)
(* The server thread queues callbacks in the pending state and moves them  *)
(* to the current state at a commit.  The window thread answers them: from *)
(* Pulse, which does not take the server's lock, or, when the environment  *)
(* disables the frame rate limit, from Draw, which does (WaylandEnv).      *)
(***************************************************************************)
EXTENDS Naturals, Sequences

CONSTANTS
  Callbacks,        \* wl_callback objects, each made by one frame request
  Null              \* the null pointer

ASSUME NullAssumption == Null \notin Callbacks

Lists == {"pending", "state"}   \* fPendingState.frameCallbacks, fState.frameCallbacks
Pointers == Callbacks \cup {Null}

VARIABLES
  first, last,      \* fFirst and fLast of each list
  next, previous,   \* the link in each callback
  spc,              \* the server thread, in TakeFrom
  wpc,              \* the window thread, in CallFrameCallbacks
  head,             \* its local: the element RemoveHead is removing
  lock,             \* who owns the server's lock
  limited,          \* ~ fFramerateLimitDisabled, as the environment says
  invalid,          \* the app_server wants the view redrawn
  asked,            \* the callbacks the client asked for, in order
  committed,        \* how many of them it has committed
  done,             \* the callbacks that were sent, in order
  crashed           \* a null pointer was followed

links == <<first, last, next, previous>>
vars == <<links, spc, wpc, head, lock, limited, invalid, asked, committed, done, crashed>>

ServerPCs == {"idle", "takeFrom", "linkNext", "linkPrevious", "extendLast",
              "setFirst", "setLast", "clear"}
WindowPCs == {"idle", "isEmpty", "remove", "removeFirst", "removeLast", "unlink"}

TypeOK ==
  /\ first \in [Lists -> Pointers] /\ last \in [Lists -> Pointers]
  /\ next \in [Callbacks -> Pointers] /\ previous \in [Callbacks -> Pointers]
  /\ spc \in ServerPCs /\ wpc \in WindowPCs
  /\ head \in Pointers
  /\ lock \in {"free", "server", "window"}
  /\ limited \in BOOLEAN /\ invalid \in BOOLEAN
  /\ asked \in Seq(Callbacks) /\ done \in Seq(Callbacks)
  /\ committed \in 0..Len(asked)
  /\ crashed \in BOOLEAN
  /\ lock = "server" <=> spc # "idle"
  /\ head = Null <=> wpc \in {"idle", "isEmpty"}

Init ==
  /\ first = [l \in Lists |-> Null] /\ last = [l \in Lists |-> Null]
  /\ next = [c \in Callbacks |-> Null] /\ previous = [c \in Callbacks |-> Null]
  /\ spc = "idle" /\ wpc = "idle"
  /\ head = Null
  /\ lock = "free"
  /\ limited \in BOOLEAN
  /\ invalid = FALSE
  /\ asked = <<>> /\ committed = 0 /\ done = <<>>
  /\ crashed = FALSE

-----------------------------------------------------------------------------
(* The server thread.                                                       *)

\* At the back of the pending list.
Insert(c) ==
  /\ previous' = [previous EXCEPT ![c] = last["pending"]]
  /\ next' = [x \in Callbacks |-> IF x = c THEN Null
                                  ELSE IF x = last["pending"] THEN c
                                  ELSE next[x]]
  /\ first' = [first EXCEPT !["pending"] = IF @ = Null THEN c ELSE @]
  /\ last' = [last EXCEPT !["pending"] = c]

\* The pending list is used by no other thread.
HandleFrame(c) ==
  /\ spc = "idle" /\ lock = "free" /\ ~ crashed
  /\ \A i \in DOMAIN asked : asked[i] # c
  /\ asked' = Append(asked, c)
  /\ Insert(c)
  /\ UNCHANGED <<limited, spc, wpc, head, lock, invalid, committed, done, crashed>>

\* HandleCommit: fState.frameCallbacks.TakeFrom(&fPendingState.frameCallbacks).
HandleCommit ==
  /\ spc = "idle" /\ lock = "free" /\ ~ crashed
  /\ first["pending"] # Null
  /\ lock' = "server"
  /\ committed' = Len(asked)
  /\ spc' = "takeFrom"
  /\ UNCHANGED <<limited, links, wpc, head, invalid, asked, done, crashed>>

\* Fault: what the list held is overwritten.
TakeFromOver ==
  /\ spc = "takeFrom" /\ ~ crashed
  /\ spc' = "setFirst"
  /\ UNCHANGED <<limited, links, wpc, head, lock, invalid, asked, committed, done, crashed>>

TakeFrom ==
  /\ spc = "takeFrom" /\ ~ crashed
  /\ spc' = IF first["state"] # Null THEN "linkNext" ELSE "setFirst"
  /\ UNCHANGED <<limited, links, wpc, head, lock, invalid, asked, committed, done, crashed>>

LinkNext ==
  /\ spc = "linkNext" /\ ~ crashed
  /\ IF last["state"] = Null
     THEN crashed' = TRUE /\ UNCHANGED <<next, spc>>
     ELSE /\ next' = [next EXCEPT ![last["state"]] = first["pending"]]
          /\ spc' = "linkPrevious"
          /\ UNCHANGED crashed
  /\ UNCHANGED <<limited, first, last, previous, wpc, head, lock, invalid, asked, committed, done>>

LinkPrevious ==
  /\ spc = "linkPrevious" /\ ~ crashed
  /\ previous' = [previous EXCEPT ![first["pending"]] = last["state"]]
  /\ spc' = "extendLast"
  /\ UNCHANGED <<limited, first, last, next, wpc, head, lock, invalid, asked, committed, done, crashed>>

SetFirst ==
  /\ spc = "setFirst" /\ ~ crashed
  /\ first' = [first EXCEPT !["state"] = first["pending"]]
  /\ spc' = "setLast"
  /\ UNCHANGED <<limited, last, next, previous, wpc, head, lock, invalid, asked, committed, done, crashed>>

SetLast ==
  /\ spc \in {"extendLast", "setLast"} /\ ~ crashed
  /\ last' = [last EXCEPT !["state"] = last["pending"]]
  /\ spc' = "clear"
  /\ UNCHANGED <<limited, first, next, previous, wpc, head, lock, invalid, asked, committed, done, crashed>>

\* Fault: the pending list keeps the callbacks it gave away.
ClearNot ==
  /\ spc = "clear" /\ ~ crashed
  /\ spc' = "idle"
  /\ lock' = "free"
  /\ \E damaged \in BOOLEAN : invalid' = (invalid \/ damaged)
  /\ UNCHANGED <<limited, links, wpc, head, asked, committed, done, crashed>>

\* The pending list is emptied.  The commit then invalidates what was damaged, and
\* ends with the request.
Clear ==
  /\ spc = "clear" /\ ~ crashed
  /\ first' = [first EXCEPT !["pending"] = Null]
  /\ last' = [last EXCEPT !["pending"] = Null]
  /\ spc' = "idle"
  /\ lock' = "free"
  /\ \E damaged \in BOOLEAN : invalid' = (invalid \/ damaged)
  /\ UNCHANGED <<limited, next, previous, wpc, head, asked, committed, done, crashed>>

-----------------------------------------------------------------------------
(* The window thread.                                                       *)

Pulse ==
  /\ limited
  /\ wpc = "idle" /\ ~ crashed
  /\ wpc' = "isEmpty"
  /\ UNCHANGED <<limited, links, spc, head, lock, invalid, asked, committed, done, crashed>>

\* Fault: the callbacks are sent without the lock.
DrawUnlocked ==
  /\ ~ limited
  /\ wpc = "idle" /\ invalid /\ ~ crashed
  /\ invalid' = FALSE
  /\ wpc' = "isEmpty"
  /\ UNCHANGED <<limited, links, spc, head, lock, asked, committed, done, crashed>>

Draw ==
  /\ ~ limited
  /\ wpc = "idle" /\ lock = "free" /\ invalid /\ ~ crashed
  /\ invalid' = FALSE
  /\ lock' = "window"
  /\ wpc' = "isEmpty"
  /\ UNCHANGED <<limited, links, spc, head, asked, committed, done, crashed>>

\* while (!frameCallbacks.IsEmpty()), and the read of Head() in RemoveHead.
CallFrameCallbacks ==
  /\ wpc = "isEmpty" /\ ~ crashed
  /\ IF first["state"] = Null
     THEN /\ wpc' = "idle"
          /\ lock' = IF lock = "window" THEN "free" ELSE lock
          /\ UNCHANGED head
     ELSE /\ wpc' = "remove"
          /\ head' = first["state"]
          /\ UNCHANGED lock
  /\ UNCHANGED <<limited, links, spc, invalid, asked, committed, done, crashed>>

\* The entry of Remove, where it asserts that its list is sound.
Remove ==
  /\ wpc = "remove" /\ ~ crashed
  /\ wpc' = "removeFirst"
  /\ UNCHANGED <<limited, links, spc, head, lock, invalid, asked, committed, done, crashed>>

RemoveFirst ==
  /\ wpc = "removeFirst" /\ ~ crashed
  /\ IF head = first["state"]
     THEN /\ first' = [first EXCEPT !["state"] = next[head]]
          /\ UNCHANGED <<next, crashed>>
     ELSE /\ crashed' = (previous[head] = Null)
          /\ next' = IF previous[head] = Null THEN next
                     ELSE [next EXCEPT ![previous[head]] = next[head]]
          /\ UNCHANGED first
  /\ wpc' = "removeLast"
  /\ UNCHANGED <<limited, last, previous, spc, head, lock, invalid, asked, committed, done>>

RemoveLast ==
  /\ wpc = "removeLast" /\ ~ crashed
  /\ IF head = last["state"]
     THEN /\ last' = [last EXCEPT !["state"] = previous[head]]
          /\ UNCHANGED <<previous, crashed>>
     ELSE /\ crashed' = (next[head] = Null)
          /\ previous' = IF next[head] = Null THEN previous
                         ELSE [previous EXCEPT ![next[head]] = previous[head]]
          /\ UNCHANGED last
  /\ wpc' = "unlink"
  /\ UNCHANGED <<limited, first, next, spc, head, lock, invalid, asked, committed, done>>

\* Fault: one callback is sent, not all.
UnlinkOne ==
  /\ wpc = "unlink" /\ ~ crashed
  /\ next' = [next EXCEPT ![head] = Null]
  /\ previous' = [previous EXCEPT ![head] = Null]
  /\ done' = Append(done, head)
  /\ head' = Null
  /\ wpc' = "idle"
  /\ lock' = IF lock = "window" THEN "free" ELSE lock
  /\ UNCHANGED <<limited, first, last, spc, invalid, asked, committed, crashed>>

\* The links of the element are cleared; it is sent and destroyed.
Unlink ==
  /\ wpc = "unlink" /\ ~ crashed
  /\ next' = [next EXCEPT ![head] = Null]
  /\ previous' = [previous EXCEPT ![head] = Null]
  /\ done' = Append(done, head)
  /\ head' = Null
  /\ wpc' = "isEmpty"
  /\ UNCHANGED <<limited, first, last, spc, lock, invalid, asked, committed, crashed>>

ServerStep == HandleCommit \/ TakeFrom \/ LinkNext \/ LinkPrevious \/ SetFirst
                \/ SetLast \/ Clear

WindowStep == CallFrameCallbacks \/ Remove \/ RemoveFirst \/ RemoveLast \/ Unlink

Next == \/ \E c \in Callbacks : HandleFrame(c)
        \/ ServerStep
        \/ Pulse \/ Draw
        \/ WindowStep

Spec == Init /\ [][Next]_vars

\* A thread that can run does; the server's lock serves its waiters in turn.
FairSpec == /\ Spec
            /\ WF_vars(ServerStep) /\ WF_vars(WindowStep)
            /\ SF_vars(Draw)

-----------------------------------------------------------------------------
(* Properties.                                                              *)

\* As long as Draw sends the callbacks.  A commit takes effect as a whole when TakeFrom is
\* entered, and a callback when it is sent, though its list has let go of it before.  Where
\* Pulse sends them, the lists may stand for nothing.
AsQueue == INSTANCE CallbackQueue WITH
  asked <- IF limited THEN <<>> ELSE asked,
  committed <- IF limited THEN 0 ELSE committed,
  sent <- IF limited THEN <<>> ELSE done

\* The lists, linked and unlinked one pointer at a time by the two threads, are a queue: each
\* callback is sent once, after the commit that follows its request, in the order of the
\* requests, and none is left out (HaikuCompositor.cpp:392-399, 494-496).
ImplementsQueue == AsQueue!Spec

\* What Remove asserts when it is entered (util/DoublyLinkedList.h:512-513).
RemoveAssertHolds ==
  wpc = "remove" => /\ first["state"] # Null /\ last["state"] # Null
                    /\ first["state"] # last["state"] \/ head = first["state"]

\* Where Draw sends the callbacks it never finds a list half spliced, nor does TakeFrom one
\* half unlinked: the assert of Remove holds and no list operation follows a null pointer,
\* through any number of commits and frames (HaikuCompositor.cpp:230-273, 494-496).
SoundUnderLock == ~ limited => RemoveAssertHolds /\ ~ crashed

\* No callback is sent twice, nor one that was not committed, even where the two threads
\* disturb each other's operations: a client would take either for a protocol error.
SentAtMostOnce ==
  /\ \A i, j \in DOMAIN done : done[i] = done[j] => i = j
  /\ \A i \in DOMAIN done : \E j \in 1..committed : done[i] = asked[j]

\* Without the frame rate limit a callback is sent in the end if something was damaged
\* since it was committed: no later commit puts it off or strands it in a list.
CallbacksAreSent ==
  \A c \in Callbacks :
    ~ limited /\ invalid /\ (\E i \in 1..committed : asked[i] = c)
      ~> (\E i \in DOMAIN done : done[i] = c)

=============================================================================
