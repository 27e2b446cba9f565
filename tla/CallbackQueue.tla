---------------------------- MODULE CallbackQueue ----------------------------
(***************************************************************************)
(* What a client may rely on of the frame callbacks of one surface: each    *)
(* waits for the commit after the request, and they are then sent one by   *)
(* one, in the order they were asked for, and none is left out.            *)
(* FrameCallbacks implements it.                                           *)
(***************************************************************************)
EXTENDS Naturals, Sequences

CONSTANT Callbacks

VARIABLES
  asked,        \* all that were asked for, in order
  committed,    \* how many of these have been committed
  sent

Init == asked = <<>> /\ committed = 0 /\ sent = <<>>

Ask(c) ==
  /\ \A i \in DOMAIN asked : asked[i] # c
  /\ asked' = Append(asked, c)
  /\ UNCHANGED <<committed, sent>>

Commit ==
  /\ committed < Len(asked)
  /\ committed' = Len(asked)
  /\ UNCHANGED <<asked, sent>>

Send ==
  /\ Len(sent) < committed
  /\ sent' = Append(sent, asked[Len(sent) + 1])
  /\ UNCHANGED <<asked, committed>>

Next == (\E c \in Callbacks : Ask(c)) \/ Commit \/ Send

Spec == Init /\ [][Next]_<<asked, committed, sent>>
=============================================================================
