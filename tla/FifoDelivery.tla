---------------------------- MODULE FifoDelivery ----------------------------
(***************************************************************************)
(* What the message pump promises to the code that posts and receives,     *)
(* without slots, reference counts, ring indices or interrupts: a message  *)
(* that was accepted is delivered exactly once, in the order of posting,   *)
(* with the payload it was posted with, and the payload does not change    *)
(* while its receivers run.                                                *)
(***************************************************************************)
EXTENDS Sequences

CONSTANTS Message, NoMessage

VARIABLES pending,   \* accepted and not yet delivered, oldest first
          current    \* the message whose receivers are running

vars == <<pending, current>>

Init == pending = <<>> /\ current = NoMessage

\* A producer posts a message and the post succeeds.
Accept == \E m \in Message : pending' = Append(pending, m) /\ UNCHANGED current

Deliver == /\ current = NoMessage /\ pending # <<>>
           /\ current' = Head(pending)
           /\ pending' = Tail(pending)

Finish == current # NoMessage /\ current' = NoMessage /\ UNCHANGED pending

Next == Accept \/ Deliver \/ Finish

\* The safety part, and the promise that delivery goes on while there is
\* something to deliver.
Spec     == Init /\ [][Next]_vars
LiveSpec == Spec /\ WF_vars(Deliver) /\ WF_vars(Finish)
=============================================================================
