----------------------------- MODULE MC_MsgPump -----------------------------
(* Instances of the message pump for TLC.                                  *)
EXTENDS MsgPump, TLC

CONSTANTS a, b, c1, c2, d1, d2

\* Two messages with a pool of one slot each.
TwoMsgId     == {a, b}
TwoMsgAmount == (a :> 1) @@ (b :> 1)

\* One message with a pool of two slots.
OneMsgId     == {a}
OneMsgAmount == a :> 2
=============================================================================
