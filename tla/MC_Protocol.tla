---------------------------- MODULE MC_Protocol ----------------------------
(* Instances of Protocol and Rpc for TLC.                                   *)
EXTENDS Rpc

\* longer than the limit, with something like a packet behind it
LongPayloads == UNION {[1..n -> {1, 2, Begin}] : n \in 0..4}

\* Function 0 without a parameter and to be answered, function 1 with the one it
\* takes.  A payload without a header, or with half of one, is sent in pieces:
\* that is a probe.
Requests == {<<0, 1>>, <<1, 2, Escape>>}

\* function 0 takes up to one byte, function 1 exactly one
OneByte == [f \in {0, 1} |-> 1]

\* nothing to tell, or a byte
MayTell == [f \in {0, 1} |-> {<<>>, <<End>>}]
=============================================================================
