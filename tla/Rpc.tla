-------------------------------- MODULE Rpc --------------------------------
(***************************************************************************)
(* Remote procedure calls: what becomes of a packet that the receiver of   *)
(* Protocol posts.  The main thread gives it to the packet dispatcher      *)
(* (protocol/genericFlawLessProtocolPacketDispatcher.c), which calls       *)
(* rpcEndPoint (rpc/RPC.c) for the packets of its sub protocol, and that   *)
(* calls the function the packet names.  Neither has state of its own:     *)
(* what they do is a function of the buffer that was posted.               *)
(*                                                                         *)
(* The only end point of the build is rpcEndPoint: NO_LOG_OUTPUT leaves    *)
(* the one of logging.c out.  The functions of the table are those that    *)
(* RPC_FUNCTION declares; the two of the repository are the probes, which  *)
(* are called by private numbers as well.  What a function leaves as its   *)
(* result is any of a set, and the frame that answers is what rpcEndPoint  *)
(* makes of it; the frames that the probes send themselves are left out.   *)
(***************************************************************************)
EXTENDS Protocol

CONSTANTS
    LengthWrap,     \* 2^16, the values of RPC_paramLength_t
    FunctionCount,  \* g_rpcFunctionCount
    ParameterSize,  \* i_parameterSize of the functions
    MayBeSmaller,   \* those with i_parameterCanBeSmaller
    Results,        \* what a function may leave in its result and io_retParamSize
    Buffered        \* those with an outParameterPtr

Functions == 0 .. FunctionCount - 1
Private   == {-1, -2}   \* RPC_PROBE_..._IDENTIFIER

ASSUME RpcAssumption ==
    /\ LengthWrap \in Nat /\ MaxPacketLen < LengthWrap
    /\ FunctionCount \in Nat
    /\ ParameterSize \in [Functions -> 0 .. LengthWrap - 3]
    /\ MayBeSmaller \subseteq Functions
    /\ Results \in [Functions -> SUBSET Seq(Symbol)]
    /\ Buffered \subseteq Functions

RpcId == 1      \* RPC_SUB_PROTOCOL_IDENTIFIER

\* A symbol as an int8_t.
Signed(b) == IF 2 * b < Modulus THEN b ELSE b - Modulus

-----------------------------------------------------------------------------
(* The end point.  The buffer r.packet ends with the checksum.             *)

payloadLen(r) == r.received - 2
TargetID(r)   == Signed(r.packet[1])
Flagged(r)    == r.packet[2] % 2 = 1    \* RPC_FLAGS_REQUIRES_RESPONSE

\* (mutant) the length is a signed number
SignedLength(r) == payloadLen(r) - 2

\* (mutant) the checksum is counted
LengthWithChecksum(r) == (payloadLen(r) - 1) % LengthWrap

\* The header is subtracted without a check: a shorter packet wraps around.
ParameterLength(r) == (payloadLen(r) - 2) % LengthWrap

\* The length of the parameters is one the function takes.
LengthFits(f, n) == \/ n = ParameterSize[f]
                    \/ f \in MayBeSmaller /\ n <= ParameterSize[f]

Parameters(r) == SubSeq(r.packet, 3, 2 + ParameterLength(r))

\* The dispatcher takes the first end point of the packet's identifier.
Dispatched(r) == r.id = RpcId

\* The function of the table that rpcEndPoint calls, if any.
Calls(r) ==
    {f \in Functions : /\ Dispatched(r) /\ TargetID(r) = f
                       /\ LengthFits(f, ParameterLength(r))}

\* The frame that answers the call of f, once f has left the result: none unless
\* the request asks for it, and there is something to tell.
Answers(r, f, result) ==
    {p \in {[id |-> RpcId, payload |-> <<r.packet[1]>> \o result]} :
        Flagged(r) /\ result # <<>> /\ f \in Buffered}

\* The probes are called by their private numbers without a look at the length.
Probes(r) == {f \in Private : Dispatched(r) /\ TargetID(r) = f}

-----------------------------------------------------------------------------
(* Properties                                                              *)

\* A packet is posted.
Posting == posted' > posted

\* The call that a request with a header asks for (RPC.c:180-185): the number
\* of a function or a probe, a byte of flags, its parameters.
Asks(p, f) ==
    /\ p.id = RpcId
    /\ Signed(p.payload[1]) = f
    /\ LengthFits(f, Len(p.payload) - 2)

\* What the requester of p gets for the result of the function.
AnswerDue(p, f, result) ==
    IF p.payload[2] % 2 = 1 /\ result # <<>> /\ f \in Buffered
    THEN {[id |-> RpcId, payload |-> <<p.payload[1]>> \o result]} ELSE {}

\* A request that arrives whole, after another frame that did, has its function
\* called with the parameters that were sent; it is answered, under the number it
\* was sent with, if it asks for that and the function has something to tell.  A
\* request for another function, or with parameters the function does not take,
\* has none called.  A probe is called exactly when its number arrives.
CallsAsSent ==
    [][FrameEnds /\ synced /\ synced' /\ Fits(frame) =>
        /\ Len(frame.payload) >= 1 =>
              Probes(State) = {f \in Private : frame.id = RpcId /\ Signed(frame.payload[1]) = f}
        /\ Len(frame.payload) >= 2 =>
              /\ Calls(State) = {f \in Functions : Asks(frame, f)}
              /\ \A f \in Calls(State) :
                    /\ Parameters(State) = SubSeq(frame.payload, 3, Len(frame.payload))
                    /\ \A result \in Results[f] :
                          Answers(State, f, result) = AnswerDue(frame, f, result)]_vars

\* Whatever was lost on the line, a function of the table is only called by a
\* packet with a whole header, and its parameters are all part of the payload:
\* never the checksum, nor what an earlier packet left in the buffer.
ParametersInside ==
    [][Posting => \A f \in Calls(State) :
        /\ Len(Received(State).payload) >= 2
        /\ Parameters(State) =
              SubSeq(Received(State).payload, 3, Len(Received(State).payload))]_vars
=============================================================================
