----------------------------- MODULE RpcProofs -----------------------------
(***************************************************************************)
(* A proof about the calls that packets make, for every alphabet, every    *)
(* limit of packets and every table of functions.                          *)
(***************************************************************************)
EXTENDS Rpc, ProtocolProofs

\* Only the end of a packet posts one, and the receiver's buffer then holds an
\* identifier, a payload and a checksum.
LEMMA PostedCounted ==
    ASSUME TypeOK, [Next]_vars, Posting
    PROVE  /\ State.packet = packet /\ State.received = received
           /\ received \in 2 .. MaxPacketLen - 1
           /\ packet \in Seq(Symbol) /\ Len(packet) = received - 1
<1>1. ReceivePacket
  <2>1. posted \in Nat /\ ~(posted' = posted) /\ ~(posted' = posted - 1)
    BY DEF Posting, TypeOK
  <2>2. ~UNCHANGED vars
    BY <2>1 DEF vars, receiver
  <2>3. ~Dispatch /\ ~Lose /\ ~ReceiveStarved /\ ~ReceiveByte
    BY <2>1 DEF Dispatch, Lose, ReceiveStarved, ReceiveByte, receiver
  <2>4. ~Send
    BY <2>1 DEF Send, SendMessage, BeginTransmittingFrame, SendInsideFrame,
       SendMessageByte, SendMessageEnds, EndTransmittingFrame, Header, SendByte, Trailer,
       receiver
  <2> QED
    BY <2>2, <2>3, <2>4 DEF Next, Receive
<1>2. State.packet = packet /\ State.received = received
  BY DEF State
<1>3. received >= 2 /\ ~(MaxPacketLen <= received)
  BY <1>1, <1>2 DEF ReceivePacket, Completes, TooLong
<1> QED
  BY <1>2, <1>3, SizeAssumption DEF TypeOK

\* A length a function takes is not one that wrapped around.
LEMMA LengthOfCall ==
    ASSUME NEW n \in 2 .. MaxPacketLen - 1, NEW f \in Functions,
           LengthFits(f, (n - 4) % LengthWrap)
    PROVE  n >= 4 /\ (n - 4) % LengthWrap = n - 4
<1> DEFINE w == LengthWrap
<1>1. w \in Nat /\ MaxPacketLen \in Nat /\ MaxPacketLen < w
  BY RpcAssumption, SizeAssumption
<1>2. ParameterSize[f] \in 0 .. w - 3
  BY RpcAssumption
<1>3. (n - 4) % w <= ParameterSize[f]
  <2>1. (n - 4) % w \in Nat
    BY <1>1
  <2> QED
    BY <1>2, <2>1 DEF LengthFits
<1>4. n - 4 >= 0 \/ n - 4 = -1 \/ n - 4 = -2
  BY <1>1
<1>5. CASE n - 4 >= 0
  BY <1>1, <1>5
<1>6. CASE n - 4 = -1 \/ n - 4 = -2
  <2>1. (n - 4) % w = w + (n - 4)
    BY <1>1, <1>6
  <2> QED
    BY <1>1, <1>2, <1>3, <1>6, <2>1
<1> QED
  BY <1>4, <1>5, <1>6

\* Theorem: whatever arrives, a function of the table is only called by a packet
\* with a whole header, and its parameters are all part of the payload.
THEOREM ParametersOfPayload == Spec => ParametersInside
<1>1. TypeOK /\ [Next]_vars =>
        (Posting => \A f \in Calls(State) :
           /\ Len(Received(State).payload) >= 2
           /\ Parameters(State) =
                 SubSeq(Received(State).payload, 3, Len(Received(State).payload)))
  <2> DEFINE P == Received(State).payload
  <2> SUFFICES ASSUME TypeOK, [Next]_vars, Posting, NEW f \in Calls(State)
               PROVE  Len(P) >= 2 /\ Parameters(State) = SubSeq(P, 3, Len(P))
    OBVIOUS
  <2>1. /\ State.packet = packet /\ State.received = received
        /\ received \in 2 .. MaxPacketLen - 1
        /\ packet \in Seq(Symbol) /\ Len(packet) = received - 1
    BY PostedCounted
  <2>2. ParameterLength(State) = (received - 4) % LengthWrap
    <3>1. (received - 2) - 2 = received - 4
      BY <2>1, SizeAssumption
    <3> QED
      BY <2>1, <3>1 DEF ParameterLength, payloadLen
  <2>3. f \in Functions /\ LengthFits(f, ParameterLength(State))
    BY DEF Calls
  <2>4. received >= 4 /\ ParameterLength(State) = received - 4
    BY <2>1, <2>2, <2>3, LengthOfCall
  <2>5. P = SubSeq(packet, 1, received - 2)
    BY <2>1 DEF Received
  <2>6. Len(P) = received - 2 /\ \A i \in 1 .. received - 2 : P[i] = packet[i]
    BY <2>1, <2>4, <2>5, SizeAssumption
  <2>7. Parameters(State) = SubSeq(packet, 3, received - 2)
    <3>1. 2 + (received - 4) = received - 2
      BY <2>1, SizeAssumption
    <3> QED
      BY <2>1, <2>4, <3>1 DEF Parameters
  <2>8. SubSeq(packet, 3, received - 2) = SubSeq(P, 3, received - 2)
    BY <2>1, <2>4, <2>5, <2>6, SizeAssumption
  <2> QED
    BY <2>1, <2>4, <2>6, <2>7, <2>8, SizeAssumption
<1> QED
  BY <1>1, TypeCorrect, PTL DEF Spec, ParametersInside

\* Where a frame ends that arrived whole, the receiver holds what was sent and the
\* checksum.
LEMMA SentAtEnd ==
    ASSUME TypeOK, Sound, [Next]_vars, FrameEnds, synced, synced', Fits(frame)
    PROVE  \E c \in Symbol : State = Summed(frame, c)
  BY WholeAtEnd, SummedAtEnd DEF FrameEnds

\* The calls of the packet in the buffer, from the frame it was sent in.
LEMMA CallsOfSummed ==
    ASSUME NEW p \in Packet, Fits(p), NEW c \in Symbol
    PROVE  /\ Len(p.payload) >= 1 =>
                Probes(Summed(p, c)) = {f \in Private : p.id = RpcId /\ Signed(p.payload[1]) = f}
           /\ Len(p.payload) >= 2 =>
                /\ Calls(Summed(p, c)) = {f \in Functions : Asks(p, f)}
                /\ Parameters(Summed(p, c)) = SubSeq(p.payload, 3, Len(p.payload))
                /\ \A f \in Functions, result \in Seq(Symbol) :
                      Answers(Summed(p, c), f, result) = AnswerDue(p, f, result)
<1> DEFINE q == p.payload
           n == Len(q)
           a == Append(q, c)
           s == Summed(p, c)
<1>1. s.id = p.id /\ s.packet = a /\ s.received = n + 2
  BY DEF Summed
<1>2. q \in Seq(Symbol) /\ n \in Nat /\ n + 2 < MaxPacketLen
  BY DEF Packet, Fits
<1>3. a \in Seq(Symbol) /\ Len(a) = n + 1 /\ \A k \in 1 .. n : a[k] = q[k]
  BY <1>2, AppendProperties
<1> HIDE DEF s, a
<1>4. n >= 1 => TargetID(s) = Signed(q[1])
  BY <1>1, <1>2, <1>3 DEF TargetID
<1>5. Dispatched(s) <=> p.id = RpcId
  BY <1>1 DEF Dispatched
<1>6. n >= 1 => Probes(s) = {f \in Private : p.id = RpcId /\ Signed(q[1]) = f}
  BY <1>4, <1>5 DEF Probes
<1>7. ASSUME n >= 2
      PROVE  /\ Calls(s) = {f \in Functions : Asks(p, f)}
             /\ Parameters(s) = SubSeq(q, 3, n)
             /\ \A f \in Functions, result \in Seq(Symbol) :
                   Answers(s, f, result) = AnswerDue(p, f, result)
  <2>1. ParameterLength(s) = n - 2
    <3>1. payloadLen(s) = n
      BY <1>1, <1>2 DEF payloadLen
    <3>2. LengthWrap \in Nat /\ n - 2 \in Nat /\ n - 2 < LengthWrap
      BY <1>2, <1>7, RpcAssumption, SizeAssumption
    <3>3. (n - 2) % LengthWrap = n - 2
      <4> DEFINE k == n - 2
      <4> HIDE DEF k
      <4>1. k \in Nat /\ LengthWrap \in Nat /\ k < LengthWrap
        BY <3>2 DEF k
      <4>2. k % LengthWrap = k
        BY <4>1
      <4> QED
        BY <4>2 DEF k
    <3> QED
      BY <3>1, <3>3 DEF ParameterLength
  <2>2. Calls(s) = {f \in Functions : Asks(p, f)}
    BY <1>2, <1>4, <1>5, <1>7, <2>1 DEF Calls, Asks
  <2>3. Parameters(s) = SubSeq(q, 3, n)
    <3>1. Parameters(s) = SubSeq(a, 3, n)
      BY <1>1, <1>2, <2>1 DEF Parameters
    <3>2. SubSeq(a, 3, n) = SubSeq(q, 3, n)
      BY <1>2, <1>3
    <3> QED
      BY <3>1, <3>2
  <2>4. \A f \in Functions, result \in Seq(Symbol) :
            Answers(s, f, result) = AnswerDue(p, f, result)
    <3>1. s.packet[1] = q[1] /\ s.packet[2] = q[2]
      BY <1>1, <1>2, <1>3, <1>7
    <3> QED
      BY <3>1 DEF Answers, AnswerDue, Flagged
  <2> QED
    BY <2>2, <2>3, <2>4
<1> QED
  BY <1>6, <1>7 DEF s

LEMMA ResultsTyped ==
    /\ \A r : Calls(r) \subseteq Functions
    /\ \A f \in Functions : Results[f] \subseteq Seq(Symbol)
  BY RpcAssumption DEF Calls

\* Theorem: a request that arrives whole behind a frame that did has its function
\* called with the parameters that were sent, and nothing else is called; whatever
\* the function has to tell is sent back under its number, if the request asks.
THEOREM RequestsCalled == Spec => CallsAsSent
<1>1. TypeOK /\ Sound /\ [Next]_vars => Sound'
  BY NextSound
<1>2. TypeOK /\ Sound /\ [Next]_vars =>
       [FrameEnds /\ synced /\ synced' /\ Fits(frame) =>
          /\ Len(frame.payload) >= 1 =>
                Probes(State) = {f \in Private : frame.id = RpcId /\ Signed(frame.payload[1]) = f}
          /\ Len(frame.payload) >= 2 =>
                /\ Calls(State) = {f \in Functions : Asks(frame, f)}
                /\ \A f \in Calls(State) :
                      /\ Parameters(State) = SubSeq(frame.payload, 3, Len(frame.payload))
                      /\ \A result \in Results[f] :
                            Answers(State, f, result) = AnswerDue(frame, f, result)]_vars
  <2> SUFFICES ASSUME TypeOK, Sound, [Next]_vars, FrameEnds, synced, synced', Fits(frame)
               PROVE  /\ Len(frame.payload) >= 1 =>
                            Probes(State) = {f \in Private : frame.id = RpcId /\ Signed(frame.payload[1]) = f}
                      /\ Len(frame.payload) >= 2 =>
                            /\ Calls(State) = {f \in Functions : Asks(frame, f)}
                            /\ Parameters(State) = SubSeq(frame.payload, 3, Len(frame.payload))
                            /\ \A f \in Functions, result \in Seq(Symbol) :
                                  Answers(State, f, result) = AnswerDue(frame, f, result)
    BY ResultsTyped
  <2>1. PICK c \in Symbol : State = Summed(frame, c)
    BY SentAtEnd
  <2>2. frame \in Packet
    BY DEF TypeOK
  <2> QED
    BY <2>1, <2>2, CallsOfSummed
<1> QED
  BY <1>1, <1>2, TypeCorrect, InitSound, PTL DEF Spec, CallsAsSent
=============================================================================
