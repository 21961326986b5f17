-------------------------- MODULE ProtocolProofs --------------------------
(***************************************************************************)
(* Theorems about the packet protocol, for every alphabet of symbols, every *)
(* limit on packets and every set of packets.                              *)
(***************************************************************************)
EXTENDS Protocol, TLAPS, SequenceTheorems

-----------------------------------------------------------------------------
(* Sums and symbols                                                        *)

LEMMA SymbolFacts ==
    /\ Modulus \in Nat \ {0}
    /\ Begin \in Symbol /\ End \in Symbol /\ Escape \in Symbol
    /\ 0 \in Symbol
    /\ Symbol \subseteq Nat
  BY SymbolAssumption DEF Symbol, Control

\* A sum is a symbol again.
LEMMA Remainder == ASSUME NEW n \in Nat PROVE n % Modulus \in Symbol
<1>1. Modulus \in Nat \ {0}
  BY SymbolFacts
<1>2. n % Modulus \in 0 .. Modulus - 1
  BY <1>1
<1> QED
  BY <1>2 DEF Symbol

LEMMA NegatedTyped == ASSUME NEW c \in Symbol PROVE Negated(c) \in Symbol
<1>1. Modulus - c \in Nat
  BY SymbolFacts DEF Symbol
<1> QED
  BY <1>1, Remainder DEF Negated

LEMMA SentTyped ==
    ASSUME NEW b \in Symbol
    PROVE  Sent(b) \in Seq(Symbol) /\ SumOfSent(b) \in Nat
  BY SymbolFacts DEF Sent, SumOfSent

LEMMA SentChecksumTyped ==
    ASSUME NEW c \in Symbol
    PROVE  SentChecksum(c) \in Seq(Symbol)
<1>1. (c + Escape) % Modulus \in Symbol
  BY SymbolFacts, Remainder
<1>2. Negated(c) \in Symbol /\ Negated((c + Escape) % Modulus) \in Symbol
  BY <1>1, NegatedTyped
<1> QED
  BY <1>2, SymbolFacts DEF SentChecksum

-----------------------------------------------------------------------------
(* The receiver                                                            *)

\* The states of the receiver in which the bytes that are counted are stored.
Counted == {r \in [id : Symbol, packet : Seq(Symbol), mode : Mode,
                   received : 0 .. MaxPacketLen, sum : Symbol] :
              Len(r.packet) = IF r.received > 0 THEN r.received - 1 ELSE 0}

LEMMA FreshCounted == Fresh \in Counted /\ \A m \in Mode : Restarted(m) \in Counted
<1>1. Fresh = [id |-> 0, packet |-> <<>>, mode |-> "Unknown", received |-> 0, sum |-> 0]
  BY DEF Fresh
<1>2. <<>> \in Seq(Symbol) /\ Len(<<>>) = 0 /\ 0 \in 0 .. MaxPacketLen /\ "Unknown" \in Mode
  BY SizeAssumption DEF Mode
<1>3. Fresh \in Counted
  BY <1>1, <1>2, SymbolFacts DEF Counted
<1>4. ASSUME NEW m \in Mode PROVE Restarted(m) \in Counted
  BY <1>3 DEF Restarted, Counted
<1> QED
  BY <1>3, <1>4

LEMMA StoredCounted ==
    ASSUME NEW r \in Counted, NEW b \in Symbol, r.received < MaxPacketLen
    PROVE  Stored(r, b) \in Counted
<1>1. CASE r.received = 0
  <2>1. Stored(r, b) = [r EXCEPT !.id = b, !.received = 1]
    BY <1>1 DEF Stored
  <2>2. 1 \in 0 .. MaxPacketLen
    BY SizeAssumption
  <2>3. Len(r.packet) = 0
    BY <1>1 DEF Counted
  <2>4. Stored(r, b) = [id |-> b, packet |-> r.packet, mode |-> r.mode, received |-> 1, sum |-> r.sum]
    BY <2>1 DEF Counted
  <2> QED
    BY <2>2, <2>3, <2>4 DEF Counted
<1>2. CASE r.received # 0
  <2>1. Stored(r, b) = [r EXCEPT !.packet = Append(@, b), !.received = @ + 1]
    BY <1>2 DEF Stored
  <2>2. Append(r.packet, b) \in Seq(Symbol) /\ Len(Append(r.packet, b)) = Len(r.packet) + 1
    BY DEF Counted
  <2>3. r.received + 1 \in 0 .. MaxPacketLen /\ r.received > 0
    BY <1>2, SizeAssumption DEF Counted
  <2>4. Len(r.packet) = r.received - 1
    BY <2>3 DEF Counted
  <2> QED
    <3>1. Stored(r, b) = [id |-> r.id, packet |-> Append(r.packet, b), mode |-> r.mode,
                          received |-> r.received + 1, sum |-> r.sum]
      BY <2>1 DEF Counted
    <3>2. Len(Append(r.packet, b)) = (r.received + 1) - 1 /\ r.received + 1 > 0
      BY <2>2, <2>3, <2>4, SizeAssumption DEF Counted
    <3> QED
      BY <2>2, <2>3, <3>1, <3>2 DEF Counted
<1> QED
  BY <1>1, <1>2

LEMMA AcceptedCounted ==
    ASSUME NEW r \in Counted, NEW b \in Symbol
    PROVE  Accepted(r, b) \in Counted
<1>1. CASE Begins(r, b)
  BY <1>1, FreshCounted DEF Accepted, Mode
<1>2. CASE ~Begins(r, b) /\ TooLong(r)
  BY <1>2 DEF Accepted, Counted, Mode
<1>3. CASE ~Begins(r, b) /\ ~TooLong(r)
  <2> DEFINE m == ModeAt(r, b)
             s == [r EXCEPT !.mode = m, !.sum = (@ + b) % Modulus]
  <2>1. m \in Mode
    BY DEF ModeAt, Counted, Mode
  <2>2. (r.sum + b) % Modulus \in Symbol
    <3>1. r.sum \in Nat /\ b \in Nat
      BY SymbolFacts DEF Counted
    <3>2. r.sum + b \in Nat
      BY <3>1
    <3> QED
      BY <3>2, Remainder
  <2>3. s \in Counted /\ s.received = r.received
    <3> HIDE DEF m
    <3> QED
      BY <2>1, <2>2 DEF Counted
  <2>4. s.received < MaxPacketLen
    BY <1>3, <2>3, SizeAssumption DEF TooLong, Counted
  <2>5. Accepted(r, b) =
          CASE m = "Payload" /\ b = Escape -> [s EXCEPT !.mode = "EscapeChar"]
            [] m = "Payload" /\ b # Escape -> Stored(s, b)
            [] m = "EscapeChar" -> Stored([s EXCEPT !.mode = "Payload"], b)
            [] m = "PacketEnd" -> Restarted(IF s.sum = End THEN "Unknown" ELSE m)
            [] m = "Unknown" -> s
    BY <1>3 DEF Accepted
  <2> HIDE DEF m, s
  <2>6. /\ [s EXCEPT !.mode = "EscapeChar"] \in Counted
        /\ [s EXCEPT !.mode = "Payload"] \in Counted
        /\ [s EXCEPT !.mode = "Payload"].received = s.received
    BY <2>3 DEF Counted, Mode
  <2>7. Stored(s, b) \in Counted
    BY <2>3, <2>4, StoredCounted
  <2>8. Stored([s EXCEPT !.mode = "Payload"], b) \in Counted
    BY <2>4, <2>6, StoredCounted
  <2>9. Restarted(IF s.sum = End THEN "Unknown" ELSE m) \in Counted
    BY <2>1, FreshCounted DEF Mode
  <2> QED
    BY <2>1, <2>3, <2>5, <2>6, <2>7, <2>8, <2>9 DEF Mode
<1> QED
  BY <1>1, <1>2, <1>3

-----------------------------------------------------------------------------
(* Types                                                                   *)

LEMMA StateCounted == ASSUME TypeOK PROVE State \in Counted /\ Current \in Counted
<1>1. State \in Counted
  BY DEF TypeOK, State, Counted
<1> QED
  BY <1>1, FreshCounted DEF Current

LEMMA BecomesTyped ==
    ASSUME NEW r \in Counted, Becomes(r)
    PROVE  /\ id' \in Symbol /\ packet' \in Seq(Symbol) /\ mode' \in Mode
           /\ received' \in 0 .. MaxPacketLen /\ sum' \in Symbol
           /\ Len(packet') = IF received' > 0 THEN received' - 1 ELSE 0
           /\ Len(packet') < MaxPacketLen
  BY SizeAssumption DEF Becomes, Counted

LEMMA TakesTyped ==
    ASSUME TypeOK, NEW u \in BOOLEAN, Takes(u)
    PROVE  /\ phase' \in Phase /\ rest' \in Seq(Symbol)
           /\ checksum' \in Symbol /\ wire' \in Seq(Symbol) /\ frame' \in Packet
           /\ {intact', synced', clean'} \subseteq BOOLEAN
           /\ Head(wire) \in Symbol
  BY DEF TypeOK, Takes, sender

LEMMA InitTyped == Init => TypeOK
  BY SymbolFacts, SizeAssumption DEF Init, TypeOK, Phase, Mode, Packet

\* What a sending step leaves alone.
LEMMA ReceiverTyped ==
    ASSUME TypeOK, UNCHANGED receiver
    PROVE  /\ buffer' \in BOOLEAN
           /\ sum' \in Symbol /\ id' \in Symbol
           /\ packet' \in Seq(Symbol) /\ Len(packet') < MaxPacketLen
           /\ mode' \in Mode
           /\ received' \in 0 .. MaxPacketLen
           /\ Len(packet') = IF received' > 0 THEN received' - 1 ELSE 0
           /\ free' \in Nat /\ posted' \in Nat
  BY DEF TypeOK, receiver

LEMMA HeaderTyped ==
    ASSUME TypeOK, NEW i \in Ids, Header(i), phase' \in Phase, rest' \in Seq(Symbol)
    PROVE  TypeOK'
<1>1. i \in Symbol
  BY PacketAssumption
<1>2. Sent(i) \in Seq(Symbol) /\ SumOfSent(i) \in Nat
  BY <1>1, SentTyped
<1>3. SumOfSent(i) % Modulus \in Symbol
  BY <1>2, Remainder
<1>4. wire' \in Seq(Symbol)
  BY <1>2, SymbolFacts DEF Header
<1>5. frame' \in Packet /\ {intact', synced', clean'} \subseteq BOOLEAN
  BY <1>1 DEF Header, Framed, Packet, TypeOK, Fits
<1>6. UNCHANGED receiver /\ checksum' \in Symbol
  BY <1>3 DEF Header
<1> QED
  BY <1>4, <1>5, <1>6, ReceiverTyped DEF TypeOK

LEMMA SendByteTyped ==
    ASSUME TypeOK, NEW b \in Symbol, SendByte(b), rest' \in Seq(Symbol)
    PROVE  TypeOK'
<1>1. Sent(b) \in Seq(Symbol) /\ SumOfSent(b) \in Nat
  BY SentTyped
<1>2. (checksum + SumOfSent(b)) % Modulus \in Symbol
  <2>1. checksum \in Nat
    BY SymbolFacts DEF TypeOK
  <2>2. checksum + SumOfSent(b) \in Nat
    BY <1>1, <2>1
  <2> QED
    BY <2>2, Remainder
<1>3. wire' \in Seq(Symbol) /\ checksum' \in Symbol
  BY <1>1, <1>2 DEF SendByte, TypeOK
<1>4. frame' \in Packet /\ {intact', synced', clean'} \subseteq BOOLEAN
  <2>1. frame' = [frame EXCEPT !.payload = Append(@, b)]
    BY DEF SendByte, Framed
  <2>2. Append(frame.payload, b) \in Seq(Symbol)
    BY DEF TypeOK, Packet
  <2>3. frame' \in Packet
    BY <2>1, <2>2 DEF TypeOK, Packet
  <2>4. {intact', synced', clean'} \subseteq BOOLEAN
    BY DEF SendByte, Framed, Fits, TypeOK
  <2> QED
    BY <2>3, <2>4
<1>5. UNCHANGED receiver /\ phase' \in Phase
  BY DEF SendByte, TypeOK
<1> QED
  BY <1>3, <1>4, <1>5, ReceiverTyped DEF TypeOK

LEMMA TrailerTyped == ASSUME TypeOK, Trailer PROVE TypeOK'
<1>1. SentChecksum(checksum) \in Seq(Symbol)
  BY SentChecksumTyped DEF TypeOK
<1>2. wire' \in Seq(Symbol) /\ checksum' \in Symbol /\ phase' \in Phase
  BY <1>1, SymbolFacts DEF Trailer, TypeOK, Phase
<1>3. UNCHANGED receiver /\ UNCHANGED <<rest, frame, intact, synced, clean>>
  BY DEF Trailer, history
<1> QED
  BY <1>2, <1>3, ReceiverTyped DEF TypeOK

LEMMA SendTyped == ASSUME TypeOK, Send PROVE TypeOK'
<1>1. ASSUME NEW i \in Ids, NEW payload \in Payloads, SendMessage(i, payload) PROVE TypeOK'
  BY <1>1, HeaderTyped, PacketAssumption DEF SendMessage, Phase
<1>2. ASSUME NEW i \in Ids, BeginTransmittingFrame(i) PROVE TypeOK'
  BY <1>2, HeaderTyped DEF BeginTransmittingFrame, Phase, TypeOK
<1>3. ASSUME NEW b \in Pieces, SendInsideFrame(b) PROVE TypeOK'
  BY <1>3, SendByteTyped, PacketAssumption DEF SendInsideFrame, TypeOK
<1>4. CASE SendMessageByte
  <2>1. Head(rest) \in Symbol /\ Tail(rest) \in Seq(Symbol)
    BY <1>4 DEF SendMessageByte, TypeOK
  <2> QED
    BY <1>4, <2>1, SendByteTyped DEF SendMessageByte
<1>5. CASE SendMessageEnds
  BY <1>5, TrailerTyped DEF SendMessageEnds
<1>6. CASE EndTransmittingFrame
  BY <1>6, TrailerTyped DEF EndTransmittingFrame
<1> QED
  BY <1>1, <1>2, <1>3, <1>4, <1>5, <1>6 DEF Send

LEMMA ReceiveTyped == ASSUME TypeOK, Receive PROVE TypeOK'
<1>1. CASE ReceiveStarved
  <2>1. Takes(FALSE) /\ Becomes(Fresh) /\ UNCHANGED <<buffer, free, posted>>
    BY <1>1 DEF ReceiveStarved
  <2> QED
    BY <2>1, TakesTyped, FreshCounted, BecomesTyped DEF TypeOK
<1>2. CASE ReceiveByte
  <2>1. Takes(TRUE) /\ Head(wire) \in Symbol
    BY <1>2, TakesTyped DEF ReceiveByte
  <2>2. Accepted(Current, Head(wire)) \in Counted
    BY <2>1, StateCounted, AcceptedCounted
  <2>3. buffer' \in BOOLEAN /\ free' \in Nat /\ posted' \in Nat
    BY <1>2 DEF ReceiveByte, TypeOK
  <2>4. Becomes(Accepted(Current, Head(wire)))
    BY <1>2 DEF ReceiveByte
  <2> QED
    BY <2>1, <2>2, <2>3, <2>4, TakesTyped, BecomesTyped DEF TypeOK
<1>3. CASE ReceivePacket
  <2>1. Takes(TRUE) /\ Becomes(Fresh)
    BY <1>3 DEF ReceivePacket, NextBuffer
  <2>2. buffer' \in BOOLEAN /\ free' \in Nat /\ posted' \in Nat
    BY <1>3 DEF ReceivePacket, NextBuffer, TypeOK
  <2> QED
    BY <2>1, <2>2, TakesTyped, FreshCounted, BecomesTyped DEF TypeOK
<1> QED
  BY <1>1, <1>2, <1>3 DEF Receive

LEMMA NextTyped == TypeOK /\ [Next]_vars => TypeOK'
<1> SUFFICES ASSUME TypeOK, [Next]_vars PROVE TypeOK'
  OBVIOUS
<1>1. CASE Send
  BY <1>1, SendTyped
<1>2. CASE Receive
  BY <1>2, ReceiveTyped
<1>3. CASE Lose
  BY <1>3, TakesTyped, ReceiverTyped DEF Lose, TypeOK
<1>4. CASE Dispatch
  BY <1>4 DEF Dispatch, TypeOK, sender, history
<1>5. CASE UNCHANGED vars
  BY <1>5 DEF vars, sender, receiver, history, TypeOK
<1> QED
  BY <1>1, <1>2, <1>3, <1>4, <1>5 DEF Next

\* The receiver counts the bytes it stores and never writes behind the end of
\* its buffer, whatever symbols arrive, are lost or find no buffer.
THEOREM TypeCorrect == Spec => []TypeOK
<1>1. Init => TypeOK
  BY InitTyped
<1>2. TypeOK /\ [Next]_vars => TypeOK'
  BY NextTyped
<1> QED
  BY <1>1, <1>2, PTL DEF Spec

-----------------------------------------------------------------------------
(* Buffers                                                                 *)

\* The ring has an entry for every buffer (MSG_PUMP_MSG_QUEUE_MAX_SIZE = 128).
RingTakesPool == PoolSize <= QueueSize

LEMMA NextKeepsBuffers ==
    ASSUME RingTakesPool, TypeOK, BuffersKept, [Next]_vars
    PROVE  BuffersKept'
<1> USE DEF BuffersKept
<1>1. CASE Send
  <2>1. UNCHANGED receiver
    BY <1>1 DEF Send, SendMessage, BeginTransmittingFrame, SendInsideFrame, SendMessageByte,
                SendMessageEnds, EndTransmittingFrame, Header, SendByte, Trailer
  <2> QED
    BY <2>1 DEF receiver
<1>2. CASE ReceiveStarved
  BY <1>2 DEF ReceiveStarved
<1>3. CASE ReceiveByte
  BY <1>3 DEF ReceiveByte, TypeOK
<1>4. CASE ReceivePacket
  <2>1. free + posted + 1 = PoolSize
    BY <1>4 DEF ReceivePacket
  <2>2. posted < QueueSize
    BY <2>1, SizeAssumption DEF RingTakesPool, TypeOK
  <2>3. posted' = posted + 1
    BY <1>4, <2>2 DEF ReceivePacket
  <2>4. /\ buffer' <=> free > 0
        /\ free' = IF free > 0 THEN free - 1 ELSE 0
    <3>1. ~(posted >= QueueSize)
      BY <2>2, SizeAssumption DEF TypeOK
    <3> QED
      BY <1>4, <3>1 DEF ReceivePacket, NextBuffer
  <2>5. CASE free > 0
    <3>1. buffer' /\ free' = free - 1
      BY <2>4, <2>5
    <3> QED
      BY <2>1, <2>3, <3>1 DEF TypeOK
  <2>6. CASE ~(free > 0)
    <3>1. ~buffer' /\ free' = 0
      BY <2>4, <2>6
    <3>2. free = 0
      BY <2>6 DEF TypeOK
    <3> QED
      BY <2>1, <2>3, <3>1, <3>2 DEF TypeOK
  <2> QED
    BY <2>5, <2>6
<1>5. CASE Lose
  BY <1>5 DEF Lose, receiver
<1>6. CASE Dispatch
  BY <1>6 DEF Dispatch, TypeOK
<1>7. CASE UNCHANGED vars
  BY <1>7 DEF vars, receiver
<1> QED
  BY <1>1, <1>2, <1>3, <1>4, <1>5, <1>6, <1>7 DEF Next, Receive

\* If the ring has room for the pool, no buffer is ever lost: the branch in which
\* the receiver takes a second one after a failed post is not reached.
THEOREM BuffersConserved == ASSUME RingTakesPool PROVE Spec => []BuffersKept
<1>1. Init => TypeOK /\ BuffersKept
  <2> SUFFICES ASSUME Init PROVE BuffersKept
    BY InitTyped
  <2>1. CASE PoolSize > 0
    <3>1. buffer /\ free = PoolSize - 1 /\ posted = 0
      BY <2>1 DEF Init
    <3> QED
      BY <3>1, SizeAssumption DEF BuffersKept
  <2>2. CASE ~(PoolSize > 0)
    <3>1. ~buffer /\ free = 0 /\ posted = 0
      BY <2>2 DEF Init
    <3> QED
      BY <2>2, <3>1, SizeAssumption DEF BuffersKept
  <2> QED
    BY <2>1, <2>2
<1>2. TypeOK /\ BuffersKept /\ [Next]_vars => TypeOK' /\ BuffersKept'
  BY NextTyped, NextKeepsBuffers
<1> QED
  BY <1>1, <1>2, PTL DEF Spec

-----------------------------------------------------------------------------
(* Reading what is on the line                                             *)

\* The receiver after a symbol.
After(r, b) == IF Completes(r, b) THEN Fresh ELSE Accepted(r, b)

\* Reading w takes the receiver from r to s; silently if no packet ends.
Reads(r, w, s, silently) ==
    \E f \in [1 .. Len(w) + 1 -> Counted] :
      /\ f[1] = r /\ f[Len(w) + 1] = s
      /\ \A k \in 1 .. Len(w) : /\ f[k + 1] = After(f[k], w[k])
                                /\ silently => ~Completes(f[k], w[k])

LEMMA AfterCounted == ASSUME NEW r \in Counted, NEW b \in Symbol PROVE After(r, b) \in Counted
BY FreshCounted, AcceptedCounted DEF After

LEMMA ReadsNothing ==
    ASSUME NEW r \in Counted, NEW q \in BOOLEAN
    PROVE  Reads(r, <<>>, r, q)
<1> DEFINE f == [k \in 1 .. 1 |-> r]
<1>1. Len(<<>>) = 0
  OBVIOUS
<1>2. f \in [1 .. 0 + 1 -> Counted] /\ f[1] = r /\ 0 + 1 = 1 /\ 1 .. 0 = {}
  OBVIOUS
<1> HIDE DEF f
<1>3. QED
  BY <1>1, <1>2 DEF Reads

LEMMA NothingRead ==
    ASSUME NEW r, NEW s, NEW q, Reads(r, <<>>, s, q)
    PROVE  s = r
<1>1. Len(<<>>) = 0
  OBVIOUS
<1> QED
  BY <1>1 DEF Reads

LEMMA ReadsOne ==
    ASSUME NEW r \in Counted, NEW b \in Symbol, NEW q \in BOOLEAN, q => ~Completes(r, b)
    PROVE  Reads(r, <<b>>, After(r, b), q)
<1> DEFINE s == After(r, b)
           f == [k \in 1 .. 2 |-> IF k = 1 THEN r ELSE s]
<1>1. s \in Counted
  BY AfterCounted
<1> HIDE DEF s
<1>2. f \in [1 .. 1 + 1 -> Counted] /\ f[1] = r /\ f[1 + 1] = s
  BY <1>1
<1>3. Len(<<b>>) = 1 /\ <<b>>[1] = b
  OBVIOUS
<1> HIDE DEF f
<1>4. QED
  <2>1. \A k \in 1 .. 1 : k = 1
    OBVIOUS
  <2>2. f[1 + 1] = After(f[1], <<b>>[1]) /\ (q => ~Completes(f[1], <<b>>[1]))
    BY <1>2, <1>3 DEF s
  <2> QED
    BY <1>2, <1>3, <2>1, <2>2 DEF Reads, s

\* One part of the line after another.
LEMMA ReadsOn ==
    ASSUME NEW r, NEW s, NEW t, NEW q \in BOOLEAN,
           NEW w \in Seq(Symbol), NEW v \in Seq(Symbol),
           Reads(r, w, s, q), Reads(s, v, t, q)
    PROVE  Reads(r, w \o v, t, q)
<1> DEFINE m == Len(w)
           n == Len(v)
<1>1. m \in Nat /\ n \in Nat
  OBVIOUS
<1>2. PICK f \in [1 .. m + 1 -> Counted] :
        /\ f[1] = r /\ f[m + 1] = s
        /\ \A k \in 1 .. m : f[k + 1] = After(f[k], w[k]) /\ (q => ~Completes(f[k], w[k]))
  BY DEF Reads
<1>3. PICK g \in [1 .. n + 1 -> Counted] :
        /\ g[1] = s /\ g[n + 1] = t
        /\ \A k \in 1 .. n : g[k + 1] = After(g[k], v[k]) /\ (q => ~Completes(g[k], v[k]))
  BY DEF Reads
<1> DEFINE u == w \o v
           h == [k \in 1 .. m + n + 1 |-> IF k <= m + 1 THEN f[k] ELSE g[k - m]]
<1>4. /\ u \in Seq(Symbol) /\ Len(u) = m + n
      /\ \A k \in 1 .. m + n : u[k] = IF k <= m THEN w[k] ELSE v[k - m]
  BY ConcatProperties
<1> HIDE DEF u, m, n
<1>5. h \in [1 .. m + n + 1 -> Counted]
  BY <1>1, <1>2, <1>3
<1>6. h[1] = r /\ h[m + n + 1] = t
  <2>1. CASE n = 0
    BY <1>1, <1>2, <1>3, <2>1
  <2>2. CASE n # 0
    BY <1>1, <1>2, <1>3, <2>2
  <2> QED
    BY <2>1, <2>2
<1>7. ASSUME NEW k \in 1 .. m + n
      PROVE  h[k + 1] = After(h[k], u[k]) /\ (q => ~Completes(h[k], u[k]))
  <2>1. CASE k <= m
    <3>1. h[k] = f[k] /\ h[k + 1] = f[k + 1] /\ u[k] = w[k] /\ k \in 1 .. m
      BY <1>1, <1>4, <2>1
    <3> HIDE DEF h
    <3> QED
      BY <1>2, <3>1
  <2>2. CASE ~(k <= m)
    <3>1. k - m \in 1 .. n /\ u[k] = v[k - m] /\ k + 1 - m = k - m + 1
      BY <1>1, <1>4, <2>2
    <3>2. h[k] = g[k - m]
      BY <1>1, <1>2, <1>3, <2>2
    <3>3. h[k + 1] = g[k - m + 1]
      BY <1>1, <2>2, <3>1
    <3> HIDE DEF h
    <3> QED
      BY <1>3, <3>1, <3>2, <3>3
  <2> QED
    BY <2>1, <2>2
<1> HIDE DEF h
<1>8. \E e \in [1 .. Len(u) + 1 -> Counted] :
        /\ e[1] = r /\ e[Len(u) + 1] = t
        /\ \A k \in 1 .. Len(u) : e[k + 1] = After(e[k], u[k]) /\ (q => ~Completes(e[k], u[k]))
  BY <1>4, <1>5, <1>6, <1>7
<1> QED
  BY <1>8 DEF Reads, u

\* The first symbol of the line is read.
LEMMA ReadsFirst ==
    ASSUME NEW r, NEW s, NEW q \in BOOLEAN, NEW w \in Seq(Symbol), w # <<>>,
           Reads(r, w, s, q)
    PROVE  /\ Reads(After(r, Head(w)), Tail(w), s, q)
           /\ q => ~Completes(r, Head(w))
<1> DEFINE n == Len(w)
           v == Tail(w)
<1>1. n \in Nat \ {0} /\ Len(v) = n - 1 /\ Head(w) = w[1] /\ \A k \in 1 .. n - 1 : v[k] = w[k + 1]
  BY HeadTailProperties, EmptySeq
<1>2. PICK f \in [1 .. n + 1 -> Counted] :
        /\ f[1] = r /\ f[n + 1] = s
        /\ \A k \in 1 .. n : f[k + 1] = After(f[k], w[k]) /\ (q => ~Completes(f[k], w[k]))
  BY DEF Reads
<1> DEFINE h == [k \in 1 .. n |-> f[k + 1]]
<1> HIDE DEF v, n
<1>3. h \in [1 .. (n - 1) + 1 -> Counted]
  BY <1>1, <1>2
<1>4. h[1] = After(r, w[1]) /\ (q => ~Completes(r, w[1]))
  BY <1>1, <1>2
<1>5. h[(n - 1) + 1] = s
  BY <1>1, <1>2
<1>6. ASSUME NEW k \in 1 .. n - 1
      PROVE  h[k + 1] = After(h[k], v[k]) /\ (q => ~Completes(h[k], v[k]))
  <2>1. k + 1 \in 1 .. n /\ h[k] = f[k + 1] /\ h[k + 1] = f[(k + 1) + 1] /\ v[k] = w[k + 1]
    BY <1>1
  <2> HIDE DEF h
  <2> QED
    BY <1>2, <2>1
<1> HIDE DEF h
<1>7. \E e \in [1 .. Len(v) + 1 -> Counted] :
        /\ e[1] = After(r, Head(w)) /\ e[Len(v) + 1] = s
        /\ \A k \in 1 .. Len(v) : e[k + 1] = After(e[k], v[k]) /\ (q => ~Completes(e[k], v[k]))
  BY <1>1, <1>3, <1>4, <1>5, <1>6
<1> QED
  BY <1>1, <1>4, <1>7 DEF Reads, v

-----------------------------------------------------------------------------
(* A frame, symbol by symbol                                               *)

LEMMA SumOfSums ==
    ASSUME NEW x \in Symbol, NEW y \in Symbol, NEW z \in Symbol
    PROVE  (((x + y) % Modulus) + z) % Modulus = (x + (y + z)) % Modulus
<1>1. Modulus \in Nat \ {0} /\ x \in 0 .. Modulus - 1 /\ y \in 0 .. Modulus - 1 /\ z \in 0 .. Modulus - 1
  BY SymbolFacts DEF Symbol
<1>2. ASSUME NEW n \in 0 .. 3 * Modulus - 1
      PROVE  n % Modulus = IF n < Modulus THEN n ELSE IF n < 2 * Modulus THEN n - Modulus
                           ELSE n - 2 * Modulus
  <2>1. CASE n < Modulus
    BY <1>1, <2>1
  <2>2. CASE ~(n < Modulus) /\ n < 2 * Modulus
    BY <1>1, <2>2
  <2>3. CASE ~(n < 2 * Modulus)
    BY <1>1, <2>3
  <2> QED
    BY <1>1, <2>1, <2>2, <2>3
<1>3. x + y \in 0 .. 3 * Modulus - 1 /\ x + (y + z) \in 0 .. 3 * Modulus - 1
  BY <1>1
<1>4. (x + y) % Modulus = IF x + y < Modulus THEN x + y ELSE x + y - Modulus
  BY <1>1, <1>2, <1>3
<1>5. ((x + y) % Modulus) + z \in 0 .. 3 * Modulus - 1
  BY <1>1, <1>4
<1> QED
  BY <1>1, <1>2, <1>3, <1>4, <1>5

\* A sum and its negation cancel.
LEMMA Cancels ==
    ASSUME NEW c \in Symbol
    PROVE  (c + Negated(c)) % Modulus = 0
<1>1. Modulus \in Nat \ {0} /\ c \in 0 .. Modulus - 1
  BY SymbolFacts DEF Symbol
<1>2. CASE c = 0
  <2>1. Modulus % Modulus = 0
    BY <1>1
  <2> QED
    BY <1>1, <1>2, <2>1 DEF Negated
<1>3. CASE c # 0
  <2>1. (Modulus - c) % Modulus = Modulus - c
    BY <1>1, <1>3
  <2> QED
    BY <1>1, <1>3, <2>1 DEF Negated
<1> QED
  BY <1>2, <1>3

LEMMA Pair ==
    ASSUME NEW S, NEW x \in S, NEW y \in S
    PROVE  <<x>> \in Seq(S) /\ <<y>> \in Seq(S) /\ <<x>> \o <<y>> = <<x, y>>
<1> DEFINE u == <<x>>
           v == <<y>>
           w == <<x, y>>
<1>1. u \in Seq(S) /\ v \in Seq(S) /\ Len(u) = 1 /\ Len(v) = 1 /\ u[1] = x /\ v[1] = y
  OBVIOUS
<1>2. w \in Seq(S) /\ Len(w) = 2 /\ w[1] = x /\ w[2] = y
  OBVIOUS
<1> HIDE DEF u, v, w
<1>3. u \o v \in Seq(S) /\ Len(u \o v) = 2 /\ (u \o v)[1] = x /\ (u \o v)[2] = y
  BY <1>1, ConcatProperties
<1>4. u \o v = w
  BY <1>2, <1>3, SeqEqual
<1> QED
  BY <1>1, <1>4 DEF u, v, w

\* A byte stored while the sum grows by n.
Kept(r, b, n) == Stored([r EXCEPT !.sum = (@ + n) % Modulus], b)

LEMMA KeptCounted ==
    ASSUME NEW r \in Counted, NEW b \in Symbol, NEW n \in Nat, r.received < MaxPacketLen
    PROVE  Kept(r, b, n) \in Counted
<1> DEFINE s == [r EXCEPT !.sum = (@ + n) % Modulus]
<1>0. r.sum \in Nat
  BY SymbolFacts DEF Counted
<1>1. r.sum + n \in Nat
  BY <1>0
<1>2. (r.sum + n) % Modulus \in Symbol
  BY <1>1, Remainder
<1>3. s \in Counted /\ s.received = r.received
  BY <1>2 DEF Counted
<1> HIDE DEF s
<1>4. Stored(s, b) \in Counted
  BY <1>3, StoredCounted
<1> QED
  BY <1>4 DEF Kept, s

LEMMA PlainRead ==
    ASSUME NEW r \in Counted, r.mode = "Payload", r.received < MaxPacketLen,
           NEW b \in Symbol \ Control
    PROVE  Reads(r, <<b>>, Kept(r, b, b), TRUE)
<1>1. b # Begin /\ b # End /\ b # Escape
  BY DEF Control
<1>2. ~Begins(r, b) /\ ~TooLong(r) /\ ModeAt(r, b) = "Payload"
  BY <1>1, SizeAssumption DEF Begins, TooLong, ModeAt, Counted
<1>3. ~Completes(r, b)
  BY <1>2 DEF Completes
<1>4. Accepted(r, b) = Stored([r EXCEPT !.mode = "Payload", !.sum = (@ + b) % Modulus], b)
  BY <1>1, <1>2 DEF Accepted
<1>5. [r EXCEPT !.mode = "Payload", !.sum = (@ + b) % Modulus] = [r EXCEPT !.sum = (@ + b) % Modulus]
  BY DEF Counted
<1>6. After(r, b) = Kept(r, b, b)
  BY <1>3, <1>4, <1>5 DEF After, Kept
<1> QED
  BY <1>3, <1>6, ReadsOne

LEMMA EscapedRead ==
    ASSUME NEW r \in Counted, r.mode = "Payload", r.received < MaxPacketLen,
           NEW b \in Symbol
    PROVE  Reads(r, <<Escape, b>>, Kept(r, b, Escape + b), TRUE)
<1> DEFINE s == [r EXCEPT !.mode = "EscapeChar", !.sum = (@ + Escape) % Modulus]
<1>0. Escape \in Symbol /\ Escape # Begin /\ Escape # End /\ b \in Nat /\ Escape \in Nat
  BY SymbolFacts, SymbolAssumption
<1>1. ~Begins(r, Escape) /\ ~TooLong(r) /\ ModeAt(r, Escape) = "Payload"
  BY <1>0, SizeAssumption DEF Begins, TooLong, ModeAt, Counted
<1>2. ~Completes(r, Escape)
  BY <1>1 DEF Completes
<1>3. After(r, Escape) = s
  <2>1. Accepted(r, Escape) = [[r EXCEPT !.mode = "Payload", !.sum = (@ + Escape) % Modulus]
                                  EXCEPT !.mode = "EscapeChar"]
    BY <1>1 DEF Accepted
  <2>2. Accepted(r, Escape) = s
    BY <2>1 DEF Counted
  <2> QED
    BY <1>2, <2>2 DEF After
<1>4. s \in Counted /\ s.mode = "EscapeChar" /\ s.received = r.received
      /\ s.sum = (r.sum + Escape) % Modulus
  <2>1. After(r, Escape) \in Counted
    BY <1>0, AfterCounted
  <2> QED
    BY <1>3, <2>1 DEF Counted
<1>5. Reads(r, <<Escape>>, s, TRUE)
  BY <1>0, <1>2, <1>3, ReadsOne
<1>6. [[s EXCEPT !.mode = "EscapeChar", !.sum = (@ + b) % Modulus] EXCEPT !.mode = "Payload"]
      = [r EXCEPT !.sum = (@ + (Escape + b)) % Modulus]
  <2>1. (((r.sum + Escape) % Modulus) + b) % Modulus = (r.sum + (Escape + b)) % Modulus
    BY <1>0, SumOfSums DEF Counted
  <2>2. [[s EXCEPT !.mode = "EscapeChar", !.sum = (@ + b) % Modulus] EXCEPT !.mode = "Payload"]
        = [r EXCEPT !.sum = (((r.sum + Escape) % Modulus) + b) % Modulus]
    BY DEF Counted
  <2> QED
    BY <2>1, <2>2
<1> HIDE DEF s
<1>7. ~Begins(s, b) /\ ~TooLong(s) /\ ModeAt(s, b) = "EscapeChar"
  BY <1>4, SizeAssumption DEF Begins, TooLong, ModeAt, Counted
<1>8. ~Completes(s, b)
  BY <1>7 DEF Completes
<1>9. After(s, b) = Kept(r, b, Escape + b)
  <2>1. Accepted(s, b) = Stored([[s EXCEPT !.mode = "EscapeChar", !.sum = (@ + b) % Modulus]
                                   EXCEPT !.mode = "Payload"], b)
    BY <1>7 DEF Accepted
  <2> QED
    BY <1>6, <1>8, <2>1 DEF After, Kept
<1>10. Reads(s, <<b>>, Kept(r, b, Escape + b), TRUE)
  BY <1>4, <1>8, <1>9, ReadsOne
<1>11. <<Escape>> \in Seq(Symbol) /\ <<b>> \in Seq(Symbol) /\ <<Escape>> \o <<b>> = <<Escape, b>>
  BY <1>0, Pair
<1> QED
  BY <1>5, <1>10, <1>11, ReadsOn

\* What genericProtocol_send sends is read as the byte, whatever byte it is.
LEMMA ByteRead ==
    ASSUME NEW r \in Counted, r.mode = "Payload", r.received < MaxPacketLen,
           NEW b \in Symbol
    PROVE  Reads(r, Sent(b), Kept(r, b, SumOfSent(b)), TRUE)
<1>1. CASE b \in Control
  BY <1>1, EscapedRead DEF Sent, SumOfSent
<1>2. CASE b \notin Control
  BY <1>2, PlainRead DEF Sent, SumOfSent
<1> QED
  BY <1>1, <1>2

\* The checksum makes the sum 0.
LEMMA ChecksumRead ==
    ASSUME NEW r \in Counted, r.mode = "Payload", r.received < MaxPacketLen
    PROVE  \E b \in Symbol : Reads(r, SentChecksum(r.sum), Stored([r EXCEPT !.sum = 0], b), TRUE)
<1> DEFINE c == r.sum
           b == Negated(c)
           d == Negated((c + Escape) % Modulus)
<1>1. c \in Symbol
  BY DEF Counted
<1> HIDE DEF c
<1>2. b \in Symbol /\ (c + b) % Modulus = 0
  BY <1>1, NegatedTyped, Cancels
<1>3. CASE b \notin Control
  <2>1. Reads(r, <<b>>, Kept(r, b, b), TRUE)
    BY <1>2, <1>3, PlainRead
  <2>2. Kept(r, b, b) = Stored([r EXCEPT !.sum = 0], b)
    <3> HIDE DEF b
    <3> QED
      BY <1>2 DEF Kept, c
  <2> QED
    BY <1>2, <1>3, <2>1, <2>2 DEF SentChecksum, c
<1>4. CASE b \in Control
  <2>0. c + Escape \in Nat
    BY <1>1, SymbolFacts
  <2>1. (c + Escape) % Modulus \in Symbol
    BY <2>0, Remainder
  <2>2. d \in Symbol /\ (((c + Escape) % Modulus) + d) % Modulus = 0
    BY <2>1, NegatedTyped, Cancels
  <2> HIDE DEF d
  <2>3. (c + (Escape + d)) % Modulus = 0
    BY <1>1, <2>2, SymbolFacts, SumOfSums
  <2>4. Reads(r, <<Escape, d>>, Kept(r, d, Escape + d), TRUE)
    BY <2>2, EscapedRead
  <2>5. Kept(r, d, Escape + d) = Stored([r EXCEPT !.sum = 0], d)
    BY <2>3 DEF Kept, c
  <2> QED
    BY <1>4, <2>2, <2>4, <2>5 DEF SentChecksum, c, d
<1> QED
  BY <1>3, <1>4

-----------------------------------------------------------------------------
(* The receiver never stays behind an escape character                     *)

\* The receiver does not wait for the symbol behind an escape character.
Aligned(r) == r.mode # "EscapeChar"

LEMMA StoredMode == ASSUME NEW r \in Counted, NEW b \in Symbol PROVE Stored(r, b).mode = r.mode
  BY DEF Stored, Counted

LEMMA AfterAligned ==
    ASSUME NEW r \in Counted, NEW b \in Symbol,
           b # Escape \/ r.mode # "Payload"
    PROVE  Aligned(After(r, b))
<1>1. CASE Completes(r, b)
  BY <1>1 DEF After, Aligned, Fresh
<1>2. CASE ~Completes(r, b) /\ Begins(r, b)
  BY <1>2 DEF After, Aligned, Accepted, Restarted, Fresh
<1>3. CASE ~Completes(r, b) /\ ~Begins(r, b) /\ TooLong(r)
  BY <1>3 DEF After, Aligned, Accepted, Counted
<1>4. CASE ~Completes(r, b) /\ ~Begins(r, b) /\ ~TooLong(r)
  <2> DEFINE m == ModeAt(r, b)
             s == [r EXCEPT !.mode = m, !.sum = (@ + b) % Modulus]
  <2>1. m \in Mode /\ (m = "Payload" => b # Escape)
    BY DEF ModeAt, Counted, Mode
  <2>2. Accepted(r, b) =
          CASE m = "Payload" /\ b = Escape -> [s EXCEPT !.mode = "EscapeChar"]
            [] m = "Payload" /\ b # Escape -> Stored(s, b)
            [] m = "EscapeChar" -> Stored([s EXCEPT !.mode = "Payload"], b)
            [] m = "PacketEnd" -> Restarted(IF s.sum = End THEN "Unknown" ELSE m)
            [] m = "Unknown" -> s
    BY <1>4 DEF Accepted
  <2>3. s.mode = m /\ [s EXCEPT !.mode = "Payload"].mode = "Payload"
    BY DEF Counted
  <2>4. Stored(s, b).mode = m /\ Stored([s EXCEPT !.mode = "Payload"], b).mode = "Payload"
    BY <2>3 DEF Stored, Counted
  <2> HIDE DEF m, s
  <2>5. Restarted(IF s.sum = End THEN "Unknown" ELSE m).mode \in {"Unknown", m}
    BY DEF Restarted, Fresh
  <2>6. Aligned(Accepted(r, b))
    BY <2>1, <2>2, <2>3, <2>4, <2>5 DEF Aligned, Mode
  <2> QED
    BY <1>4, <2>6 DEF After
<1> QED
  BY <1>1, <1>2, <1>3, <1>4

LEMMA EscapeAligned ==
    ASSUME NEW r \in Counted, Aligned(r)
    PROVE  After(r, Escape).mode # "Payload"
<1> DEFINE m == r.mode
           s == [r EXCEPT !.mode = m, !.sum = (@ + Escape) % Modulus]
<1>1. Escape # Begin /\ Escape # End
  BY SymbolAssumption
<1>2. ~Begins(r, Escape) /\ ModeAt(r, Escape) = m
  BY <1>1 DEF Begins, ModeAt
<1>3. CASE Completes(r, Escape)
  BY <1>3 DEF After, Fresh
<1>4. CASE ~Completes(r, Escape) /\ TooLong(r)
  BY <1>2, <1>4 DEF After, Accepted, Counted
<1>5. CASE ~Completes(r, Escape) /\ ~TooLong(r)
  <2>1. m \in Mode \ {"EscapeChar"} /\ s.mode = m
    BY DEF Aligned, Counted
  <2>2. Accepted(r, Escape) =
          CASE m = "Payload" -> [s EXCEPT !.mode = "EscapeChar"]
            [] m = "EscapeChar" -> Stored([s EXCEPT !.mode = "Payload"], Escape)
            [] m = "PacketEnd" -> Restarted(IF s.sum = End THEN "Unknown" ELSE m)
            [] m = "Unknown" -> s
    BY <1>2, <1>5, <2>1 DEF Accepted, Mode
  <2>3. [s EXCEPT !.mode = "EscapeChar"].mode = "EscapeChar"
    BY DEF Counted
  <2> HIDE DEF m, s
  <2>4. Restarted(IF s.sum = End THEN "Unknown" ELSE m).mode \in {"Unknown", m}
    BY DEF Restarted, Fresh
  <2>5. Accepted(r, Escape).mode # "Payload"
    BY <2>1, <2>2, <2>3, <2>4 DEF Mode
  <2> QED
    BY <1>5, <2>5 DEF After
<1> QED
  BY <1>3, <1>4, <1>5

\* Symbols after which the receiver is aligned if it was before.
Keeps(w) == \A r \in Counted : Aligned(r) => \E s \in Counted : Aligned(s) /\ Reads(r, w, s, FALSE)

LEMMA EscapedKeeps == ASSUME NEW b \in Symbol PROVE Keeps(<<Escape, b>>)
<1> SUFFICES ASSUME NEW r \in Counted, Aligned(r)
             PROVE  \E s \in Counted : Aligned(s) /\ Reads(r, <<Escape, b>>, s, FALSE)
  BY DEF Keeps
<1> DEFINE t == After(r, Escape)
           s == After(t, b)
<1>1. t \in Counted /\ Reads(r, <<Escape>>, t, FALSE)
  BY SymbolFacts, AfterCounted, ReadsOne
<1>2. <<Escape>> \in Seq(Symbol) /\ <<b>> \in Seq(Symbol) /\ <<Escape>> \o <<b>> = <<Escape, b>>
  BY SymbolFacts, Pair
<1> HIDE DEF t
<1>3. s \in Counted /\ Reads(t, <<b>>, s, FALSE)
  BY <1>1, AfterCounted, ReadsOne
<1>4. Reads(r, <<Escape, b>>, s, FALSE)
  BY <1>1, <1>2, <1>3, ReadsOn
<1>5. Aligned(s)
  BY <1>1, EscapeAligned, AfterAligned DEF t
<1> QED
  BY <1>3, <1>4, <1>5

LEMMA PlainKeeps == ASSUME NEW b \in Symbol \ {Escape} PROVE Keeps(<<b>>)
<1> SUFFICES ASSUME NEW r \in Counted, Aligned(r)
             PROVE  \E s \in Counted : Aligned(s) /\ Reads(r, <<b>>, s, FALSE)
  BY DEF Keeps
<1> QED
  BY AfterCounted, ReadsOne, AfterAligned

LEMMA SentKeeps ==
    /\ \A b \in Symbol : Keeps(Sent(b))
    /\ \A c \in Symbol : Keeps(SentChecksum(c))
    /\ Keeps(<<End>>)
<1>1. ASSUME NEW b \in Symbol PROVE Keeps(Sent(b))
  <2>1. CASE b \in Control
    BY <2>1, EscapedKeeps DEF Sent
  <2>2. CASE b \notin Control
    BY <2>2, PlainKeeps DEF Sent, Control
  <2> QED
    BY <2>1, <2>2
<1>2. ASSUME NEW c \in Symbol PROVE Keeps(SentChecksum(c))
  <2>0. c + Escape \in Nat
    BY SymbolFacts
  <2>1. Negated(c) \in Symbol /\ Negated((c + Escape) % Modulus) \in Symbol
    BY <2>0, Remainder, NegatedTyped
  <2>2. CASE Negated(c) \in Control
    BY <2>1, <2>2, EscapedKeeps DEF SentChecksum
  <2>3. CASE Negated(c) \notin Control
    BY <2>1, <2>3, PlainKeeps DEF SentChecksum, Control
  <2> QED
    BY <2>2, <2>3
<1>3. Keeps(<<End>>)
  BY PlainKeeps, SymbolFacts, SymbolAssumption
<1> QED
  BY <1>1, <1>2, <1>3

\* The receiver reads what is on the line and ends up aligned.
Ends(r, w) == \E s \in Counted : Aligned(s) /\ Reads(r, w, s, FALSE)

LEMMA EndsOn ==
    ASSUME NEW r, NEW w \in Seq(Symbol), NEW v \in Seq(Symbol), Ends(r, w), Keeps(v)
    PROVE  Ends(r, w \o v)
<1>1. PICK s \in Counted : Aligned(s) /\ Reads(r, w, s, FALSE)
  BY DEF Ends
<1>2. PICK t \in Counted : Aligned(t) /\ Reads(s, v, t, FALSE)
  BY <1>1 DEF Keeps
<1>3. Reads(r, w \o v, t, FALSE)
  BY <1>1, <1>2, ReadsOn
<1> QED
  BY <1>2, <1>3 DEF Ends

LEMMA EndsFirst ==
    ASSUME NEW r, NEW w \in Seq(Symbol), w # <<>>, Ends(r, w)
    PROVE  Ends(After(r, Head(w)), Tail(w))
  BY ReadsFirst DEF Ends

LEMMA BeginEnds == ASSUME NEW r \in Counted PROVE Ends(r, <<Begin>>)
<1>1. Begin \in Symbol /\ Begin # Escape
  BY SymbolFacts, SymbolAssumption
<1> QED
  BY <1>1, AfterCounted, ReadsOne, AfterAligned DEF Ends

-----------------------------------------------------------------------------
(* A frame                                                                 *)

\* The receiver when it has read all of the frame that is sent so far, and when
\* only the end is missing.
Whole(p, c) == [id |-> p.id, packet |-> p.payload, mode |-> "Payload",
                received |-> Len(p.payload) + 1, sum |-> c]
Summed(p, c) == [id |-> p.id, packet |-> Append(p.payload, c), mode |-> "Payload",
                 received |-> Len(p.payload) + 2, sum |-> 0]

LEMMA WholeCounted ==
    ASSUME NEW p \in Packet, Fits(p), NEW c \in Symbol
    PROVE  /\ Whole(p, c) \in Counted /\ Whole(p, c).mode = "Payload"
           /\ Whole(p, c).received < MaxPacketLen /\ Whole(p, c).sum = c
           /\ Summed(p, c) \in Counted
<1> DEFINE q == p.payload
<1>1. q \in Seq(Symbol) /\ p.id \in Symbol /\ Len(q) \in Nat
      /\ Append(q, c) \in Seq(Symbol) /\ Len(Append(q, c)) = Len(q) + 1
  BY DEF Packet
<1>2. Len(q) + 2 < MaxPacketLen
  BY DEF Fits
<1>3. Whole(p, c) = [id |-> p.id, packet |-> q, mode |-> "Payload", received |-> Len(q) + 1, sum |-> c]
      /\ Summed(p, c) = [id |-> p.id, packet |-> Append(q, c), mode |-> "Payload",
                         received |-> Len(q) + 2, sum |-> 0]
  BY DEF Whole, Summed
<1> HIDE DEF q
<1>4. /\ Len(q) + 1 \in 0 .. MaxPacketLen /\ Len(q) + 1 > 0 /\ Len(q) = Len(q) + 1 - 1
      /\ Len(q) + 2 \in 0 .. MaxPacketLen /\ Len(q) + 2 > 0 /\ Len(q) + 1 = Len(q) + 2 - 1
      /\ Len(q) + 1 < MaxPacketLen /\ "Payload" \in Mode
  BY <1>1, <1>2, SizeAssumption DEF Mode
<1>5. Whole(p, c) \in Counted
  BY <1>1, <1>3, <1>4 DEF Counted
<1>6. Summed(p, c) \in Counted
  BY <1>1, <1>3, <1>4, SymbolFacts DEF Counted
<1> QED
  BY <1>3, <1>4, <1>5, <1>6

\* One byte more behind those that are stored.
LEMMA StoredBehind ==
    ASSUME NEW i, NEW q, NEW n \in Nat \ {0}, NEW c, NEW b
    PROVE  Stored([id |-> i, packet |-> q, mode |-> "Payload", received |-> n, sum |-> c], b)
           = [id |-> i, packet |-> Append(q, b), mode |-> "Payload", received |-> n + 1, sum |-> c]
<1> DEFINE r == [id |-> i, packet |-> q, mode |-> "Payload", received |-> n, sum |-> c]
<1>1. r.received # 0
  OBVIOUS
<1>2. Stored(r, b) = [r EXCEPT !.packet = Append(@, b), !.received = @ + 1]
  BY <1>1 DEF Stored
<1> QED
  BY <1>2

\* The header and the identifier.
LEMMA HeaderRead ==
    ASSUME NEW r \in Counted, Aligned(r), NEW i \in Symbol
    PROVE  Reads(r, <<Begin>> \o Sent(i), Whole([id |-> i, payload |-> <<>>], SumOfSent(i) % Modulus), TRUE)
<1> DEFINE n == SumOfSent(i)
           p == [id |-> i, payload |-> <<>>]
           s == Restarted("Payload")
<1>1. Begins(r, Begin)
  BY DEF Aligned, Begins
<1>2. ~Completes(r, Begin) /\ After(r, Begin) = s
  BY <1>1 DEF Completes, After, Accepted
<1>3. Reads(r, <<Begin>>, s, TRUE)
  BY <1>2, SymbolFacts, ReadsOne
<1>4. s = [id |-> 0, packet |-> <<>>, mode |-> "Payload", received |-> 0, sum |-> 0]
  BY DEF Restarted, Fresh
<1>5. s \in Counted
  BY FreshCounted DEF Mode
<1>6. n \in Nat /\ Sent(i) \in Seq(Symbol)
  BY SentTyped
<1> HIDE DEF s, n
<1>7. Reads(s, Sent(i), Kept(s, i, n), TRUE)
  <2>1. s.mode = "Payload" /\ s.received < MaxPacketLen
    BY <1>4, SizeAssumption
  <2> QED
    BY <1>5, <2>1, ByteRead DEF n
<1>8. Kept(s, i, n) = Whole(p, n % Modulus)
  <2>1. [s EXCEPT !.sum = (@ + n) % Modulus]
        = [id |-> 0, packet |-> <<>>, mode |-> "Payload", received |-> 0, sum |-> n % Modulus]
    BY <1>4, <1>6
  <2>2. Kept(s, i, n) = [id |-> i, packet |-> <<>>, mode |-> "Payload", received |-> 1, sum |-> n % Modulus]
    BY <2>1 DEF Kept, Stored
  <2>3. Len(<<>>) + 1 = 1
    OBVIOUS
  <2>4. Whole(p, n % Modulus) = [id |-> i, packet |-> <<>>, mode |-> "Payload",
                                 received |-> 1, sum |-> n % Modulus]
    BY <2>3 DEF Whole
  <2> QED
    BY <2>2, <2>4
<1>9. <<Begin>> \in Seq(Symbol)
  BY SymbolFacts
<1> QED
  BY <1>3, <1>6, <1>7, <1>8, <1>9, ReadsOn DEF n

\* A byte of the payload.
LEMMA PayloadRead ==
    ASSUME NEW p \in Packet, Fits(p), NEW c \in Symbol, NEW b \in Symbol
    PROVE  Reads(Whole(p, c), Sent(b),
                 Whole([p EXCEPT !.payload = Append(@, b)], (c + SumOfSent(b)) % Modulus), TRUE)
<1> DEFINE r == Whole(p, c)
           q == p.payload
           n == SumOfSent(b)
           m == (c + n) % Modulus
<1>1. r \in Counted /\ r.mode = "Payload" /\ r.received < MaxPacketLen
  BY WholeCounted
<1>2. Reads(r, Sent(b), Kept(r, b, n), TRUE)
  BY <1>1, ByteRead
<1>3. r = [id |-> p.id, packet |-> q, mode |-> "Payload", received |-> Len(q) + 1, sum |-> c]
  BY DEF Whole
<1>4. q \in Seq(Symbol) /\ Len(q) \in Nat /\ Len(Append(q, b)) = Len(q) + 1
  BY DEF Packet
<1>5. [p EXCEPT !.payload = Append(@, b)] = [id |-> p.id, payload |-> Append(q, b)]
  BY DEF Packet
<1> HIDE DEF r, q, n
<1>6. [r EXCEPT !.sum = (@ + n) % Modulus]
      = [id |-> p.id, packet |-> q, mode |-> "Payload", received |-> Len(q) + 1, sum |-> m]
  BY <1>3
<1>7. Kept(r, b, n) = [id |-> p.id, packet |-> Append(q, b), mode |-> "Payload",
                       received |-> (Len(q) + 1) + 1, sum |-> m]
  <2> DEFINE k == Len(q) + 1
             t == [id |-> p.id, packet |-> q, mode |-> "Payload", received |-> k, sum |-> m]
  <2>1. k \in Nat \ {0}
    BY <1>4
  <2> HIDE DEF k, m
  <2>2. Stored(t, b) = [id |-> p.id, packet |-> Append(q, b), mode |-> "Payload",
                        received |-> k + 1, sum |-> m]
    <3>1. t.received # 0
      BY <2>1
    <3>2. Stored(t, b) = [t EXCEPT !.packet = Append(@, b), !.received = @ + 1]
      BY <3>1 DEF Stored
    <3> QED
      BY <3>2
  <2>3. Kept(r, b, n) = Stored(t, b)
    BY <1>6 DEF Kept, k
  <2> QED
    BY <2>2, <2>3 DEF k
<1>8. Whole([id |-> p.id, payload |-> Append(q, b)], m)
      = [id |-> p.id, packet |-> Append(q, b), mode |-> "Payload",
         received |-> (Len(q) + 1) + 1, sum |-> m]
  BY <1>4 DEF Whole
<1> QED
  BY <1>2, <1>5, <1>7, <1>8 DEF r, n

\* The checksum.
LEMMA TrailerRead ==
    ASSUME NEW p \in Packet, Fits(p), NEW c \in Symbol
    PROVE  \E b \in Symbol : Reads(Whole(p, c), SentChecksum(c), Summed(p, b), TRUE)
<1> DEFINE r == Whole(p, c)
           q == p.payload
<1>1. r \in Counted /\ r.mode = "Payload" /\ r.received < MaxPacketLen /\ r.sum = c
  BY WholeCounted
<1>2. PICK b \in Symbol : Reads(r, SentChecksum(c), Stored([r EXCEPT !.sum = 0], b), TRUE)
  BY <1>1, ChecksumRead
<1>3. r = [id |-> p.id, packet |-> q, mode |-> "Payload", received |-> Len(q) + 1, sum |-> c]
  BY DEF Whole
<1>4. Len(q) \in Nat
  BY DEF Packet
<1> HIDE DEF r
<1>5. Stored([r EXCEPT !.sum = 0], b) = Summed(p, b)
  <2> HIDE DEF q
  <2>1. [r EXCEPT !.sum = 0]
        = [id |-> p.id, packet |-> q, mode |-> "Payload", received |-> Len(q) + 1, sum |-> 0]
    BY <1>3
  <2>2. Stored([r EXCEPT !.sum = 0], b)
        = [id |-> p.id, packet |-> Append(q, b), mode |-> "Payload",
           received |-> (Len(q) + 1) + 1, sum |-> 0]
    <3> DEFINE k == Len(q) + 1
    <3>1. k \in Nat \ {0}
      BY <1>4
    <3> HIDE DEF k
    <3>2. Stored([id |-> p.id, packet |-> q, mode |-> "Payload", received |-> k, sum |-> 0], b)
          = [id |-> p.id, packet |-> Append(q, b), mode |-> "Payload", received |-> k + 1, sum |-> 0]
      BY <3>1, StoredBehind
    <3> QED
      BY <2>1, <3>2 DEF k
  <2>3. (Len(q) + 1) + 1 = Len(q) + 2
    BY <1>4
  <2> QED
    BY <2>2, <2>3 DEF Summed, q
<1> QED
  BY <1>2, <1>5 DEF r

\* With the end the packet is complete, and it is the one that was sent.
LEMMA SummedCompletes ==
    ASSUME NEW p \in Packet, Fits(p), NEW c \in Symbol
    PROVE  Completes(Summed(p, c), End) /\ Received(Summed(p, c)) = p
<1> DEFINE q == p.payload
           s == Summed(p, c)
<1>1. s = [id |-> p.id, packet |-> Append(q, c), mode |-> "Payload", received |-> Len(q) + 2, sum |-> 0]
  BY DEF Summed
<1>2. q \in Seq(Symbol) /\ Len(q) \in Nat /\ p = [id |-> p.id, payload |-> q]
  BY DEF Packet
<1>3. Len(q) + 2 < MaxPacketLen
  BY DEF Fits
<1> HIDE DEF s, q
<1>4. ~Begins(s, End)
  BY SymbolAssumption DEF Begins
<1>5. ~TooLong(s)
  BY <1>1, <1>2, <1>3, SizeAssumption DEF TooLong
<1>6. ModeAt(s, End) = "PacketEnd"
  BY <1>1 DEF ModeAt
<1>7. (s.sum + End) % Modulus = End
  <2>1. Modulus \in Nat \ {0} /\ End \in 0 .. Modulus - 1
    BY SymbolFacts DEF Symbol
  <2> QED
    BY <1>1, <2>1
<1>8. s.received >= 2
  BY <1>1, <1>2
<1>9. SubSeq(Append(q, c), 1, Len(q)) = q
  <2>1. Append(q, c) = q \o <<c>> /\ <<c>> \in Seq(Symbol)
    BY <1>2
  <2> QED
    BY <1>2, AppendProperties
<1>10. Received(s) = [id |-> p.id, payload |-> q]
  <2>1. s.received - 2 = Len(q)
    BY <1>1, <1>2
  <2> QED
    BY <1>1, <1>9, <2>1 DEF Received
<1> QED
  BY <1>2, <1>4, <1>5, <1>6, <1>7, <1>8, <1>10 DEF Completes, s

-----------------------------------------------------------------------------
(* In step                                                                 *)

\* Without a buffer there is no packet either.
StarvedFresh == ~buffer => State = Fresh

\* Behind a frame of which nothing was lost no escape character waits for its
\* second symbol.
AlignedBetween == synced /\ phase = "idle" /\ wire = <<>> => Aligned(State)

\* Nor does one at the end of what is on the line.
AlignedAtEnd == intact => Ends(State, wire)

\* What is on the line takes the receiver to the frame as far as it is sent, or
\* to its end.
Follows ==
    intact /\ synced /\ Fits(frame) =>
      \/ phase # "idle" /\ Reads(State, wire, Whole(frame, checksum), TRUE)
      \/ phase = "idle" /\ wire = <<>>
      \/ /\ phase = "idle"
         /\ \E w \in Seq(Symbol), c \in Symbol : /\ wire = w \o <<End>>
                                                 /\ Reads(State, w, Summed(frame, c), TRUE)

Clean == clean => intact /\ synced /\ (phase # "idle" \/ wire # <<>> => Fits(frame))

Sound == StarvedFresh /\ AlignedBetween /\ AlignedAtEnd /\ Follows /\ Clean

LEMMA CurrentState == StarvedFresh => Current = State
  BY DEF StarvedFresh, Current

LEMMA SentNotEmpty == \A b : Len(Sent(b)) \in {1, 2}
  BY DEF Sent

LEMMA InitSound == Init => Sound
<1> SUFFICES ASSUME Init PROVE Sound
  OBVIOUS
<1>1. State = Fresh /\ Aligned(Fresh)
  BY DEF Init, State, Fresh, Aligned
<1>2. Reads(Fresh, <<>>, Fresh, FALSE)
  BY FreshCounted, ReadsNothing
<1>3. Ends(State, wire)
  BY <1>1, <1>2, FreshCounted DEF Ends, Init
<1> QED
  BY <1>1, <1>3 DEF Sound, StarvedFresh, AlignedBetween, AlignedAtEnd, Follows, Clean, Init

\* A step that leaves the receiver alone.
LEMMA ReceiverState ==
    UNCHANGED receiver => State' = State /\ (StarvedFresh => StarvedFresh')
  BY DEF receiver, State, StarvedFresh, Fresh

LEMMA HeaderSound ==
    ASSUME TypeOK, Sound, NEW i \in Ids, Header(i), phase' # "idle"
    PROVE  Sound'
<1>1. i \in Symbol
  BY PacketAssumption
<1>2. State \in Counted
  BY StateCounted
<1>3. UNCHANGED <<receiver, synced>> /\ wire' = <<Begin>> \o Sent(i) /\ intact' = TRUE
      /\ checksum' = SumOfSent(i) % Modulus /\ phase = "idle" /\ wire = <<>>
      /\ frame' = [id |-> i, payload |-> <<>>] /\ clean' = (clean /\ Fits(frame'))
  BY DEF Header, Framed
<1>4. State' = State /\ StarvedFresh'
  BY <1>3, ReceiverState DEF Sound
<1>5. AlignedBetween'
  BY DEF AlignedBetween
<1>6. AlignedAtEnd'
  <2>1. Ends(State, <<Begin>> \o Sent(i))
    <3>1. <<Begin>> \in Seq(Symbol) /\ Sent(i) \in Seq(Symbol)
      BY <1>1, SymbolFacts, SentTyped
    <3>2. Ends(State, <<Begin>>) /\ Keeps(Sent(i))
      BY <1>1, <1>2, BeginEnds, SentKeeps
    <3> QED
      BY <3>1, <3>2, EndsOn
  <2> QED
    BY <1>3, <1>4, <2>1 DEF AlignedAtEnd
<1>7. Follows'
  <2>1. synced => Aligned(State)
    BY <1>3 DEF Sound, AlignedBetween
  <2>2. synced => Reads(State', wire', Whole(frame', checksum'), TRUE)
    BY <1>1, <1>2, <1>3, <1>4, <2>1, HeaderRead
  <2> QED
    BY <1>3, <2>2 DEF Follows
<1>8. Clean'
  <2>1. wire' = <<Begin>> \o Sent(i)
    BY <1>3
  <2> QED
    BY <1>3 DEF Clean, Sound
<1> QED
  BY <1>4, <1>5, <1>6, <1>7, <1>8 DEF Sound

LEMMA SendByteSound ==
    ASSUME TypeOK, Sound, NEW b \in Symbol, SendByte(b), phase # "idle"
    PROVE  Sound'
<1>1. State \in Counted /\ wire \in Seq(Symbol) /\ checksum \in Symbol /\ frame \in Packet
  BY StateCounted DEF TypeOK
<1>2. UNCHANGED <<phase, receiver, intact, synced>> /\ wire' = wire \o Sent(b)
      /\ checksum' = (checksum + SumOfSent(b)) % Modulus
      /\ frame' = [frame EXCEPT !.payload = Append(@, b)] /\ clean' = (clean /\ Fits(frame'))
  BY DEF SendByte, Framed
<1>3. State' = State /\ StarvedFresh'
  BY <1>2, ReceiverState DEF Sound
<1>4. AlignedBetween'
  BY <1>2 DEF AlignedBetween
<1>5. AlignedAtEnd'
  <2>1. intact => Ends(State, wire \o Sent(b))
    BY <1>1, SentTyped, SentKeeps, EndsOn DEF Sound, AlignedAtEnd
  <2> QED
    BY <1>2, <1>3, <2>1 DEF AlignedAtEnd
<1>6. Fits(frame') => Fits(frame)
  <2>1. frame'.payload = Append(frame.payload, b) /\ frame.payload \in Seq(Symbol)
    BY <1>1, <1>2 DEF Packet
  <2>2. Len(frame'.payload) = Len(frame.payload) + 1 /\ Len(frame.payload) \in Nat
    BY <2>1
  <2> QED
    BY <2>2, SizeAssumption DEF Fits
<1>7. Follows'
  <2> SUFFICES ASSUME intact, synced, Fits(frame)
               PROVE  Reads(State', wire', Whole(frame', checksum'), TRUE)
    BY <1>2, <1>6 DEF Follows
  <2>1. Reads(State, wire, Whole(frame, checksum), TRUE)
    BY DEF Sound, Follows
  <2>2. Reads(Whole(frame, checksum), Sent(b), Whole(frame', checksum'), TRUE)
    BY <1>1, <1>2, PayloadRead
  <2>3. Reads(State, wire \o Sent(b), Whole(frame', checksum'), TRUE)
    BY <1>1, <2>1, <2>2, SentTyped, ReadsOn
  <2> QED
    BY <1>2, <1>3, <2>3
<1>8. Clean'
  BY <1>2 DEF Clean, Sound
<1> QED
  BY <1>3, <1>4, <1>5, <1>7, <1>8 DEF Sound

LEMMA TrailerSound ==
    ASSUME TypeOK, Sound, Trailer, phase # "idle"
    PROVE  Sound'
<1> DEFINE v == SentChecksum(checksum)
<1>1. State \in Counted /\ wire \in Seq(Symbol) /\ checksum \in Symbol /\ frame \in Packet
      /\ v \in Seq(Symbol) /\ <<End>> \in Seq(Symbol)
  BY StateCounted, SentChecksumTyped, SymbolFacts DEF TypeOK
<1>2. UNCHANGED <<receiver, frame, intact, synced, clean>> /\ wire' = wire \o v \o <<End>>
      /\ phase' = "idle"
  BY DEF Trailer, history
<1> HIDE DEF v
<1>3. State' = State /\ StarvedFresh'
  BY <1>2, ReceiverState DEF Sound
<1>4. wire \o v \in Seq(Symbol) /\ wire' # <<>>
  BY <1>1, <1>2, ConcatProperties, ConcatEqualIffEmpty
<1>5. AlignedBetween'
  BY <1>4 DEF AlignedBetween
<1>6. AlignedAtEnd'
  <2>1. intact => Ends(State, wire \o v)
    BY <1>1, SentKeeps, EndsOn DEF Sound, AlignedAtEnd, v
  <2>2. intact => Ends(State, wire \o v \o <<End>>)
    BY <1>1, <1>4, <2>1, SentKeeps, EndsOn
  <2> QED
    BY <1>2, <1>3, <2>2 DEF AlignedAtEnd
<1>7. Follows'
  <2> SUFFICES ASSUME intact, synced, Fits(frame)
               PROVE  \E w \in Seq(Symbol), c \in Symbol :
                        wire' = w \o <<End>> /\ Reads(State', w, Summed(frame', c), TRUE)
    BY <1>2 DEF Follows
  <2>1. Reads(State, wire, Whole(frame, checksum), TRUE)
    BY DEF Sound, Follows
  <2>2. PICK c \in Symbol : Reads(Whole(frame, checksum), v, Summed(frame, c), TRUE)
    BY <1>1, TrailerRead DEF v
  <2>3. Reads(State, wire \o v, Summed(frame, c), TRUE)
    BY <1>1, <2>1, <2>2, ReadsOn
  <2> QED
    BY <1>2, <1>3, <1>4, <2>3
<1>8. Clean'
  BY <1>2 DEF Clean, Sound
<1> QED
  BY <1>3, <1>5, <1>6, <1>7, <1>8 DEF Sound

LEMMA SendSound == ASSUME TypeOK, Sound, Send PROVE Sound'
<1>1. ASSUME NEW i \in Ids, NEW payload \in Payloads, SendMessage(i, payload) PROVE Sound'
  BY <1>1, HeaderSound DEF SendMessage
<1>2. ASSUME NEW i \in Ids, BeginTransmittingFrame(i) PROVE Sound'
  BY <1>2, HeaderSound DEF BeginTransmittingFrame
<1>3. ASSUME NEW b \in Pieces, SendInsideFrame(b) PROVE Sound'
  BY <1>3, SendByteSound, PacketAssumption DEF SendInsideFrame
<1>4. CASE SendMessageByte
  <2>1. Head(rest) \in Symbol
    BY <1>4 DEF SendMessageByte, TypeOK
  <2> QED
    BY <1>4, <2>1, SendByteSound DEF SendMessageByte
<1>5. CASE SendMessageEnds
  BY <1>5, TrailerSound DEF SendMessageEnds
<1>6. CASE EndTransmittingFrame
  BY <1>6, TrailerSound DEF EndTransmittingFrame
<1> QED
  BY <1>1, <1>2, <1>3, <1>4, <1>5, <1>6 DEF Send

\* A symbol that is lost, on the line or for want of a buffer.
LEMMA LostSound ==
    ASSUME TypeOK, Sound, Takes(FALSE), StarvedFresh'
    PROVE  Sound'
<1>1. wire \in Seq(Symbol) /\ wire # <<>> /\ wire' = Tail(wire) /\ ~intact' /\ ~clean' /\ phase' = phase
      /\ (Len(wire) = 1 /\ phase = "idle" => ~synced')
  BY DEF Takes, TypeOK, sender
<1>2. wire' = <<>> => Len(wire) = 1
  <2>1. Len(Tail(wire)) = Len(wire) - 1 /\ Len(wire) \in Nat
    BY <1>1, HeadTailProperties
  <2>2. wire' = <<>> => Len(Tail(wire)) = 0
    BY <1>1, EmptySeq
  <2> QED
    BY <2>1, <2>2
<1> QED
  BY <1>1, <1>2 DEF Sound, AlignedBetween, AlignedAtEnd, Follows, Clean

\* A symbol that is received.
LEMMA TakenSound ==
    ASSUME TypeOK, Sound, Takes(TRUE), StarvedFresh', State' = After(State, Head(wire))
    PROVE  Sound'
<1>1. wire \in Seq(Symbol) /\ wire # <<>> /\ wire' = Tail(wire) /\ intact' = intact /\ clean' = clean
      /\ phase' = phase /\ frame' = frame /\ checksum' = checksum
      /\ synced' = IF Len(wire) = 1 /\ phase = "idle" THEN intact ELSE synced
  BY DEF Takes, TypeOK, sender
<1>2. Len(wire) \in Nat /\ Len(Tail(wire)) = Len(wire) - 1 /\ Tail(wire) \in Seq(Symbol)
      /\ (wire' = <<>> <=> Len(wire) = 1)
  <2>1. Len(wire) \in Nat /\ Len(Tail(wire)) = Len(wire) - 1 /\ Tail(wire) \in Seq(Symbol)
    BY <1>1, HeadTailProperties
  <2>2. wire' = <<>> => Len(Tail(wire)) = 0
    BY <1>1, EmptySeq
  <2>3. Len(Tail(wire)) = 0 => Tail(wire) = <<>>
    BY <2>1, EmptySeq
  <2> QED
    BY <1>1, <2>1, <2>2, <2>3
<1>3. AlignedAtEnd'
  BY <1>1, EndsFirst DEF Sound, AlignedAtEnd
<1>4. AlignedBetween'
  <2> SUFFICES ASSUME synced', phase = "idle", wire' = <<>> PROVE Aligned(State')
    BY <1>1 DEF AlignedBetween
  <2>1. intact'
    BY <1>1, <1>2
  <2>2. PICK s \in Counted : Aligned(s) /\ Reads(State', wire', s, FALSE)
    BY <1>3, <2>1 DEF AlignedAtEnd, Ends
  <2>3. s = State'
    BY <2>2, NothingRead
  <2> QED
    BY <2>2, <2>3
<1>5. Follows'
  <2> SUFFICES ASSUME intact, synced, Fits(frame), phase # "idle" \/ wire' # <<>>
               PROVE  \/ phase # "idle" /\ Reads(State', wire', Whole(frame, checksum), TRUE)
                      \/ /\ phase = "idle"
                         /\ \E w \in Seq(Symbol), c \in Symbol :
                              wire' = w \o <<End>> /\ Reads(State', w, Summed(frame, c), TRUE)
    BY <1>1, <1>2 DEF Follows
  <2>1. CASE phase # "idle"
    BY <1>1, <2>1, ReadsFirst DEF Sound, Follows
  <2>2. CASE phase = "idle"
    <3>1. PICK w \in Seq(Symbol), c \in Symbol :
            wire = w \o <<End>> /\ Reads(State, w, Summed(frame, c), TRUE)
      BY <1>1, <2>2 DEF Sound, Follows
    <3>2. w # <<>>
      <4>1. SUFFICES ASSUME w = <<>> PROVE Len(wire) = 1
        BY <1>2, <2>2
      <4>2. wire = <<End>>
        BY <3>1, <4>1, SymbolFacts, ConcatEmptySeq
      <4> QED
        BY <4>2
    <3>3. Head(wire) = Head(w) /\ Tail(wire) = Tail(w) \o <<End>> /\ Tail(w) \in Seq(Symbol)
      <4>1. wire = Append(w, End)
        BY <3>1, SymbolFacts, AppendIsConcat
      <4>2. Head(wire) = Head(w) /\ Tail(wire) = Append(Tail(w), End)
        BY <3>2, <4>1, SymbolFacts, HeadTailAppend
      <4>3. Tail(w) \in Seq(Symbol)
        BY <3>2, HeadTailProperties
      <4> QED
        BY <4>2, <4>3, SymbolFacts, AppendIsConcat
    <3>4. Reads(State', Tail(w), Summed(frame, c), TRUE)
      BY <3>1, <3>2, <3>3, ReadsFirst
    <3> QED
      BY <1>1, <2>2, <3>3, <3>4
  <2> QED
    BY <2>1, <2>2
<1>6. Clean'
  <2> SUFFICES ASSUME clean PROVE intact' /\ synced' /\ (phase # "idle" \/ wire' # <<>> => Fits(frame))
    BY <1>1 DEF Clean
  <2> QED
    BY <1>1 DEF Sound, Clean
<1> QED
  BY <1>3, <1>4, <1>5, <1>6 DEF Sound

LEMMA BecomesState == ASSUME NEW r \in Counted, Becomes(r) PROVE State' = r
  BY DEF Becomes, State, Counted

LEMMA ReceiveSound == ASSUME TypeOK, Sound, Receive PROVE Sound'
<1>0. State \in Counted /\ Current = State
  BY StateCounted, CurrentState DEF Sound
<1>1. CASE ReceiveStarved
  <2>1. State' = Fresh /\ Takes(FALSE)
    BY <1>1, FreshCounted, BecomesState DEF ReceiveStarved
  <2>2. StarvedFresh'
    BY <2>1 DEF StarvedFresh, Fresh
  <2> QED
    BY <2>1, <2>2, LostSound
<1>2. CASE ReceiveByte
  <2>1. Takes(TRUE) /\ Head(wire) \in Symbol /\ ~Completes(State, Head(wire))
    BY <1>0, <1>2, TakesTyped DEF ReceiveByte
  <2>2. State' = After(State, Head(wire))
    BY <1>0, <1>2, <2>1, AcceptedCounted, BecomesState DEF ReceiveByte, After
  <2>3. StarvedFresh'
    BY <1>2 DEF StarvedFresh, ReceiveByte
  <2> QED
    BY <2>1, <2>2, <2>3, TakenSound
<1>3. CASE ReceivePacket
  <2>1. Takes(TRUE) /\ Completes(State, Head(wire))
    BY <1>3 DEF ReceivePacket
  <2>2. State' = Fresh
    BY <1>3, FreshCounted, BecomesState DEF ReceivePacket, NextBuffer
  <2>3. State' = After(State, Head(wire)) /\ StarvedFresh'
    BY <2>1, <2>2 DEF StarvedFresh, Fresh, After
  <2> QED
    BY <2>1, <2>3, TakenSound
<1> QED
  BY <1>1, <1>2, <1>3 DEF Receive

LEMMA NextSound == TypeOK /\ Sound /\ [Next]_vars => Sound'
<1> SUFFICES ASSUME TypeOK, Sound, [Next]_vars PROVE Sound'
  OBVIOUS
<1>1. CASE Send
  BY <1>1, SendSound
<1>2. CASE Receive
  BY <1>2, ReceiveSound
<1>3. CASE Lose
  BY <1>3, ReceiverState, LostSound DEF Lose, Sound
<1>4. CASE Dispatch \/ UNCHANGED vars
  <2>1. /\ UNCHANGED <<sender, wire, buffer, id, packet, mode, received, sum, history>>
    BY <1>4 DEF Dispatch, vars, receiver
  <2>2. State' = State
    BY <2>1 DEF State
  <2>3. UNCHANGED <<phase, checksum, wire, buffer, frame, intact, synced, clean>>
    BY <2>1 DEF sender, history
  <2> QED
    BY <2>2, <2>3 DEF Sound, StarvedFresh, AlignedBetween, AlignedAtEnd, Follows, Clean, Fresh
<1> QED
  BY <1>1, <1>2, <1>3, <1>4 DEF Next

-----------------------------------------------------------------------------
(* What is posted                                                          *)

\* While the frame arrives, nothing is posted before its last symbol, and then it is.
LEMMA CompletesAtEnd ==
    ASSUME TypeOK, Sound, intact, synced, Fits(frame), wire # <<>>,
           Completes(State, Head(wire))
    PROVE  phase = "idle" /\ wire = <<End>>
<1>0. wire \in Seq(Symbol)
  BY DEF TypeOK
<1>1. phase = "idle"
  BY <1>0, ReadsFirst DEF Sound, Follows
<1>2. PICK w \in Seq(Symbol), c \in Symbol :
        wire = w \o <<End>> /\ Reads(State, w, Summed(frame, c), TRUE)
  BY <1>1 DEF Sound, Follows
<1>3. w = <<>>
  <2>1. SUFFICES ASSUME w # <<>> PROVE FALSE
    OBVIOUS
  <2>2. wire = Append(w, End)
    BY <1>2, SymbolFacts, AppendIsConcat
  <2>3. Head(wire) = Head(w)
    BY <2>1, <2>2, SymbolFacts, HeadTailAppend
  <2> QED
    BY <1>2, <2>1, <2>3, ReadsFirst
<1>4. wire = <<End>>
  BY <1>2, <1>3, SymbolFacts, ConcatEmptySeq
<1> QED
  BY <1>1, <1>4

LEMMA SummedAtEnd ==
    ASSUME TypeOK, Sound, intact, synced, Fits(frame), phase = "idle", wire # <<>>, Len(wire) = 1
    PROVE  \E c \in Symbol : wire = <<End>> /\ State = Summed(frame, c)
<1>1. PICK w \in Seq(Symbol), c \in Symbol :
        wire = w \o <<End>> /\ Reads(State, w, Summed(frame, c), TRUE)
  BY DEF Sound, Follows
<1>2. End \in Symbol /\ <<End>> \in Seq(Symbol) /\ Len(<<End>>) = 1
  BY SymbolFacts
<1>3. w = <<>>
  <2>1. Len(w) \in Nat /\ Len(wire) = Len(w) + 1
    BY <1>1, <1>2, ConcatProperties
  <2> QED
    BY <2>1, EmptySeq
<1>4. wire = <<End>> /\ State = Summed(frame, c)
  BY <1>1, <1>2, <1>3, ConcatEmptySeq, NothingRead
<1> QED
  BY <1>4

LEMMA EndCompletes ==
    ASSUME TypeOK, Sound, intact, synced, Fits(frame), phase = "idle", wire # <<>>, Len(wire) = 1
    PROVE  Completes(State, Head(wire)) /\ Received(State) = frame
<1>1. PICK c \in Symbol : wire = <<End>> /\ State = Summed(frame, c)
  BY SummedAtEnd
<1> QED
  BY <1>1, SummedCompletes DEF TypeOK

LEMMA OneLeft ==
    ASSUME TypeOK, wire # <<>>, Tail(wire) = <<>>
    PROVE  Len(wire) = 1
<1>1. Len(wire) \in Nat /\ Len(Tail(wire)) = Len(wire) - 1
  BY HeadTailProperties DEF TypeOK
<1>2. Len(<<>>) = 0
  BY EmptySeq
<1> QED
  BY <1>1, <1>2

\* A step that takes the last symbol of a frame is one of the receiver or the line.
LEMMA FrameEndsBy ==
    ASSUME TypeOK, [Next]_vars, FrameEnds
    PROVE  Receive \/ Lose
<1>1. wire' # wire
  BY DEF FrameEnds
<1>2. ~ UNCHANGED vars /\ ~Dispatch
  BY <1>1 DEF vars, Dispatch
<1>3. ASSUME NEW i \in Ids PROVE ~Header(i)
  BY DEF Header, FrameEnds
<1>4. ~Send
  BY <1>3 DEF Send, SendMessage, BeginTransmittingFrame, SendInsideFrame,
              SendMessageByte, SendMessageEnds, EndTransmittingFrame, FrameEnds
<1> QED
  BY <1>2, <1>4 DEF Next

LEMMA WholeAtEnd ==
    ASSUME TypeOK, [Next]_vars, FrameEnds, synced, synced'
    PROVE  Receive /\ ~ReceiveStarved /\ Takes(TRUE) /\ Len(wire) = 1 /\ intact
<1>1. ASSUME NEW u \in BOOLEAN, Takes(u) PROVE u /\ intact /\ Len(wire) = 1
  BY <1>1, OneLeft DEF Takes, FrameEnds
<1>2. Receive /\ ~ReceiveStarved
  BY <1>1, FrameEndsBy DEF Lose, ReceiveStarved
<1>3. Takes(TRUE)
  BY <1>2 DEF Receive, ReceiveByte, ReceivePacket
<1> QED
  BY <1>1, <1>2, <1>3

LEMMA StepsInStep ==
    ASSUME RingTakesPool, TypeOK, BuffersKept, Sound, [Next]_vars,
           FrameEnds, synced, synced', Fits(frame)
    PROVE  Posts(frame)
<1>1. Receive /\ ~ReceiveStarved /\ Len(wire) = 1 /\ intact
  BY WholeAtEnd
<1>2. Completes(State, Head(wire)) /\ Received(State) = frame
  BY <1>1, EndCompletes DEF FrameEnds
<1>3. ReceivePacket
  BY <1>1, <1>2, CurrentState DEF Receive, ReceiveByte, Sound
<1>4. posted < QueueSize
  <2>1. free + posted + 1 = PoolSize
    BY <1>3 DEF ReceivePacket, BuffersKept
  <2> QED
    BY <2>1, SizeAssumption DEF RingTakesPool, TypeOK
<1> QED
  BY <1>2, <1>3, <1>4 DEF ReceivePacket, Posts

\* If the ring has room for the pool: whatever was lost before, a frame that
\* arrives whole behind one that did is posted as it was sent, at its last symbol.
THEOREM FramesInStepAgain == ASSUME RingTakesPool PROVE Spec => InStepAgain
<1>1. Spec => []TypeOK
  BY TypeCorrect
<1>2. Spec => []BuffersKept
  BY BuffersConserved
<1>3. TypeOK /\ Sound /\ [Next]_vars => Sound'
  BY NextSound
<1>4. TypeOK /\ BuffersKept /\ Sound /\ [Next]_vars
        => [FrameEnds /\ synced /\ synced' /\ Fits(frame) => Posts(frame)]_vars
  BY StepsInStep
<1> QED
  BY <1>1, <1>2, <1>3, <1>4, InitSound, PTL DEF Spec, InStepAgain

LEMMA StepsInventNothing ==
    ASSUME TypeOK, Sound, [Next]_vars, clean', posted' > posted
    PROVE  FrameEnds /\ Posts(frame)
<1>1. ReceivePacket
  <2>1. posted \in Nat /\ posted' # posted
    BY DEF TypeOK
  <2>2. ~Send
    BY <2>1 DEF Send, SendMessage, BeginTransmittingFrame, SendInsideFrame, SendMessageByte,
                SendMessageEnds, EndTransmittingFrame, Header, SendByte, Trailer, receiver
  <2>3. ~Dispatch
    BY DEF Dispatch, TypeOK
  <2>5. ~ UNCHANGED vars /\ ~Lose
    BY <2>1 DEF vars, Lose, receiver
  <2>4. ~ReceiveStarved /\ ~ReceiveByte
    BY <2>1 DEF ReceiveStarved, ReceiveByte
  <2> QED
    BY <2>2, <2>3, <2>4, <2>5 DEF Next, Receive
<1>2. wire # <<>> /\ wire' = Tail(wire) /\ clean /\ Completes(State, Head(wire))
  BY <1>1 DEF ReceivePacket, Takes
<1>3. intact /\ synced /\ Fits(frame)
  BY <1>2 DEF Sound, Clean
<1>4. phase = "idle" /\ wire = <<End>>
  BY <1>2, <1>3, CompletesAtEnd
<1>5. Len(wire) = 1 /\ wire' = <<>>
  BY <1>2, <1>4
<1>6. Received(State) = frame
  BY <1>2, <1>3, <1>4, <1>5, EndCompletes
<1>7. posted' = posted + 1
  BY <1>1 DEF ReceivePacket, TypeOK
<1> QED
  BY <1>2, <1>4, <1>5, <1>6, <1>7 DEF FrameEnds, Posts

\* For every alphabet and every packet: no byte of identifier, payload or checksum
\* makes the receiver see a packet that was not sent.
THEOREM NoPacketInvented == Spec => NothingInvented
<1>1. Spec => []TypeOK
  BY TypeCorrect
<1>2. TypeOK /\ Sound /\ [Next]_vars => Sound'
  BY NextSound
<1>3. TypeOK /\ Sound /\ [Next]_vars
        => [clean' /\ posted' > posted => FrameEnds /\ Posts(frame)]_vars
  BY StepsInventNothing
<1> QED
  BY <1>1, <1>2, <1>3, InitSound, PTL DEF Spec, NothingInvented
=============================================================================
