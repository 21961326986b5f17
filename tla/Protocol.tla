----------------------------- MODULE Protocol -----------------------------
(***************************************************************************)
(* The packet protocol of the framework                                    *)
(* (framework/flawless/protocol/genericFlawLessProtocol.c), sender and     *)
(* receiver of one interface with the line between them.                   *)
(*                                                                         *)
(* A packet is sent as Begin, identifier, payload, checksum, End; a        *)
(* control symbol inside is preceded by Escape; the sum of everything      *)
(* between Begin and End is 0.  The receiver is called with one symbol     *)
(* after the other.  It fills a buffer of the pump's pool, posts it when a *)
(* packet ends and takes another.  The line may lose symbols.              *)
(*                                                                         *)
(* One thread sends, and its pieces of a frame are in order.  The receiver *)
(* does not act on the sender, so a frame starts when the line is empty,   *)
(* and the sender waits while the line holds more than LineSize symbols.   *)
(***************************************************************************)
EXTENDS Integers, Sequences

CONSTANTS
    Modulus,             \* 256: the symbols are 0 .. Modulus - 1
    Begin, End, Escape,  \* FLAWLESS_PROTOCOL_PACKET_CHAR_...
    MaxPacketLen,        \* FLAWLESS_PROTOCOL_MAX_PACKET_LEN
    PoolSize,            \* pool buffers not held by other interfaces
    QueueSize,           \* ring entries of the pump
    Ids, Payloads,       \* packets that are sent
    Pieces, MaxPayload,  \* bytes of a payload sent in pieces, bound on it
    LineSize,            \* bound: symbols on the line while the sender goes on
    Lossy                \* may the line lose symbols?

Symbol  == 0 .. Modulus - 1
Control == {Begin, End, Escape}

ASSUME SymbolAssumption == /\ Modulus \in Nat \ {0}
                           /\ Control \subseteq Symbol
                           /\ Begin # End /\ End # Escape /\ Begin # Escape
ASSUME SizeAssumption == /\ MaxPacketLen \in Nat \ {0} /\ PoolSize \in Nat
                         /\ QueueSize \in Nat /\ MaxPayload \in Nat
                         /\ LineSize \in Nat
ASSUME PacketAssumption == /\ Ids \subseteq Symbol
                           /\ Pieces \subseteq Symbol
                           /\ Payloads \subseteq Seq(Symbol)
                           /\ Lossy \in BOOLEAN

VARIABLES
    phase,                 \* what the sending thread is doing
    checksum,              \* sum of the frame being sent
    rest,                  \* payload that genericProtocol_sendMessage has not sent
    wire,                  \* symbols sent and not yet received or lost
    buffer,                \* receiveState->buffer: is there one?
    id, packet,            \* what is in it
    mode, received, sum,   \* the rest of genericProtocolReceiveState_t
    free,                  \* buffers in the pool
    posted,                \* packets in the ring, not yet handled
    frame,                 \* history: the packet being sent,
    intact,                \*   nothing of it was lost so far,
    synced,                \*   nor anything of the one before,
    clean                  \*   nor of any, and all had the right length

sender   == <<phase, checksum, rest>>
receiver == <<buffer, id, packet, mode, received, sum, free, posted>>
history  == <<frame, intact, synced, clean>>
vars     == <<sender, wire, receiver, history>>

Phase  == {"idle", "message", "pieces"}
Mode   == {"Unknown", "EscapeChar", "Payload", "PacketEnd"}
Packet == [id : Symbol, payload : Seq(Symbol)]

Init == /\ phase = "idle" /\ checksum = 0 /\ rest = <<>>
        /\ wire = <<>>
        /\ buffer = (PoolSize > 0)
        /\ free = IF PoolSize > 0 THEN PoolSize - 1 ELSE 0
        /\ id = 0 /\ packet = <<>>
        /\ mode = "Unknown" /\ received = 0 /\ sum = 0
        /\ posted = 0
        /\ frame = [id |-> 0, payload |-> <<>>]
        /\ intact = TRUE /\ synced = TRUE /\ clean = TRUE

-----------------------------------------------------------------------------
(* The sender                                                              *)

Negated(c) == (Modulus - c) % Modulus

\* genericProtocol_send
Sent(b) == IF b \in Control THEN <<Escape, b>> ELSE <<b>>

\* and what it returns
SumOfSent(b) == IF b \in Control THEN Escape + b ELSE b

\* genericProtocol_sendChecksum: an escape character it sends is part of the sum
SentChecksum(c) == IF Negated(c) \in Control
                   THEN <<Escape, Negated((c + Escape) % Modulus)>>
                   ELSE <<Negated(c)>>

\* The receiver keeps identifier, payload and checksum, which must be less
\* than MaxPacketLen.
Fits(p) == Len(p.payload) + 2 < MaxPacketLen

Framed(p) == /\ frame' = p
             /\ clean' = (clean /\ Fits(p))

\* A frame starts: header and identifier.
Header(i) ==
    /\ phase = "idle" /\ wire = <<>>
    /\ wire' = <<Begin>> \o Sent(i)
    /\ checksum' = SumOfSent(i) % Modulus
    /\ Framed([id |-> i, payload |-> <<>>])
    /\ intact' = TRUE
    /\ UNCHANGED <<receiver, synced>>

\* A byte of the payload.
SendByte(b) ==
    /\ Len(wire) <= LineSize
    /\ wire' = wire \o Sent(b)
    /\ checksum' = (checksum + SumOfSent(b)) % Modulus
    /\ Framed([frame EXCEPT !.payload = Append(@, b)])
    /\ UNCHANGED <<phase, receiver, intact, synced>>

\* Checksum and tail.
Trailer ==
    /\ Len(wire) <= LineSize
    /\ wire' = wire \o SentChecksum(checksum) \o <<End>>
    /\ phase' = "idle" /\ checksum' = 0
    /\ UNCHANGED <<rest, receiver, history>>

\* genericProtocol_sendMessage, with a step for each byte of its loop
SendMessage(i, payload) ==
    /\ Header(i)
    /\ phase' = "message" /\ rest' = payload
SendMessageByte == /\ phase = "message" /\ rest # <<>>
                   /\ SendByte(Head(rest))
                   /\ rest' = Tail(rest)
SendMessageEnds == phase = "message" /\ rest = <<>> /\ Trailer

\* genericProtocol_BeginTransmittingFrame
BeginTransmittingFrame(i) ==
    /\ Header(i)
    /\ phase' = "pieces"
    /\ UNCHANGED rest

\* genericProtocol_SendInsideFrame; a call with several bytes is several calls
\* with one
SendInsideFrame(b) ==
    /\ phase = "pieces" /\ Len(frame.payload) < MaxPayload
    /\ SendByte(b)
    /\ UNCHANGED rest

\* genericProtocol_EndTransmittingFrame
EndTransmittingFrame == phase = "pieces" /\ Trailer

-----------------------------------------------------------------------------
(* The receiver                                                            *)

\* The state of genericProtocol_receiveByte, as a record.
State == [id |-> id, packet |-> packet, mode |-> mode,
          received |-> received, sum |-> sum]

\* genericProtocoll_resetBuffer, with the new buffer
Fresh == [id |-> 0, packet |-> <<>>, mode |-> "Unknown", received |-> 0, sum |-> 0]

\* Nothing is received of the packet; the bytes of an earlier one, which are
\* written over before they are used, are left out.
Restarted(m) == [Fresh EXCEPT !.mode = m]

\* The first byte of a packet is the identifier, the others go behind each other
\* into the buffer.
Stored(r, b) ==
    IF r.received = 0
    THEN [r EXCEPT !.id = b, !.received = 1]
    ELSE [r EXCEPT !.packet = Append(@, b), !.received = @ + 1]

\* (mutant) only between two packets
BeginsBetween(r, b) == r.mode = "Unknown" /\ b = Begin

\* The symbol is the beginning of a packet, unless it is escaped.
Begins(r, b) == r.mode # "EscapeChar" /\ b = Begin

\* The mode in which the symbol is looked at.
ModeAt(r, b) == IF r.mode # "EscapeChar" /\ b = End THEN "PacketEnd" ELSE r.mode

\* (mutant) no limit
NeverTooLong(r) == r.received < 0

\* FLAWLESS_PROTOCOL_MAX_PACKET_LEN is reached.
TooLong(r) == MaxPacketLen <= r.received

\* A symbol that ends no packet which is posted.
Accepted(r, b) ==
    IF Begins(r, b) THEN Restarted("Payload")
    ELSE IF TooLong(r) THEN [r EXCEPT !.mode = "Unknown"]
    ELSE LET m == ModeAt(r, b)
             s == [r EXCEPT !.mode = m, !.sum = (@ + b) % Modulus]
         IN  CASE m = "Payload" /\ b = Escape -> [s EXCEPT !.mode = "EscapeChar"]
               [] m = "Payload" /\ b # Escape -> Stored(s, b)
               [] m = "EscapeChar" -> Stored([s EXCEPT !.mode = "Payload"], b)
               [] m = "PacketEnd" ->
                    Restarted(IF s.sum = End THEN "Unknown" ELSE m)
               [] m = "Unknown" -> s

\* The symbol ends a packet: the sum is 0 without it, and there are an identifier
\* and a checksum.
Completes(r, b) == /\ ~Begins(r, b) /\ ~TooLong(r)
                   /\ ModeAt(r, b) = "PacketEnd"
                   /\ (r.sum + b) % Modulus = End
                   /\ r.received >= 2

\* (mutant) the checksum is part of the payload
ReceivedWithChecksum(r) == [id |-> r.id, payload |-> r.packet]

\* What the application gets: the payload is one byte, the checksum, shorter.
Received(r) == [id |-> r.id, payload |-> SubSeq(r.packet, 1, r.received - 2)]

\* A symbol leaves the line; the last one of a frame makes it the one before.
Takes(undisturbed) ==
    /\ wire # <<>>
    /\ wire' = Tail(wire)
    /\ intact' = (intact /\ undisturbed)
    /\ clean' = (clean /\ undisturbed)
    /\ synced' = IF Len(wire) = 1 /\ phase = "idle" THEN intact /\ undisturbed ELSE synced
    /\ UNCHANGED <<sender, frame>>

Becomes(r) == /\ id' = r.id /\ packet' = r.packet /\ mode' = r.mode
              /\ received' = r.received /\ sum' = r.sum

\* genericProtocol_receiveByte takes a buffer first if there is none.
Current == IF buffer THEN State ELSE Fresh

\* No buffer: the symbol is lost.
ReceiveStarved ==
    /\ ~buffer /\ free = 0
    /\ Takes(FALSE)
    /\ Becomes(Fresh)
    /\ UNCHANGED <<buffer, free, posted>>

ReceiveByte ==
    /\ buffer \/ free > 0
    /\ Takes(TRUE)
    /\ ~Completes(Current, Head(wire))
    /\ Becomes(Accepted(Current, Head(wire)))
    /\ buffer' = TRUE
    /\ free' = IF buffer THEN free ELSE free - 1
    /\ UNCHANGED posted

\* (mutant) the buffer that was posted is not forgotten
NextBufferKeeps(keeps) == /\ buffer' = TRUE
                          /\ free' = IF free > 0 THEN free - 1 ELSE 0
                          /\ Becomes(Fresh)

\* Once the packet is posted the next buffer is taken, if there is one; the mode
\* is reset in any case.
NextBuffer(keeps) == /\ buffer' = (free > 0 \/ keeps)
                     /\ free' = IF free > 0 THEN free - 1 ELSE 0
                     /\ Becomes(Fresh)

\* The packet ends.  A full ring refuses the buffer; the receiver takes another
\* one all the same.
ReceivePacket ==
    /\ buffer
    /\ Takes(TRUE)
    /\ Completes(State, Head(wire))
    /\ posted' = IF posted < QueueSize THEN posted + 1 ELSE posted
    /\ NextBuffer(posted >= QueueSize)

-----------------------------------------------------------------------------
(* The line and the main thread                                            *)

Lose == /\ Lossy
        /\ Takes(FALSE)
        /\ UNCHANGED receiver

\* The message pump calls the dispatcher and releases the buffer.
Dispatch == /\ posted > 0
            /\ posted' = posted - 1
            /\ free' = free + 1
            /\ UNCHANGED <<sender, wire, buffer, id, packet, mode, received, sum, history>>

Send == \/ \E i \in Ids : \/ \E payload \in Payloads : SendMessage(i, payload)
                          \/ BeginTransmittingFrame(i)
        \/ \E b \in Pieces : SendInsideFrame(b)
        \/ SendMessageByte \/ SendMessageEnds \/ EndTransmittingFrame

Receive == ReceiveStarved \/ ReceiveByte \/ ReceivePacket

Next == Send \/ Receive \/ Lose \/ Dispatch

Spec == Init /\ [][Next]_vars

-----------------------------------------------------------------------------
(* Properties                                                              *)

\* Types.  The buffer of MaxPacketLen bytes is never written behind its end, and
\* the bytes counted are in it.
TypeOK ==
    /\ phase \in Phase /\ rest \in Seq(Symbol)
    /\ buffer \in BOOLEAN
    /\ checksum \in Symbol /\ sum \in Symbol /\ id \in Symbol
    /\ wire \in Seq(Symbol)
    /\ packet \in Seq(Symbol) /\ Len(packet) < MaxPacketLen
    /\ mode \in Mode
    /\ received \in 0 .. MaxPacketLen /\ Len(packet) = IF received > 0 THEN received - 1 ELSE 0
    /\ free \in Nat
    /\ posted \in Nat
    /\ frame \in Packet
    /\ {intact, synced, clean} \subseteq BOOLEAN

\* Buffers are not lost and not used twice: each is in the pool, in the ring or
\* with the receiver (genericProtocol_receiveByte, genericProtocoll_resetBuffer).
BuffersKept == free + posted + (IF buffer THEN 1 ELSE 0) = PoolSize

\* A packet goes into the ring; it is what the receiver has in its buffer then.
Posts(p) == posted' = posted + 1 /\ Received(State) = p

\* The last symbol of the frame is taken from the line.
FrameEnds == wire # <<>> /\ wire' = <<>> /\ phase = "idle"

\* After any losses on the line, or of symbols for want of a buffer, one frame
\* that arrives whole is enough to be in step again: the next one that
\* arrives whole and is not too long is posted, as it was sent, at its last symbol.
InStepAgain ==
    [][FrameEnds /\ synced /\ synced' /\ Fits(frame) => Posts(frame)]_vars

\* While nothing is lost and no packet is too long, no packet is posted but the
\* one being sent, at its last symbol: escapes in identifier, payload and
\* checksum never make the receiver see a beginning or an end that is none.
NothingInvented ==
    [][clean' /\ posted' > posted => FrameEnds /\ Posts(frame)]_vars

\* A message that is too long is skipped (genericFlawLessProtocol.c:178 "we cannot
\* process that message so try to synch up with the next packet"): nothing of it
\* is posted.
TooLongSkipped ==
    [][synced /\ intact /\ ~Fits(frame) => posted' <= posted]_vars
=============================================================================
