------------------------------ MODULE CanardWire ------------------------------
(***************************************************************************)
(* The words on the wire: CAN identifiers, transfer descriptors, the CRC, and    *)
(* the packets of the multicast driver.  A word is the set of the weights of its  *)
(* 1 bits.                                                                   *)
(***************************************************************************)
EXTENDS Integers, Sequences, FiniteSetsExt

Bits(n, width) == {w \in 0 .. width - 1 : (n \div 2^w) % 2 = 1}
At(word, shift) == {w + shift : w \in word}
Part(word, shift, width) == {w - shift : w \in {v \in word : shift <= v /\ v < shift + width}}
Xor(a, b) == (a \ b) \cup (b \ a)

EFF == 31
RTR == 30
ERR == 29
ArbitrationId(id) == Part(id, 0, 29)

-----------------------------------------------------------------------------
(* CRC-16, most significant bit first *)

(* 0x1021 *)
Polynomial == {0, 5, 12}
ShiftedLeft(crc) == At(crc \ {15}, 1)

(* Seeded defect: the bit that falls out is looked at after the shift. *)
CrcShift_Late(crc) ==
    LET s == ShiftedLeft(crc) IN IF 15 \in s THEN Xor(s, Polynomial) ELSE s

CrcShift(crc) ==
    IF 15 \in crc THEN Xor(ShiftedLeft(crc), Polynomial) ELSE ShiftedLeft(crc)

crcAddByte(crc, byte) ==
    LET shifted[j \in 0 .. 8] ==
            IF j = 0 THEN Xor(crc, At(byte, 8)) ELSE CrcShift(shifted[j - 1])
    IN  shifted[8]

crcAdd(crc, bytes) ==
    LET added[i \in 0 .. Len(bytes)] ==
            IF i = 0 THEN crc ELSE crcAddByte(added[i - 1], bytes[i])
    IN  added[Len(bytes)]

(* The signature's lowest byte goes first. *)
crcAddSignature(crc, signature) ==
    crcAdd(crc, [i \in 1 .. 8 |-> Part(signature, 8 * (i - 1), 8)])

crc16_CCITT(bytes) == crcAdd(0 .. 15, bytes)

-----------------------------------------------------------------------------
(* The identifiers that canardBroadcastObj and canardRequestOrRespondObj make.     *)
(* A transfer is [kind, priority, type, source, destination], words all of them.  *)

Kinds == {"message", "anonymous", "request", "response"}
Anonymous(t) == t.kind = "anonymous"
Service(t) == t.kind \in {"request", "response"}

(* The discriminator of an anonymous message: its payload's CRC without two bits. *)
Discriminator(payload) == crcAdd(0 .. 15, payload) \cap (1 .. 14)

(* What canardBroadcastObj refuses of an anonymous node. *)
AnonymousAllowed(t, payload) == t.type \subseteq {0, 1} /\ Len(payload) <= 7

(* Seeded defect: the discriminator begins one bit too low. *)
MessageId_DiscriminatorLow(t, payload) ==
    At(t.priority, 24)
        \cup (IF Anonymous(t)
              THEN At(Discriminator(payload), 8) \cup At(t.type \cap {0, 1}, 8)
              ELSE At(t.type, 8))
        \cup t.source

MessageId(t, payload) ==
    At(t.priority, 24)
        \cup (IF Anonymous(t)
              THEN At(Discriminator(payload), 9) \cup At(t.type \cap {0, 1}, 8)
              ELSE At(t.type, 8))
        \cup t.source

ServiceId(t) ==
    At(t.priority, 24) \cup At(t.type, 16) \cup (IF t.kind = "request" THEN {15} ELSE {})
        \cup At(t.destination, 8) \cup {7} \cup t.source

CanId(t, payload) ==
    (IF Service(t) THEN ServiceId(t) ELSE MessageId(t, payload)) \cup {EFF}

(* And what canardHandleRxFrame takes them apart into. *)
extractTransferType(id) ==
    IF 7 \notin id THEN "broadcast" ELSE IF 15 \in id THEN "request" ELSE "response"

SourceNodeId(id) == Part(id, 0, 7)
DestinationNodeId(id) == IF extractTransferType(id) = "broadcast" THEN {} ELSE Part(id, 8, 7)
Priority(id) == Part(id, 24, 5)

extractDataType(id) ==
    IF extractTransferType(id) # "broadcast" THEN Part(id, 16, 8)
    ELSE IF SourceNodeId(id) = {} THEN Part(id, 8, 2)
    ELSE Part(id, 8, 16)

Compatible(id) == EFF \in id /\ RTR \notin id /\ ERR \notin id

TypeCode(kind) == CASE kind = "response" -> {} [] kind = "request" -> {0} [] OTHER -> {1}

(* MAKE_TRANSFER_DESCRIPTOR *)
TransferDescriptor(id) ==
    extractDataType(id) \cup At(TypeCode(extractTransferType(id)), 16)
        \cup At(SourceNodeId(id), 18) \cup At(DestinationNodeId(id), 25)

-----------------------------------------------------------------------------
(* The packets of the multicast driver; a frame is [id, canfd, data], and the      *)
(* bytes under the CRC are the flags, the identifier and the data.               *)

Words(word, bytes) == [i \in 1 .. bytes |-> Part(word, 8 * (i - 1), 8)]
Covered(packet) == Words(packet.flags, 2) \o Words(packet.id, 4) \o packet.data
Magic == Bits(10548, 16)

mcastPacket(frame) ==
    LET packet == [magic |-> Magic, flags |-> IF frame.canfd THEN {0} ELSE {},
                   id |-> frame.id, data |-> frame.data]
    IN  [magic |-> packet.magic, flags |-> packet.flags, id |-> packet.id,
         data |-> packet.data, crc |-> crc16_CCITT(Covered(packet))]

(* mcastReceive refuses the packet, or fills the frame.  What recv returns is the length  *)
(* of the header and of the data.                                              *)
Received(packet) == 10 + Len(packet.data)
mcastAccepts(packet) ==
    /\ Received(packet) >= 10
    /\ packet.magic = Magic
    /\ packet.crc = crc16_CCITT(Covered(packet))
mcastFrame(packet) == [id |-> packet.id, canfd |-> 0 \in packet.flags, data |-> packet.data]
=============================================================================
