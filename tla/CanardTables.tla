----------------------------- MODULE CanardTables -----------------------------
(***************************************************************************)
(* The functions of the library and its drivers that keep no state, one input at  *)
(* a time, against what they are meant to compute.                            *)
(***************************************************************************)
EXTENDS CanardFloat16, CanardSTM32Words, CanardSocket

P == INSTANCE CanardPriority

CONSTANTS Samples       \* the inputs: see IsSample

VARIABLE sample

-----------------------------------------------------------------------------
(* The inputs: records with the field `table' and the arguments. *)

Byte == SUBSET (0 .. 7)

(* What a node may send: an anonymous one has no node-ID, and sends little. *)
IsTransfer(t, payload) ==
    /\ t.kind \in Kinds
    /\ t.priority \subseteq 0 .. 4 /\ t.destination \subseteq 0 .. 6
    /\ t.type \subseteq 0 .. (IF Service(t) THEN 7 ELSE 15)
    /\ t.source \subseteq 0 .. 6 /\ (t.source = {} <=> Anonymous(t))
    /\ payload \in Seq(Byte)
    /\ Anonymous(t) => AnonymousAllowed(t, payload)

(* A data or a remote frame. *)
IsFrameId(id) == id \subseteq {EFF, RTR} \cup (0 .. (IF EFF \in id THEN 28 ELSE 10))

(* The bytes as one word, the first byte being the highest. *)
Stream(bytes) == UNION {At(bytes[i], 8 * (Len(bytes) - i)) : i \in DOMAIN bytes}

(* The errors are in the CRC, or in the words that it covers: then up to 16 bits apart. *)
IsBurst(errors) ==
    LET bytes == Covered(errors)
    IN  \/ Stream(bytes) = {}
        \/ errors.crc = {} /\ \E k \in 0 .. 8 * Len(bytes) : Stream(bytes) \subseteq k .. k + 15

IsErrors(errors, frame) ==
    /\ errors.flags \subseteq 0 .. 15 /\ errors.id \subseteq 0 .. 31 /\ errors.crc \subseteq 0 .. 15
    /\ errors.data \in Seq(Byte) /\ Len(errors.data) = Len(frame.data)
    /\ IsBurst(errors)

IsSample(s) ==
    /\ s.table = "half" => s.half \in FiniteHalves
    /\ s.table = "transfer" => IsTransfer(s.transfer, s.payload) /\ s.node \subseteq 0 .. 6
    /\ s.table = "packet" =>
          /\ s.frame \in [id : SUBSET (0 .. 31), canfd : BOOLEAN, data : Seq(Byte)]
          /\ IsErrors(s.errors, s.frame)
    /\ s.table = "order" => IsFrameId(s.a) /\ IsFrameId(s.b)
    /\ s.table = "filter" =>
          IsFrameId(s.filter.id) /\ IsFrameId(s.id) /\ s.filter.mask \subseteq 0 .. 31
    /\ s.table = "timing" => s.clock \in Nat /\ s.rate \in Nat
    /\ s.table = "open" =>
          /\ s.multicast \in BOOLEAN
          /\ s.step \in 1 .. 1 + Len(IF s.multicast THEN mcastSteps ELSE socketcanSteps)

ASSUME TablesAssumption == \A s \in Samples : IsSample(s)

TablesInit == sample \in Samples
TablesSpec == TablesInit /\ [][UNCHANGED sample]_sample

-----------------------------------------------------------------------------
(* The value of a word below 2^18, and an identifier as CanardPriority sees it. *)
Value(word) ==
    LET upper[n \in 0 .. 18] ==
            IF n = 0 THEN 0 ELSE 2 * upper[n - 1] + (IF 18 - n \in word THEN 1 ELSE 0)
    IN  upper[18]
Seen(id) ==
    IF EFF \in id
    THEN [ext |-> TRUE, rtr |-> RTR \in id, arb |-> Value(Part(id, 18, 11)),
          low |-> Value(Part(id, 0, 18))]
    ELSE [ext |-> FALSE, rtr |-> RTR \in id, arb |-> Value(Part(id, 0, 11)), low |-> 0]

(* The remainder of the bytes, after 0xFFFF, divided by the CRC's polynomial, by   *)
(* long division: the n highest bits are cleared one after the other.            *)
Divisor == {16} \cup Polynomial
Reduced(rest, k) == IF k \in rest THEN Xor(rest, At(Divisor, k - 16)) ELSE rest
Remainder(bytes) ==
    LET width == 8 * Len(bytes)
        rest[n \in 0 .. width] ==
            IF n = 0 THEN Xor(At(0 .. 15, width), At(Stream(bytes), 16))
            ELSE Reduced(rest[n - 1], width + 16 - n)
    IN  rest[width]

(* The packet as the network may deliver it, with errors in some of its words. *)
Damaged(packet, errors) ==
    [packet EXCEPT !.data = [i \in DOMAIN @ |-> Xor(@[i], errors.data[i])],
                   !.id = Xor(@, errors.id), !.flags = Xor(@, errors.flags),
                   !.crc = Xor(@, errors.crc)]
NoErrors(packet, errors) == Damaged(packet, errors) = packet

-----------------------------------------------------------------------------
(* canard.c, canardConvertNativeFloatToFloat16: the product with 2^-112 and the     *)
(* addition of half a unit round to the nearest half-precision number, and every  *)
(* such number comes back from its conversion and back; the order is kept.        *)
Float16Faithful ==
    sample.table = "half" =>
        LET h == sample.half
        IN  /\ canardConvertNativeFloatToFloat16(canardConvertFloat16ToNativeFloat(h)) = h
            /\ h < 31743 =>
                /\ canardConvertNativeFloatToFloat16(Midpoint(h) - 1) = h
                /\ canardConvertNativeFloatToFloat16(Midpoint(h) + 1) = h + 1
            /\ canardConvertFloat16ToNativeFloat(h) < canardConvertFloat16ToNativeFloat(h + 1)

(* canard.c:51, "Used for transfer descriptor construction": two transfers that differ in   *)
(* type, kind, source or destination differ in their descriptors, and the receiver *)
(* takes the identifier apart into what the sender put into it.                *)
IdentifiersAgree ==
    sample.table = "transfer" =>
        LET t == sample.transfer
            id == CanId(t, sample.payload)
            descriptor == TransferDescriptor(id)
            kind == IF Service(t) THEN t.kind ELSE "broadcast"
        IN  /\ Compatible(id)
            /\ extractTransferType(id) = kind
            /\ extractDataType(id) = t.type
            /\ Priority(id) = t.priority
            /\ SourceNodeId(id) = t.source
            /\ DestinationNodeId(id) = IF Service(t) THEN t.destination ELSE {}
            /\ descriptor \subseteq 0 .. 31
            /\ Part(descriptor, 0, 16) = t.type /\ Part(descriptor, 16, 2) = TypeCode(kind)
            /\ Part(descriptor, 18, 7) = t.source
            /\ Part(descriptor, 25, 7) = DestinationNodeId(id)
            /\ Anonymous(t) => Part(id, 10, 14) = Part(Remainder(sample.payload), 1, 14)

(* The bit-by-bit CRC is the remainder of the division, and a packet of the         *)
(* multicast driver with errors in the covered words, of up to 16 bits apart, is   *)
(* refused; without errors it brings the frame that was sent.                   *)
ErrorsDetected ==
    sample.table = "packet" =>
        LET packet == mcastPacket(sample.frame)
            delivered == Damaged(packet, sample.errors)
        IN  /\ packet.crc = Remainder(Covered(packet))
            /\ mcastAccepts(delivered) <=> NoErrors(packet, sample.errors)
            /\ mcastAccepts(delivered) => mcastFrame(delivered) = sample.frame

(* canard_stm32.c:487, "accepted = (received_id & filter_mask) == (filter_id &      *)
(* filter_mask)": of the extended frames (of the standard ones too, when the bank is  *)
(* one for standard identifiers) the banks accept exactly these, although the         *)
(* controller treats special bits by another table (canard_stm32.c:505): the driver    *)
(* sets IDE for it, but not RTR, so a remote frame needs RTR in the identifier as      *)
(* well.  The AVR filters accept the messages and the services to the node.        *)
FiltersAsMeant ==
    /\ sample.table = "filter" =>
        LET cfg == sample.filter
            id == sample.id
        IN  EFF \in id \/ ~ExtendedBank(cfg) =>
                (Passes(cfg, id) <=> /\ id \cap cfg.mask = cfg.id \cap cfg.mask
                                     /\ RTR \in id => RTR \in cfg.id)
    /\ sample.table = "transfer" =>
        LET t == sample.transfer
            id == CanId(t, sample.payload)
        IN  AVRPasses(sample.node, id)
                <=> (~Service(t) \/ t.destination = sample.node)

(* The identifier that a register holds is the one that was put there, and of two    *)
(* identifiers the driver and the queue of canard.c prefer the same one.           *)
RegistersAgree ==
    sample.table = "order" =>
        /\ convertFrameIDRegisterToCanard(convertFrameIDCanardToRegister(sample.a)) = sample.a
        /\ isFramePriorityHigher(sample.a, sample.b)
                = P!isPriorityHigher(Seen(sample.b), Seen(sample.a))

(* Timings that are returned are accepted by canardSTM32Init and give a rate that    *)
(* rounds to the requested one; the sample point is not beyond 90 %, and no other   *)
(* split of the bit up to there has it nearer to 7/8 (canard_stm32.h:258, "as close as  *)
(* possible to the optimal value, which is 87.5%").                             *)
TimingsExact ==
    sample.table = "timing" =>
        LET t == canardSTM32ComputeCANTimings(sample.clock, sample.rate)
            sum == t.bs1 + t.bs2
            distance(bs1) == LET d == 8 * (1 + bs1) - 7 * (1 + sum) IN IF d < 0 THEN -d ELSE d
        IN  t # NoTimings =>
            /\ TimingsValid(t)
            /\ sample.clock \div (t.prescaler * (1 + sum)) = sample.rate
            /\ SamplePoint(t.bs1, t.bs2) <= 900
            /\ \A bs1 \in 1 .. sum - 1 :
                SamplePoint(bs1, sum - bs1) <= 900 => distance(t.bs1) <= distance(bs1)

(* An initialisation that fails, at whatever step, leaves no descriptor open, and    *)
(* one that succeeds leaves none that closing does not close.                    *)
DescriptorsClosed ==
    sample.table = "open" =>
        \A state \in {LinuxCANInit(sample.multicast, sample.step)} :
            IF state.result < 0 THEN state.open = {}
            ELSE LinuxCANClose(sample.multicast, state).open = {}
=============================================================================
