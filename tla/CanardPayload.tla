----------------------------- MODULE CanardPayload -----------------------------
(***************************************************************************)
(* The payload's way from one application to another: scalars are encoded one    *)
(* after the other (canardEncodeScalar), the transfer is cut into frames of 8 or  *)
(* 64 bytes (enqueueTxFrames, calculateCRC), a receiver stores them in the head   *)
(* of its state, in a list of blocks and in the last frame (canardHandleRxFrame,  *)
(* bufferBlockPushBytes), and the scalars are decoded (canardDecodeScalar).        *)
(* The CRC is the byte array it was computed over: CanardTables is about its bits. *)
(***************************************************************************)
EXTENDS CanardScalar

CONSTANTS Messages      \* the transfers sent: see Message

(* The sum of the first n numbers. *)
Total(numbers, n) ==
    LET upTo[k \in 0 .. n] == IF k = 0 THEN 0 ELSE upTo[k - 1] + numbers[k]
    IN  upTo[n]

Lengths(m) == [j \in DOMAIN m.fields |-> m.fields[j].length]
MostBytes(canfd) == IF canfd THEN 63 ELSE 7
MaxTransferPayloadLen == 1023        \* payload_len is a field of 10 bits

(* fields: the scalars [length, signed, number]; bytes: payload_len; fill: the     *)
(* bits of the buffer before; canfd; head, block: the sizes of the storages (they  *)
(* depend on the platform; a block holds more than a frame); cut: the payload bytes *)
(* that each frame carries when the sender is another implementation (it shares     *)
(* its first frame with the CRC), or none for this one.                         *)
Fields ==
    {f \in [length : 1 .. 64, signed : BOOLEAN, number : SUBSET (0 .. 63)] :
        f.signed => f.length > 1}
IsMessage(m) ==
    /\ m.head \in Nat /\ m.head >= 5
    /\ m.canfd \in BOOLEAN
    /\ m.block \in Nat /\ m.block > MostBytes(m.canfd)
    /\ m.bytes \in 0 .. MaxTransferPayloadLen
    /\ m.fields \in Seq(Fields) /\ Total(Lengths(m), Len(m.fields)) <= 8 * m.bytes
    /\ m.fill \subseteq 0 .. 8 * m.bytes - 1
    /\ m.cut \in Seq(0 .. 7)
    /\ m.cut # <<>> =>
          /\ ~m.canfd /\ Len(m.cut) >= 2 /\ m.cut[1] \in 1 .. 5
          /\ Total(m.cut, Len(m.cut)) = m.bytes

ASSUME PayloadAssumption == \A m \in Messages : IsMessage(m)

VARIABLES
    message,
    step,       \* "encode", "send", "receive", "delivered" or "rejected"
    encoded,    \* how many fields are in the buffer
    buffer,     \* the sender's payload
    frames,     \* the frames on their way, the next one first
    rx          \* the receiver: [len, head, middle, crc, fed], and [tail, hasTail] at last

payloadVars == <<message, step, encoded, buffer, frames, rx>>

AllOnes(bytes) == 0 .. 8 * bytes - 1

-----------------------------------------------------------------------------
(* Lengths *)

MaxDlc == 15
DataLengths == <<1, 2, 3, 4, 5, 6, 7, 8, 12, 16, 20, 24, 32, 48, 64>>

dlcToDataLength(dlc) == IF dlc = 0 THEN 0 ELSE DataLengths[Lesser(dlc, MaxDlc)]

dataLengthToDlc(n) ==
    IF n = 0 THEN 0
    ELSE CHOOSE dlc \in 1 .. MaxDlc :
            (n <= DataLengths[dlc] \/ dlc = MaxDlc) /\ (dlc = 1 \/ DataLengths[dlc - 1] < n)

(* The bytes in front of the tail byte, with the padding to the next frame size.   *)
Padded(n) == dlcToDataLength(dataLengthToDlc(n + 1)) - 1

FrameMax == IF message.canfd THEN 64 ELSE 8

-----------------------------------------------------------------------------
(* Encoding *)

OffsetOf(i) == Total(Lengths(message), i - 1)

Encode ==
    /\ step = "encode" /\ encoded < Len(message.fields)
    /\ LET i == encoded + 1
           f == message.fields[i]
       IN  \E bigEndian \in BOOLEAN :
              buffer' = canardEncodeScalar(buffer, OffsetOf(i), f.length, f.number, bigEndian)
    /\ encoded' = encoded + 1
    /\ UNCHANGED <<message, step, frames, rx>>

-----------------------------------------------------------------------------
(* Framing *)

Frame(bits, n, sot, eot, crc) == [bits |-> bits, n |-> n, sot |-> sot, eot |-> eot, crc |-> crc]

(* Seeded defect: the padding of the last frame is not in the CRC. *)
calculateCRC_NoPadding == [bits |-> buffer, bytes |-> message.bytes]

(* calculateCRC: the last frame of a CAN FD transfer is padded with zeros. *)
calculateCRC ==
    LET last == (message.bytes + 2) % 63
    IN  [bits |-> buffer,
         bytes |-> message.bytes
                    + IF message.canfd /\ message.bytes > 63 THEN Padded(last) - last ELSE 0]

SingleFrame == message.bytes < FrameMax

(* frames_needed *)
FramesNeeded == (message.bytes + 2 + (FrameMax - 2)) \div (FrameMax - 1)

(* data_index after so many turns of the loop of enqueueTxFrames: the first frame    *)
(* begins with the two bytes of the CRC.                                       *)
CrcBytes(index) == IF index = 0 THEN 2 ELSE 0
DataIndex ==
    LET index[n \in 0 .. message.bytes] ==
            LET before == index[n - 1]
            IN  IF n = 0 THEN 0
                ELSE Lesser(before + FrameMax - 1 - CrcBytes(before), message.bytes)
    IN  index

MultiFrames ==
    LET number == CHOOSE n \in 1 .. message.bytes :
                      DataIndex[n] = message.bytes /\ DataIndex[n - 1] # message.bytes
        frame(index, next) ==
            Frame(Slice(buffer, index, next - index),
                  Padded(next - index + CrcBytes(index)) - CrcBytes(index),
                  index = 0, next = message.bytes, calculateCRC)
    IN  [k \in 1 .. number |-> frame(DataIndex[k - 1], DataIndex[k])]

(* A sender that cuts its transfers in another way. *)
CutFrames ==
    LET cut == message.cut
    IN  [k \in DOMAIN cut |->
            Frame(Slice(buffer, Total(cut, k - 1), cut[k]), cut[k], k = 1, k = Len(cut),
                  calculateCRC)]

enqueueTxFrames ==
    IF message.cut # <<>> THEN CutFrames
    ELSE IF SingleFrame
    THEN <<Frame(buffer, Padded(message.bytes), TRUE, TRUE, calculateCRC)>>
    ELSE MultiFrames

Send ==
    /\ step = "encode" /\ encoded = Len(message.fields)
    /\ step' = "receive"
    /\ frames' = enqueueTxFrames
    /\ UNCHANGED <<message, encoded, buffer, rx>>

-----------------------------------------------------------------------------
(* Reception.  A block, and the head of a state, hold old bits at first. *)

Garbage == AllOnes(message.block)

WriteBytes(array, at, data, from, count) ==
    (array \ (8 * at .. 8 * (at + count) - 1)) \cup Moved(Slice(data, from, count), at)

(* The loop of bufferBlockPushBytes: the bytes from `done' on go into the last      *)
(* block from its byte `at', then into a new one.  As a block holds more than a     *)
(* frame, the loop turns at most twice.                                        *)
FillBlocks(blocks, at, data, done, n) ==
    LET count == Lesser(message.block - at, n - done)
        filled == [blocks EXCEPT ![Len(blocks)] = WriteBytes(@, at, data, done, count)]
    IN  IF done + count = n THEN filled
        ELSE Append(filled, WriteBytes(Garbage, 0, data, done + count, n - done - count))

(* num_buffer_blocks > nth_block && index_at_nth_block == 0 *)
NeedsBlock(n) ==
    /\ (rx.len + n - message.head) \div message.block + 1 > Len(rx.middle)
    /\ (rx.len - message.head) % message.block = 0

ToHead(n) == IF rx.len < message.head THEN Lesser(message.head - rx.len, n) ELSE 0

(* The early return asks HEAD_SIZE - payload_len > 0 of unsigned numbers: only a    *)
(* head that is exactly full fails it.                                          *)
Middle(data, n) ==
    LET at == (rx.len - message.head) % message.block
        done == ToHead(n)
    IN  IF rx.len # message.head /\ done = n THEN rx.middle
        ELSE IF rx.middle = <<>> THEN FillBlocks(<<Garbage>>, 0, data, done, n)
        ELSE IF NeedsBlock(n) THEN FillBlocks(Append(rx.middle, Garbage), at, data, done, n)
        ELSE FillBlocks(rx.middle, at, data, done, n)

bufferBlockPushBytes(data, n) ==
    [rx EXCEPT !.head = WriteBytes(@, rx.len, data, 0, ToHead(n)),
               !.middle = Middle(data, n),
               !.len = @ + n]

Fed(fed, data, n) == [bits |-> fed.bits \cup Moved(data, fed.bytes), bytes |-> fed.bytes + n]

StoreFrame ==
    /\ step = "receive" /\ ~Head(frames).eot
    /\ LET f == Head(frames)
       IN  rx' = [bufferBlockPushBytes(f.bits, f.n) EXCEPT
                    !.crc = IF f.sot THEN f.crc ELSE @,
                    !.fed = Fed(@, f.bits, f.n)]
    /\ frames' = Tail(frames)
    /\ UNCHANGED <<message, step, encoded, buffer>>

(* A single-frame transfer is read from the frame itself. *)
DeliverSingle ==
    /\ step = "receive" /\ Head(frames).sot /\ Head(frames).eot
    /\ rx' = [rx EXCEPT !.head = Head(frames).bits, !.len = Head(frames).n]
    /\ step' = "delivered"
    /\ frames' = <<>>
    /\ UNCHANGED <<message, encoded, buffer>>

(* The start of the last frame fills the head or the last block; the tail is the   *)
(* rest.                                                                     *)
DeliverMulti ==
    /\ step = "receive" /\ ~Head(frames).sot /\ Head(frames).eot
    /\ LET f == Head(frames)
           inHead == rx.len < message.head
           at == IF inHead THEN rx.len
                 ELSE rx.len - message.head - (Len(rx.middle) - 1) * message.block
           offset == IF inHead THEN Lesser(message.head - at, f.n)
                     ELSE IF rx.middle = <<>> THEN 0
                     ELSE Lesser(message.block - at, f.n)
           filled(array) == WriteBytes(array, at, f.bits, 0, offset)
           last == Len(rx.middle)
           fed == Fed(rx.fed, f.bits, f.n)
       IN  /\ rx' = [rx EXCEPT
                    !.head = IF inHead THEN filled(@) ELSE @,
                    !.middle = IF ~inHead /\ last # 0
                               THEN [@ EXCEPT ![last] = filled(rx.middle[last])]
                               ELSE @,
                    !.tail = Slice(f.bits, offset, f.n - offset),
                    !.hasTail = offset < f.n,
                    !.len = @ + f.n,
                    !.fed = fed]
           /\ step' = IF fed = rx.crc THEN "delivered" ELSE "rejected"
    /\ frames' = <<>>
    /\ UNCHANGED <<message, encoded, buffer>>

-----------------------------------------------------------------------------
PayloadInit ==
    /\ message \in Messages
    /\ step = "encode"
    /\ encoded = 0
    /\ buffer = message.fill
    /\ frames = <<>>
    /\ rx = [len |-> 0, head |-> AllOnes(message.head), middle |-> <<>>, tail |-> {},
             hasTail |-> FALSE, crc |-> <<>>, fed |-> [bits |-> {}, bytes |-> 0]]

PayloadNext ==
    \/ Encode
    \/ Send
    \/ StoreFrame
    \/ DeliverSingle
    \/ DeliverMulti

PayloadSpec == PayloadInit /\ [][PayloadNext]_payloadVars

-----------------------------------------------------------------------------
(* Properties *)

(* The scalar as the next application must see it: cut to its length, with the     *)
(* sign extended to the type of the variable.                                  *)
Meant(f) ==
    LET cut == IF f.length = 1 THEN (IF f.number = {} THEN {} ELSE {0})
               ELSE f.number \cap (0 .. f.length - 1)
    IN  IF f.signed /\ f.length - 1 \in cut
        THEN cut \cup {w \in 0 .. 63 : f.length <= w /\ w < 8 * StdByteLength(f.length)}
        ELSE cut

(* canard.h: "payload is scattered across three storages", "it is advised to use    *)
(* canardDecodeScalar()".  Wherever the bits of a scalar ended up, on whatever      *)
(* side of a byte, a frame or a block, and whatever the byte order of the two       *)
(* processors: the receiver reads the number that was encoded.                    *)
FieldsSurvive ==
    step = "delivered" =>
        \A i \in DOMAIN message.fields, bigEndian \in BOOLEAN :
            LET f == message.fields[i]
            IN  canardDecodeScalar(rx, OffsetOf(i), f.length, f.signed, bigEndian,
                                   message.head, message.block) = Meant(f)

(* Encoding a scalar changes no bit before it and none behind it, though            *)
(* copyBitArray writes whole bytes; and nothing that is done with the buffer         *)
(* afterwards changes it.                                                      *)
NeighboursUntouched ==
    [][LET Outside(p) == p < OffsetOf(encoded + 1) \/ p >= OffsetOf(encoded' + 1)
       IN  {p \in buffer' : Outside(p)} = {p \in buffer : Outside(p)}]_payloadVars

(* A transfer that is not disturbed passes its CRC check: with CAN FD the padding   *)
(* that calculateCRC adds is the one that the frames carry.  The frames made are    *)
(* as many as the free blocks were checked for.                                *)
AcceptedWhole ==
    /\ step # "rejected"
    /\ frames # <<>> /\ message.cut = <<>> /\ ~SingleFrame /\ Head(frames).sot
        => Len(frames) = FramesNeeded
=============================================================================
