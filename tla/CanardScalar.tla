----------------------------- MODULE CanardScalar -----------------------------
(***************************************************************************)
(* The scalar codec: canardEncodeScalar and canardDecodeScalar.  A byte array is  *)
(* the set of the positions of its 1 bits, counted from the most significant     *)
(* bit of its first byte, which is the order of the wire; a number is the set of  *)
(* the weights of its 1 bits.                                                *)
(***************************************************************************)
EXTENDS Integers, Sequences

(* `count' bytes of an array from byte `first' on, and an array moved to a byte.   *)
Slice(array, first, count) ==
    {p - 8 * first : p \in {q \in array : 8 * first <= q /\ q < 8 * (first + count)}}
Moved(array, first) == {p + 8 * first : p \in array}
Lesser(a, b) == IF a < b THEN a ELSE b
Greater(a, b) == IF a < b THEN b ELSE a

(* Seeded defect: the rest of the destination's byte is overwritten. *)
CopyWithinByte_WholeByte(src, s, count, dst, d) ==
    LET rest == {p \in 8 * (d \div 8) .. 8 * (d \div 8) + 7 : d <= p}
    IN  (dst \ rest)
            \cup {p \in rest : (p % 8) - (d % 8) + (s % 8) \in Slice(src, s \div 8, 1)}

(* One turn of the loop of copyBitArray: `count' bits from bit `s' to bit `d',     *)
(* by shifting one byte and masking another.                                   *)
CopyWithinByte(src, s, count, dst, d) ==
    LET mask == {p \in 8 * (d \div 8) .. 8 * (d \div 8) + 7 : d <= p /\ p < d + count}
        byte == Slice(src, s \div 8, 1)
    IN  (dst \ mask)
            \cup {p \in mask : (p % 8) - (d % 8) + (s % 8) \in byte}

ChunkLength(s, d, rest) == Lesser(rest, 8 - Greater(s % 8, d % 8))

(* The loop, from the bits that are done and what it has made of the destination. *)
copyBitArray(src, s, length, dst, d) ==
    LET from[turn \in (0 .. length) \X SUBSET Nat] ==
            LET done == turn[1]
                count == ChunkLength(s + done, d + done, length - done)
            IN  IF done = length THEN turn[2]
                ELSE from[<<done + count,
                            CopyWithinByte(src, s + done, count, turn[2], d + done)>>]
    IN  from[<<0, dst>>]

swapByteOrder(array, size) ==
    {8 * (size - 1 - (p \div 8)) + (p % 8) : p \in {q \in array : q < 8 * size}}

StdByteLength(length) ==
    CHOOSE n \in {1, 2, 4, 8} :
        length <= 8 * n /\ \A m \in {1, 2, 4, 8} : m < n => length > 8 * m

(* How a number lies in the memory of the processor. *)
LittleEndian(number) == {8 * (w \div 8) + 7 - (w % 8) : w \in number}
InMemory(number, size, bigEndian) ==
    LET cut == {w \in number : w < 8 * size}
    IN  IF bigEndian THEN swapByteOrder(LittleEndian(cut), size) ELSE LittleEndian(cut)
FromMemory(array, size, bigEndian) ==
    LET ordered == IF bigEndian THEN swapByteOrder(array, size) ELSE array
    IN  {8 * (p \div 8) + 7 - (p % 8) : p \in {q \in ordered : q < 8 * size}}

(* The last byte, if the scalar fills only a part of it, is shifted by `by' bits;  *)
(* what leaves the byte is lost.                                               *)
ShiftLastByte(array, length, by) ==
    LET last == length \div 8
    IN  IF length % 8 = 0 THEN array
        ELSE {p \in array : p \div 8 # last}
                \cup {p + by : p \in {q \in array : q \div 8 = last /\ (q + by) \div 8 = last}}

canardEncodeScalar(destination, offset, length, number, bigEndian) ==
    LET size == StdByteLength(length)
        value == IF length = 1 /\ number # {} THEN {0} ELSE number
        memory == InMemory(value, size, bigEndian)
        storage == IF bigEndian THEN swapByteOrder(memory, size) ELSE memory
    IN  copyBitArray(ShiftLastByte(storage, length, -((8 - (length % 8)) % 8)), 0, length,
                     destination, offset)

-----------------------------------------------------------------------------
(* descatterTransferPayload.  A transfer is [len, head, middle, tail]: the length  *)
(* in bytes, three byte arrays of which the middle is a list of blocks, and       *)
(* whether there is a tail; `head' is the size of the head, `block' of a block.   *)

(* What has been copied so far: the bits, where to go on, how many are missing. *)
Copied(progress, src, at, count) ==
    [out |-> copyBitArray(src, at, count, progress.out, progress.done),
     in |-> progress.in + count,
     done |-> progress.done + count,
     rest |-> progress.rest - count]

ReadHead(transfer, progress, head) ==
    IF progress.in < 8 * head
    THEN Copied(progress, transfer.head, progress.in,
                Lesser(progress.rest, 8 * head - progress.in))
    ELSE progress

(* Seeded defect: the bits of a block are counted from the start of the scalar. *)
BlockOffset_FromScalar(progress, start) == progress.in - start + progress.done

BlockOffset(progress, start) == progress.in - start

(* One turn of the loop over the blocks.  `start' is where the block begins in the  *)
(* payload; what is left of the payload lies behind it.                         *)
ReadBlock(transfer, before, i, block) ==
    LET progress == before.progress
        end == before.start + Lesser(8 * block, 8 * transfer.len - before.start)
    IN  IF progress.rest = 0 THEN before
        ELSE [progress |->
                 IF end > progress.in
                 THEN Copied(progress, transfer.middle[i], BlockOffset(progress, before.start),
                             Lesser(progress.rest, end - progress.in))
                 ELSE progress,
              start |-> end]

ReadMiddle(transfer, progress, head, block) ==
    LET turn[i \in 0 .. Len(transfer.middle)] ==
            LET before == turn[i - 1]
            IN  IF i = 0 THEN [progress |-> progress, start |-> 8 * head]
                ELSE ReadBlock(transfer, before, i, block)
    IN  turn[Len(transfer.middle)]

ReadTail(transfer, progress, start) ==
    IF transfer.hasTail /\ progress.rest > 0
    THEN Copied(progress, transfer.tail, BlockOffset(progress, start), progress.rest)
    ELSE progress

Available(transfer, offset, length) ==
    IF offset >= 8 * transfer.len THEN 0
    ELSE Lesser(length, 8 * transfer.len - offset)

descatterTransferPayload(transfer, offset, length, head, block) ==
    LET count == Available(transfer, offset, length)
        start == [out |-> {}, in |-> offset, done |-> 0, rest |-> count]
        middle == ReadMiddle(transfer, ReadHead(transfer, start, head), head, block)
    IN  IF count = 0 THEN {}
        ELSE IF transfer.middle # <<>> \/ transfer.hasTail
        THEN ReadTail(transfer, middle.progress, middle.start).out
        ELSE copyBitArray(transfer.head, offset, count, {}, 0)

SignExtended(number, length, signed) ==
    IF signed /\ length - 1 \in number
    THEN number \cup (length .. 8 * StdByteLength(length) - 1)
    ELSE number

(* The number that canardDecodeScalar writes; how many bits it returns is          *)
(* Available.                                                                *)
canardDecodeScalar(transfer, offset, length, signed, bigEndian, head, block) ==
    LET size == StdByteLength(length)
        read == descatterTransferPayload(transfer, offset, length, head, block)
        storage == ShiftLastByte(read, length, (8 - (length % 8)) % 8)
        memory == IF bigEndian THEN swapByteOrder(storage, size) ELSE storage
    IN  SignExtended(FromMemory(memory, size, bigEndian), length, signed)
=============================================================================
