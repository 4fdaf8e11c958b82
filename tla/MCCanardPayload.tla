--------------------------- MODULE MCCanardPayload ---------------------------
(***************************************************************************)
(* Small instances of CanardPayload.                                         *)
(***************************************************************************)
EXTENDS CanardPayload

(* A number with bits above its field, and with the field's top bit set or not. *)
Field(length, signed) ==
    [length |-> length, signed |-> signed,
     number |-> {w \in 0 .. 63 : w % 3 = 0 \/ w = length - 1}]
Plain(lengths) == [i \in DOMAIN lengths |-> Field(lengths[i], FALSE)]

Sum(lengths) == Total(lengths, Len(lengths))
Filled(fields, bytes, ones) ==
    [fields |-> fields, bytes |-> bytes, fill |-> IF ones THEN AllOnes(bytes) ELSE {},
     canfd |-> FALSE, head |-> 5, block |-> 8, cut |-> <<>>]
Just(fields, ones) ==
    Filled(fields, (Sum([i \in DOMAIN fields |-> fields[i].length]) + 7) \div 8, ones)

(* Every length of interest at every offset in a byte. *)
Aligned ==
    {Just(<<Field(a, FALSE), Field(b, signed), Field(5, FALSE)>>, ones) :
        a \in 1 .. 8, b \in {2, 7, 8, 9, 15, 16, 17, 31, 32, 33, 63, 64},
        signed \in BOOLEAN, ones \in BOOLEAN}

(* Scalars across the head, several blocks and the tail. *)
Scattered ==
    {[Just(Plain(<<64, 64, 64, a, 64, 8 + a>>), TRUE) EXCEPT !.head = layout[1], !.block = layout[2]] :
        a \in {1, 3, 8, 13}, layout \in {<<5, 8>>, <<6, 28>>, <<8, 8>>}}

(* CAN FD: lengths around the sizes of frames. *)
Flexible ==
    {[Filled(Plain(<<8, 17, 24>>), bytes, TRUE) EXCEPT
        !.canfd = TRUE, !.head = head, !.block = 64] :
        head \in {60, 100}, bytes \in {7, 8, 11, 12, 15, 47, 48, 63, 64, 65, 68, 72, 76, 77, 88, 107, 108, 109,
                   123, 124, 125, 126, 140, 171, 172, 187, 188, 250}}

(* Every length, without scalars. *)
EveryLength ==
    {[Filled(<<>>, bytes, TRUE) EXCEPT !.canfd = canfd, !.head = 60, !.block = 64] :
        canfd \in BOOLEAN, bytes \in 0 .. 200}

(* Other implementations may send frames that are not full. *)
Foreign ==
    {[Just(Plain(<<64, 33, 7>>), TRUE) EXCEPT !.cut = cut, !.head = layout[1], !.block = layout[2]] :
        cut \in {<<5, 7, 1>>, <<5, 0, 7, 1>>, <<5, 7, 1, 0>>, <<1, 1, 1, 1, 1, 1, 7>>,
                 <<5, 3, 0, 3, 2>>, <<4, 4, 5>>, <<5, 1, 0, 6, 1>>},
        layout \in {<<5, 8>>, <<6, 28>>, <<9, 11>>}}

(* Nothing but a transfer without payload. *)
EmptyTransfer == {Just(<<>>, FALSE)}

MCMessages == EmptyTransfer \cup Aligned \cup Scattered \cup Flexible \cup EveryLength \cup Foreign
=============================================================================
