---------------------------- MODULE MCCanardCodec ----------------------------
(***************************************************************************)
(* The inputs of CanardTables, next to the transfers of MCCanardPayload.        *)
(***************************************************************************)
EXTENDS MCCanardPayload, CanardTables

(* Every kind, at the ends of the ranges and with alternating bits. *)
MCTransfers ==
    {[kind |-> kind, priority |-> priority, type |-> type,
      source |-> IF kind = "anonymous" THEN {} ELSE source, destination |-> destination] :
        kind \in Kinds, priority \in {{}, {0, 2, 4}, 0 .. 4}, type \in {{}, {1}, {0, 1}},
        source \in {{0}, {1, 3, 5}, 0 .. 6}, destination \in {{0}, {6}, 0 .. 6}}
        \cup {[kind |-> "message", priority |-> {3}, type |-> type, source |-> {6},
               destination |-> {}] : type \in {0 .. 15, {15}, {7, 8}, {5}}}
        \cup {[kind |-> kind, priority |-> {3}, type |-> type, source |-> {6},
               destination |-> {1}] : type \in {0 .. 7, {7}, {5}}, kind \in {"request", "response"}}

TransferSamples ==
    {[table |-> "transfer", transfer |-> t, node |-> node,
      payload |-> IF Anonymous(t) THEN <<{0, 3}, {7}, p>> ELSE <<>>] :
        t \in MCTransfers, node \in {{0}, {6}, 0 .. 6}, p \in {{}, {0, 6}}}

HalfSamples == {[table |-> "half", half |-> h] : h \in FiniteHalves}

(* Errors of up to 16 bits in a row, somewhere under the CRC. *)
MCFrame(canfd, bytes) ==
    [id |-> {EFF, 24, 7, 3}, canfd |-> canfd, data |-> [i \in 1 .. bytes |-> {i % 8, 3}]]
Errors(bytes) == [data |-> [i \in 1 .. bytes |-> {}], id |-> {}, flags |-> {}, crc |-> {}]
Bursts == {{0}, {7}, {0, 7}, {3, 4}, 0 .. 7}
PacketSamples ==
    {[table |-> "packet", frame |-> MCFrame(canfd, n), errors |-> Errors(n)] :
        canfd \in BOOLEAN, n \in 1 .. 3}
        \cup {[table |-> "packet", frame |-> MCFrame(canfd, 3),
               errors |-> [Errors(3) EXCEPT !.data[i] = a, !.data[i + 1] = b]] :
            canfd \in BOOLEAN, i \in 1 .. 2, a \in Bursts \cup {{}}, b \in Bursts}
        \cup {[table |-> "packet", frame |-> MCFrame(canfd, 3),
               errors |-> [Errors(3) EXCEPT !.id = At(e, k)]] :
            canfd \in BOOLEAN, k \in {0, 5, 16, 21}, e \in Bursts}
        \cup {[table |-> "packet", frame |-> MCFrame(FALSE, 2),
               errors |-> [Errors(2) EXCEPT !.flags = e]] : e \in Bursts}
        \cup {[table |-> "packet", frame |-> MCFrame(FALSE, 2),
               errors |-> [Errors(2) EXCEPT !.crc = e]] : e \in Bursts}

MCWords == {{}, {0}, {10}, {28}, {18}, 0 .. 10, {17, 18}, 0 .. 28}
MCIdWords ==
    {{EFF} \cup w : w \in MCWords}
        \cup {w : w \in {v \in MCWords : v \subseteq 0 .. 10}}
MCFrameIds == MCIdWords \cup {w \cup {RTR} : w \in MCIdWords}
OrderSamples == {[table |-> "order", a |-> a, b |-> b] : a \in MCFrameIds, b \in MCFrameIds}

MCMasks == {{}, {EFF}, {EFF, RTR}, {EFF, RTR, 0}, {EFF} \cup 0 .. 10, 0 .. 28, {18, EFF}}
FilterSamples ==
    {[table |-> "filter", filter |-> [id |-> f, mask |-> mask], id |-> id] :
        f \in MCFrameIds, mask \in MCMasks, id \in MCFrameIds}

TimingSamples ==
    {[table |-> "timing", clock |-> 1000000 * mhz, rate |-> 1000 * k] :
        mhz \in {1, 8, 12, 16, 24, 30, 32, 36, 42, 45, 48, 54, 64, 72, 80},
        k \in {1, 10, 20, 33, 50, 83, 100, 125, 250, 400, 500, 800, 1000}}

OpenSamples ==
    {[table |-> "open", multicast |-> TRUE, step |-> k] : k \in 1 .. Len(mcastSteps) + 1}
        \cup {[table |-> "open", multicast |-> FALSE, step |-> k] :
            k \in 1 .. Len(socketcanSteps) + 1}

MCSamples ==
    TransferSamples \cup HalfSamples \cup PacketSamples \cup OrderSamples
        \cup FilterSamples \cup TimingSamples \cup OpenSamples

(* A behaviour is a transfer, or one input of the tables. *)
NoSample == [table |-> "none"]
Idle == Just(<<>>, FALSE)
CodecInit ==
    /\ PayloadInit
    /\ IF message = Idle THEN TablesInit ELSE sample = NoSample
CodecNext == sample = NoSample /\ PayloadNext /\ UNCHANGED sample
=============================================================================
