--------------------------- MODULE CanardSTM32Words ---------------------------
(***************************************************************************)
(* The register words of the bxCAN controller: identifiers, acceptance filters    *)
(* and bit timings; and the filters of the AVR driver.                          *)
(***************************************************************************)
EXTENDS CanardWire

IDE == 2
RTRBit == 1
TXRQ == 0

(* Seeded defect: a standard identifier goes where an extended one does. *)
convertFrameIDCanardToRegister_SameShift(id) ==
    (IF EFF \in id THEN At(Part(id, 0, 29), 3) \cup {IDE} ELSE At(Part(id, 0, 11), 3))
        \cup (IF RTR \in id THEN {RTRBit} ELSE {})

convertFrameIDCanardToRegister(id) ==
    (IF EFF \in id THEN At(Part(id, 0, 29), 3) \cup {IDE} ELSE At(Part(id, 0, 11), 21))
        \cup (IF RTR \in id THEN {RTRBit} ELSE {})

convertFrameIDRegisterToCanard(word) ==
    (IF IDE \in word THEN Part(word, 3, 29) \cup {EFF} ELSE Part(word, 21, 11))
        \cup (IF RTRBit \in word THEN {RTR} ELSE {})

(* Whether word a is less than word b: the highest bit in which they differ is b's. *)
Less(a, b) == a # b /\ \E w \in b \ a : \A v \in Xor(a, b) : v <= w

(* isFramePriorityHigher of the driver, which has its own. *)
isFramePriorityHigher(a, b) ==
    LET arb(id) == IF EFF \in id THEN Part(id, 18, 11) ELSE ArbitrationId(id)
        mixed == (EFF \in a) # (EFF \in b)
        flags == ArbitrationId(a) = ArbitrationId(b) /\ (RTR \in a) # (RTR \in b)
    IN  IF mixed THEN IF arb(a) # arb(b) THEN Less(arb(a), arb(b)) ELSE EFF \in b
        ELSE IF flags THEN RTR \in b
        ELSE Less(ArbitrationId(a), ArbitrationId(b))

-----------------------------------------------------------------------------
(* Acceptance filters: what canardSTM32ConfigureAcceptanceFilters writes into a     *)
(* bank, and what the controller does with it.                                 *)

(* Seeded defect: only a filter with an extended identifier makes an extended bank. *)
ExtendedBank_IdOnly(cfg) == EFF \in cfg.id

ExtendedBank(cfg) == EFF \in cfg.id \/ EFF \notin cfg.mask

FilterId(cfg) ==
    (IF ExtendedBank(cfg) THEN At(Part(cfg.id, 0, 29), 3) \cup {IDE} ELSE At(Part(cfg.id, 0, 11), 21))
        \cup (IF RTR \in cfg.id THEN {RTRBit} ELSE {})

FilterMask(cfg) ==
    (IF ExtendedBank(cfg) THEN At(Part(cfg.mask, 0, 29), 3) ELSE At(Part(cfg.mask, 0, 11), 21))
        \cup (IF EFF \in cfg.mask THEN {IDE} ELSE {})
        \cup (IF RTR \in cfg.mask THEN {RTRBit} ELSE {})

(* The controller compares the masked bits; besides, by the table found empirically,  *)
(* a special bit that the frame has and the filter's identifier has not keeps the    *)
(* frame out, whatever the mask says (FM 0, FID 0, RID 1).                       *)
Passes(cfg, id) ==
    LET word == convertFrameIDCanardToRegister(id)
    IN  /\ word \cap FilterMask(cfg) = FilterId(cfg) \cap FilterMask(cfg)
        /\ word \cap {IDE, RTRBit} \subseteq FilterId(cfg)

(* canardAVRConfigureAcceptanceFilters: a filter for messages, one for services. *)
AVRFilters(node) ==
    {[id |-> {}, mask |-> {7}], [id |-> At(node, 8) \cup {7}, mask |-> 7 .. 14]}
AVRPasses(node, id) ==
    \E f \in AVRFilters(node) : id \cap f.mask = f.id \cap f.mask

-----------------------------------------------------------------------------
(* canardSTM32ComputeCANTimings *)

MaxQuanta(rate) == IF rate >= 1000000 THEN 10 ELSE 17
SamplePoint(bs1, bs2) == (1000 * (1 + bs1)) \div (1 + bs1 + bs2)

(* The greatest number of quanta per bit that divides the clock, if there is one. *)
Dividers(clock, rate) ==
    {q \in 3 .. MaxQuanta(rate) : (clock \div rate) % q = 0}

(* Seeded defect: a sample point that is too late is left as it is. *)
Segment1_Late(sum) == (7 * sum - 1 + 4) \div 8

Segment1(sum) ==
    LET nearest == (7 * sum - 1 + 4) \div 8
    IN  IF SamplePoint(nearest, sum - nearest) > 900 THEN (7 * sum - 1) \div 8 ELSE nearest

NoTimings == [prescaler |-> 0, bs1 |-> 0, bs2 |-> 0]

canardSTM32ComputeCANTimings(clock, rate) ==
    IF rate < 1000 \/ Dividers(clock, rate) = {} THEN NoTimings
    ELSE LET quanta == Max(Dividers(clock, rate))
             prescaler == (clock \div rate) \div quanta
             bs1 == Segment1(quanta - 1)
             bs2 == quanta - 1 - bs1
         IN  IF /\ prescaler \in 1 .. 1024
                /\ rate = clock \div (prescaler * (1 + bs1 + bs2))
                /\ bs1 \in 1 .. 16 /\ bs2 \in 1 .. 8
             THEN [prescaler |-> prescaler, bs1 |-> bs1, bs2 |-> bs2]
             ELSE NoTimings

(* The check of canardSTM32Init. *)
TimingsValid(t) == t.prescaler \in 1 .. 1024 /\ t.bs1 \in 1 .. 16 /\ t.bs2 \in 1 .. 8
=============================================================================
