--------------------------- MODULE CanardPriority ---------------------------
(***************************************************************************)
(* Arbitration order of CAN frames, isPriorityHigher of canard.c and          *)
(* isFramePriorityHigher of the STM32 driver.  A frame identifier is its two    *)
(* flags and the two parts of the 29-bit number the comparison looks at: arb,  *)
(* the eleven most significant bits (all of a standard identifier), and low,   *)
(* the other eighteen, which a standard frame does not have.                  *)
(***************************************************************************)
EXTENDS Naturals

FrameId == [ext : BOOLEAN, rtr : BOOLEAN, arb : Nat, low : Nat]

(* What a frame on the wire can carry. *)
WireId == {id \in FrameId : ~id.ext => id.low = 0}

(* clean_id = rhs_clean_id and clean_id < rhs_clean_id, for identifiers of one   *)
(* format.                                                                  *)
SameNumber(a, b) == a.arb = b.arb /\ a.low = b.low
LesserNumber(a, b) == a.arb < b.arb \/ (a.arb = b.arb /\ a.low < b.low)

(* The priority of `id' is higher than that of `rhs': `id' wins arbitration.   *)
isPriorityHigher(rhs, id) ==
    IF id.ext # rhs.ext
    THEN id.arb < rhs.arb \/ (id.arb = rhs.arb /\ rhs.ext)
    ELSE IF SameNumber(id, rhs) /\ id.rtr # rhs.rtr
    THEN rhs.rtr
    ELSE LesserNumber(id, rhs)
=============================================================================
