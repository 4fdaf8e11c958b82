-------------------------- MODULE CanardTransferID --------------------------
(***************************************************************************)
(* Transfer-ID arithmetic of canard.c.  A transfer-ID is a counter modulo  *)
(* 2^TRANSFER_ID_BIT_LEN; the code keeps it in a 5-bit field of the RX     *)
(* state and in a whole byte on the sending side, and wraps both at 32.    *)
(* TidMod stands for that 32, so that small instances wrap early.          *)
(***************************************************************************)
EXTENDS Integers

CONSTANT TidMod

ASSUME TidModAssumption == TidMod \in Nat /\ TidMod >= 4 /\ TidMod % 2 = 0

TransferId == 0 .. TidMod - 1

(* Seeded defect: the counter wraps one too late. *)
NextTransferId_WrapsLate(t) == IF t >= TidMod THEN 0 ELSE t + 1

(* incrementTransferID, and `transfer_id++' on the bit-field of the state. *)
NextTransferId(t) == IF t + 1 >= TidMod THEN 0 ELSE t + 1

(* computeTransferIDForwardDistance: how far `b' must advance to be `a'.   *)
ForwardDistance(a, b) == IF a - b < 0 THEN a - b + TidMod ELSE a - b

(* The frame is neither of the transfer the state expects nor of the one  *)
(* before it.                                                              *)
NotPreviousTid(expected, t) == ForwardDistance(expected, t) > 1

(* Seeded defect: any transfer-ID counts as ahead of the state. *)
NonWrappedTid_Always(expected, t) == ForwardDistance(t, expected) < TidMod

(* The frame lies in the half of the ring that is ahead of the state.      *)
NonWrappedTid(expected, t) == ForwardDistance(t, expected) < TidMod \div 2
=============================================================================
