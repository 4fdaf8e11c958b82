---------------------------- MODULE CanardSession ----------------------------
(***************************************************************************)
(* The reception state machine of one transfer descriptor: what             *)
(* canardHandleRxFrame decides from a CanardRxState and one frame.  The     *)
(* operators work on any record that has the fields they name, so that the  *)
(* protocol model (CanardRx) and the memory model (CanardNode) share them.  *)
(*                                                                         *)
(* The field `wrapped' is not in the code: it records that payload_len, a     *)
(* field of ten bits, has wrapped since the transfer began.                  *)
(***************************************************************************)
EXTENDS CanardTransferID

CONSTANTS
    TransferTimeout,    \* TRANSFER_TIMEOUT_USEC, in clock ticks
    IfaceSwitchDelay,   \* IFACE_SWITCH_DELAY_USEC, in clock ticks
    HeadSize,           \* CANARD_MULTIFRAME_RX_PAYLOAD_HEAD_SIZE, in bytes
    BlockSize,          \* CANARD_BUFFER_BLOCK_DATA_SIZE, in bytes
    LenMod,             \* 2^CANARD_TRANSFER_PAYLOAD_LEN_BITS
    SizeResidue         \* what 2^(bits of size_t) leaves when divided by BlockSize

ASSUME SessionAssumption ==
    /\ IfaceSwitchDelay \in Nat
    /\ TransferTimeout \in Nat
    /\ IfaceSwitchDelay <= TransferTimeout
    /\ HeadSize \in Nat
    /\ BlockSize \in Nat \ {0}
    /\ LenMod \in Nat /\ HeadSize < LenMod
    /\ SizeResidue \in 0 .. BlockSize - 1

(* The condition under which the state is stale for the timeout `d'.  The   *)
(* code subtracts unsigned, so a frame stamped before the state was is       *)
(* older than any timeout.                                                  *)
OlderThan(st, now, d) == now < st.timestamp \/ now - st.timestamp > d

NotInitialized(st) == st.timestamp = 0
TidTimedOut(st, now) == OlderThan(st, now, TransferTimeout)
(* Seeded defect: the switch waits for the transfer timeout. *)
IfaceSwitchAllowed_Late(st, now) == OlderThan(st, now, TransferTimeout)

IfaceSwitchAllowed(st, now) == OlderThan(st, now, IfaceSwitchDelay)

(* Only block storage counts: a transfer whose bytes still fit into the      *)
(* head of the state does not look incomplete.                              *)
IncompleteFrame(st) == st.blocks # {}

NeedRestart(st, f, now) ==
    \/ NotInitialized(st)
    \/ TidTimedOut(st, now)
    \/ /\ f.iface = st.iface
       /\ f.sot
       /\ NotPreviousTid(st.tid, f.tid) \/ IncompleteFrame(st)
    \/ /\ IfaceSwitchAllowed(st, now)
       /\ f.sot
       /\ NonWrappedTid(st.tid, f.tid)

(* Seeded defect: the length is reset and the blocks are forgotten about. *)
Released_KeepsBlocks(st) == [st EXCEPT !.len = 0, !.wrapped = FALSE]

(* releaseStatePayload on the fields of the state itself. *)
Released(st) == [st EXCEPT !.len = 0, !.wrapped = FALSE, !.blocks = {}]

Restarted(st, f) ==
    [Released(st) EXCEPT !.tid = f.tid, !.toggle = FALSE, !.iface = f.iface]

(* The state the rest of the handler works on. *)
Synchronised(st, f, now) ==
    IF NeedRestart(st, f, now) THEN Restarted(st, f) ELSE st

-----------------------------------------------------------------------------
(* bufferBlockPushBytes: n bytes are added to a payload of len bytes that has  *)
(* `chain' blocks.                                                          *)

(* Seeded defect: the sum is not cut to the width of the field. *)
Lengthened_Unmasked(len, n) == len + n

Lengthened(len, n) == (len + n) % LenMod

(* The early return.  The code asks HEAD_SIZE - payload_len > 0 of unsigned    *)
(* numbers, which only a head that is exactly full fails: a frame without      *)
(* payload returns here, but for that one length.                            *)
StaysInHead(len, n) == len # HeadSize /\ (n = 0 \/ len + n <= HeadSize)

(* What is left of the frame when the head is full. *)
ForBlocks(len, n) == IF len < HeadSize THEN len + n - HeadSize ELSE n

(* index_at_nth_block; the difference is one of size_t, and it is negative      *)
(* only if payload_len has wrapped.                                         *)
IndexAtNthBlock(chain, len) ==
    IF chain = 0 THEN 0
    ELSE IF len < HeadSize THEN (SizeResidue + len - HeadSize) % BlockSize
    ELSE (len - HeadSize) % BlockSize

(* Seeded defect: num_buffer_blocks is not looked at. *)
OpensBlock_Uncounted(chain, len, n) == IndexAtNthBlock(chain, len) = 0

(* num_buffer_blocks > nth_block && index_at_nth_block == 0; also the first block. *)
OpensBlock(chain, len, n) ==
    /\ (len + n - HeadSize) \div BlockSize + 1 > chain
    /\ IndexAtNthBlock(chain, len) = 0

(* The loop takes another block whenever the last one is full and bytes are left. *)
BlocksAfter(chain, len, n) ==
    IF StaysInHead(len, n) THEN chain
    ELSE (IF OpensBlock(chain, len, n) THEN chain + 1 ELSE chain)
         + (IF ForBlocks(len, n) = 0 THEN 0
            ELSE (IndexAtNthBlock(chain, len) + ForBlocks(len, n) - 1) \div BlockSize)

-----------------------------------------------------------------------------
(* A restart on a frame that does not start a transfer. *)
SkipTransfer(st, f) == [Restarted(st, f) EXCEPT !.tid = NextTransferId(f.tid)]

(* Seeded defect: the toggle of the finished transfer is kept. *)
PreparedForNext_KeepsToggle(st) ==
    [st EXCEPT !.tid = NextTransferId(st.tid), !.len = 0, !.wrapped = FALSE]

(* prepareForNextTransfer *)
PreparedForNext(st) ==
    [st EXCEPT !.tid = NextTransferId(st.tid), !.len = 0, !.wrapped = FALSE,
               !.toggle = FALSE]

Toggled(st) == [st EXCEPT !.toggle = ~st.toggle]
=============================================================================
