---------------------------- MODULE CanardTxQueue ----------------------------
(***************************************************************************)
(* The sending half of a library instance: canardBroadcastObj and              *)
(* canardRequestOrRespondObj cut a transfer into frames (enqueueTxFrames) and  *)
(* insert them into the prioritised list (pushTxQueue), the application's loop *)
(* moves them to the driver (canardPeekTxQueue, canardPopTxQueue), and          *)
(* canardCleanupStaleTransfers drops the ones whose deadline has passed.        *)
(* Every frame takes one block of the pool; the other users of the pool are    *)
(* the variable `others'.                                                    *)
(***************************************************************************)
EXTENDS CanardTransferID, CanardPriority, Sequences, FiniteSets

CONSTANTS
    Ids,            \* the identifiers used, one per transfer descriptor
    ResponseIds,    \* those of them that are service responses
    ReplyTids,      \* the transfer-IDs that requests come with
    Lengths,        \* the payload lengths sent, in bytes
    Lifetimes,      \* the times to live given to a transfer
    FrameData,      \* frame_max_data_len
    Capacity,       \* capacity_blocks
    OthersUse,      \* bound: how many blocks the other users may hold
    MaxTransfers,   \* bound: transfers accepted
    MaxTime         \* bound: the clock stops at this time

LengthMod == 65536  \* total_bytes is a uint16_t

(* From 65534 bytes on total_bytes wraps (canard.c:1223), and the pool is checked for   *)
(* fewer frames than the loop makes; shorter payloads are assumed.                 *)
ASSUME TxQueueAssumption ==
    /\ Ids \subseteq {id \in FrameId : id.ext /\ ~id.rtr}
    /\ ResponseIds \subseteq Ids
    /\ ReplyTids \subseteq TransferId
    /\ \A len \in Lengths : len \in Nat /\ len + 2 < LengthMod
    /\ Lifetimes \subseteq Nat
    /\ FrameData \in Nat /\ FrameData >= 4
    /\ Capacity \in Nat
    /\ OthersUse \subseteq Nat

VARIABLES
    queue,      \* tx_queue, the head first; an element is [id, n, k]
    tids,       \* tids[id]: the counter behind inout_transfer_id
    transfers,  \* transfers[n]: the n-th transfer accepted
    others,     \* blocks in use outside the queue
    taken,      \* the frame the driver took last, as a sequence of at most one
    now

vars == <<queue, tids, transfers, others, taken, now>>

-----------------------------------------------------------------------------
(* enqueueTxFrames *)

SingleFrame(len) == len < FrameData

(* Seeded defect: the last, partly filled frame is not counted. *)
FramesNeeded_Truncates(len) ==
    IF SingleFrame(len) THEN 1 ELSE ((len + 2) % LengthMod) \div (FrameData - 1)

(* frames_needed; the first two bytes of a multi-frame transfer are its CRC, and *)
(* each frame gives one byte to the tail.                                     *)
FramesNeeded(len) ==
    IF SingleFrame(len) THEN 1
    ELSE (((len + 2) % LengthMod) + (FrameData - 2)) \div (FrameData - 1)

(* The frames the loop makes: the first carries FrameData - 3 bytes, each of    *)
(* the others FrameData - 1, until data_index = payload_len.                   *)
FramesMade(len) ==
    IF SingleFrame(len) THEN 1
    ELSE 1 + (len - (FrameData - 3) + (FrameData - 2)) \div (FrameData - 1)

BlocksAvailable == Capacity - Len(queue) - others

(* Seeded defect: a frame goes before the ones of equal priority. *)
IsPosition_BeforeEquals(p, id) ==
    /\ \A i \in 1 .. p - 1 : isPriorityHigher(id, queue[i].id)
    /\ p <= Len(queue) => ~isPriorityHigher(id, queue[p].id)

(* pushTxQueue of each frame in turn: past every element that `id' does not      *)
(* beat, the frames before it included, so they end up side by side.           *)
IsPosition(p, id) ==
    /\ \A i \in 1 .. p - 1 : ~isPriorityHigher(queue[i].id, id)
    /\ p <= Len(queue) => isPriorityHigher(queue[p].id, id)

(* Seeded defect: the frames of a transfer end up back to front. *)
Inserted_Reversed(p, id, n, count) ==
    [i \in 1 .. Len(queue) + count |->
        IF i < p THEN queue[i]
        ELSE IF i < p + count THEN [id |-> id, n |-> n, k |-> p + count - i]
        ELSE queue[i - count]]

Inserted(p, id, n, count) ==
    [i \in 1 .. Len(queue) + count |->
        IF i < p THEN queue[i]
        ELSE IF i < p + count THEN [id |-> id, n |-> n, k |-> i - p + 1]
        ELSE queue[i - count]]

pushTxQueue(id, n, count) ==
    \E p \in 1 .. Len(queue) + 1 :
        /\ IsPosition(p, id)
        /\ queue' = Inserted(p, id, n, count)

Accepted(id, len, tid, life) ==
    [id |-> id, frames |-> FramesMade(len), tid |-> tid, deadline |-> now + life]

(* Seeded defect: no look at the free blocks, the loop stops when they run out. *)
enqueueTxFrames_Partial(id, len, tid, life) ==
    /\ BlocksAvailable >= 1
    /\ Len(transfers) < MaxTransfers
    /\ transfers' = Append(transfers, Accepted(id, len, tid, life))
    /\ pushTxQueue(id, Len(transfers) + 1,
                   IF BlocksAvailable < FramesMade(len) THEN BlocksAvailable
                                                        ELSE FramesMade(len))

enqueueTxFrames(id, len, tid, life) ==
    /\ BlocksAvailable >= FramesNeeded(len)
    /\ Len(transfers) < MaxTransfers
    /\ transfers' = Append(transfers, Accepted(id, len, tid, life))
    /\ pushTxQueue(id, Len(transfers) + 1, FramesMade(len))

(* canardBroadcastObj, and canardRequestOrRespondObj for a request: the counter  *)
(* advances when the frames are in the queue.                                 *)
Send(id, len, life) ==
    /\ id \notin ResponseIds
    /\ enqueueTxFrames(id, len, tids[id], life)
    /\ tids' = [tids EXCEPT ![id] = NextTransferId(@)]
    /\ UNCHANGED <<others, taken, now>>

(* canardRequestOrRespondObj for a response: the transfer-ID is the one of the    *)
(* request and is not altered.                                                *)
Respond(id, len, tid, life) ==
    /\ id \in ResponseIds
    /\ enqueueTxFrames(id, len, tid, life)
    /\ UNCHANGED <<tids, others, taken, now>>

(* Seeded defect: the counter advances although nothing was queued. *)
Refuse_Counts(id, len) ==
    /\ BlocksAvailable < FramesNeeded(len)
    /\ tids' = [tids EXCEPT ![id] = NextTransferId(@)]
    /\ UNCHANGED <<queue, transfers, others, taken, now>>

(* Out of memory: nothing is queued and the counter stays. *)
Refuse(id, len) ==
    /\ BlocksAvailable < FramesNeeded(len)
    /\ UNCHANGED vars

-----------------------------------------------------------------------------
(* The application's loop.  A frame is peeked, given to the driver and popped   *)
(* before anything else is called.                                           *)

(* Seeded defect: the frame stays in the queue. *)
canardPopTxQueue_Keeps == queue' = queue

canardPopTxQueue == queue' = Tail(queue)

Transmit ==
    /\ queue # <<>>
    /\ taken' = <<Head(queue)>>
    /\ canardPopTxQueue
    /\ UNCHANGED <<tids, transfers, others, now>>

(* The driver reported an error: the loop drops the frame. *)
TransmitFailed ==
    /\ queue # <<>>
    /\ canardPopTxQueue
    /\ UNCHANGED <<tids, transfers, others, taken, now>>

Expired(item) == now > transfers[item.n].deadline

(* The TX half of canardCleanupStaleTransfers: the elements that are not stale    *)
(* remain, in their order.                                                    *)
Live == {i \in DOMAIN queue : ~Expired(queue[i])}

CleanupTx ==
    /\ \E f \in [1 .. Cardinality(Live) -> Live] :
          /\ \A i, j \in DOMAIN f : i < j => f[i] < f[j]
          /\ queue' = [i \in DOMAIN f |-> queue[f[i]]]
    /\ UNCHANGED <<tids, transfers, others, taken, now>>

(* The receiving half takes and returns blocks of the same pool. *)
OthersChange ==
    /\ others' \in {b \in OthersUse : b <= Capacity - Len(queue)}
    /\ UNCHANGED <<queue, tids, transfers, taken, now>>

Tick ==
    /\ now < MaxTime
    /\ now' = now + 1
    /\ UNCHANGED <<queue, tids, transfers, others, taken>>

-----------------------------------------------------------------------------
Init ==
    /\ queue = <<>>
    /\ tids = [id \in Ids |-> 0]
    /\ transfers = <<>>
    /\ others = 0
    /\ taken = <<>>
    /\ now = 0

Next ==
    \/ \E id \in Ids, len \in Lengths, life \in Lifetimes : Send(id, len, life)
    \/ \E id \in Ids, len \in Lengths, life \in Lifetimes, tid \in ReplyTids :
            Respond(id, len, tid, life)
    \/ \E id \in Ids, len \in Lengths : Refuse(id, len)
    \/ Transmit
    \/ TransmitFailed
    \/ CleanupTx
    \/ OthersChange
    \/ Tick

Spec == Init /\ [][Next]_vars

-----------------------------------------------------------------------------
(* Properties *)

Item == [id : Ids, n : Nat \ {0}, k : Nat \ {0}]

(* Every variable keeps its shape, and the blocks in use never exceed the pool:  *)
(* the loop of enqueueTxFrames never meets an empty pool (its assertion).       *)
TypeOK ==
    /\ queue \in Seq(Item)
    /\ \A i \in DOMAIN queue :
          /\ queue[i].n \in DOMAIN transfers
          /\ queue[i].k <= transfers[queue[i].n].frames
          /\ queue[i].id = transfers[queue[i].n].id
    /\ tids \in [Ids -> TransferId]
    /\ transfers \in Seq([id : Ids, frames : Nat \ {0}, tid : TransferId, deadline : Nat])
    /\ others \in Nat
    /\ Len(queue) + others <= Capacity
    /\ taken \in Seq(Item)
    /\ now \in Nat

CameFirst(x, y) == x.n < y.n \/ (x.n = y.n /\ x.k < y.k)

(* DESIGN.md: the list is sorted in descending order of priority; and frames of   *)
(* one identifier are in the order in which pushTxQueue got them, which is what   *)
(* keeps a multi-frame transfer together.                                     *)
Sorted ==
    \A i, j \in DOMAIN queue : i < j =>
        \/ isPriorityHigher(queue[j].id, queue[i].id)
        \/ queue[i].id = queue[j].id /\ CameFirst(queue[i], queue[j])

(* The comment in enqueueTxFrames: a transfer is queued whole or not at all.       *)
(* Whatever was transmitted or dropped since then, the frames still waiting are    *)
(* the last ones of the transfer, next to each other.                          *)
UnbrokenTransfers ==
    \A i \in DOMAIN queue :
        queue[i].k < transfers[queue[i].n].frames =>
            /\ i + 1 \in DOMAIN queue
            /\ queue[i + 1] = [queue[i] EXCEPT !.k = @ + 1]

(* The transfers queued under one counter carry consecutive transfer-IDs: a       *)
(* refused transfer does not use one up (canardBroadcastObj).                   *)
ConsecutiveTids ==
    \A id \in Ids \ ResponseIds :
        \A n, m \in {x \in DOMAIN transfers : transfers[x].id = id} :
            /\ n < m
            /\ \A x \in n + 1 .. m - 1 : transfers[x].id # id
            => transfers[m].tid = NextTransferId(transfers[n].tid)

(* The list implements a priority queue that is first-in first-out for each       *)
(* identifier.                                                               *)
Fifo ==
    INSTANCE PriorityFifo WITH
        pending <- {queue[i] : i \in DOMAIN queue},
        taken <- taken

ImplementsFifo == Fifo!Spec
=============================================================================
