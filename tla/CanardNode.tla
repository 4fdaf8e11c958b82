----------------------------- MODULE CanardNode -----------------------------
(***************************************************************************)
(* One library instance and its memory: everything that takes a block of the   *)
(* pool or gives one back.  The pool serves the RX states, the payload blocks   *)
(* of the transfers they assemble, and the frames of the TX queue.  Blocks have *)
(* an identity, so that one that is lost, given back twice or owned by two is   *)
(* seen.  The order of the frames in the TX queue is the business of            *)
(* CanardTxQueue, and what the bytes are that of CanardRx; here a frame is       *)
(* whatever can come in, and its CRC may be right or wrong.                    *)
(*                                                                         *)
(* The library is single-threaded, but on_reception runs inside                *)
(* canardHandleRxFrame: between OnReception and CallbackReturns the application  *)
(* may send and may release the payload early.                                *)
(***************************************************************************)
EXTENDS CanardSession, FiniteSets

CONSTANTS
    Block,          \* the blocks of the arena
    Descs,          \* transfer descriptors
    Services,       \* those of them that are addressed to the local node
    Ifaces,         \* interface numbers
    FrameTids,      \* transfer-IDs of the frames that come in
    Bytes,          \* payload bytes of a frame, the tail byte not counted: also 0
    FrameCounts,    \* the lengths of the transfers sent, in frames
    Lifetimes,      \* the times to live given to them
    NoDesc,         \* no callback is running
    MaxRxTime,      \* bound: traffic stops at this time
    MaxTime         \* bound: the clock stops at this time

ASSUME NodeAssumption ==
    /\ IsFiniteSet(Block)
    /\ Services \subseteq Descs
    /\ NoDesc \notin Descs
    /\ Ifaces \subseteq Nat
    /\ FrameTids \subseteq TransferId
    /\ Bytes \subseteq Nat
    /\ FrameCounts \subseteq Nat \ {0}
    /\ Lifetimes \subseteq Nat

VARIABLES
    free,       \* free_list
    usage,      \* current_usage_blocks
    peak,       \* peak_usage_blocks
    local,      \* whether node_id is set
    rx,         \* rx_states, by descriptor
    tx,         \* tx_queue: the block and the deadline of each frame
    handling,   \* the descriptor whose transfer on_reception looks at, or NoDesc
    payload,    \* payload_middle of that transfer
    now

pool == <<free, usage, peak>>
vars == <<free, usage, peak, local, rx, tx, handling, payload, now>>

Capacity == Cardinality(Block)

(* A CanardRxState.  `heard' is not in the code: the time at which a frame of the *)
(* transfer was last taken.                                                  *)
State ==
    [block : Block, timestamp : Nat, heard : Nat, tid : TransferId,
     toggle : BOOLEAN, iface : Nat, len : 0 .. LenMod - 1, wrapped : BOOLEAN,
     blocks : SUBSET Block]

NewState(b) ==
    [block |-> b, timestamp |-> 0, heard |-> 0, tid |-> 0,
     toggle |-> FALSE, iface |-> 0, len |-> 0, wrapped |-> FALSE, blocks |-> {}]

Frame ==
    [desc : Descs, iface : Ifaces, tid : FrameTids, bytes : Bytes,
     sot : BOOLEAN, eot : BOOLEAN, toggle : BOOLEAN]

-----------------------------------------------------------------------------
(* allocateBlock and freeBlock, over one call of the API: first the blocks `in'    *)
(* are given back, then the blocks `out' are taken; `high' is the most that was  *)
(* in use on the way.                                                        *)

Greater(a, b) == IF a > b THEN a ELSE b

(* Seeded defect: freeBlock counts a released chain as one block. *)
UsageAfter_OncePerChain(in, out) ==
    usage - (IF in = {} THEN 0 ELSE 1) + Cardinality(out)

UsageAfter(in, out) == usage - Cardinality(in) + Cardinality(out)

PoolStep(in, out, high) ==
    /\ free' = (free \cup in) \ out
    /\ usage' = UsageAfter(in, out)
    /\ peak' = Greater(peak, high)

GiveBack(in) == PoolStep(in, {}, usage)
Exchange(in, out) == PoolStep(in, out, UsageAfter(in, out))

-----------------------------------------------------------------------------
(* canardHandleRxFrame, one disjunct per way out of the function *)

Idle == handling = NoDesc

Put(d, st) == [e \in DOMAIN rx \cup {d} |-> IF e = d THEN st ELSE rx[e]]

(* The frame is for this node and the application wants the transfer.  The        *)
(* application is asked at the start of a transfer only.                        *)
Addressed(f) == f.desc \in Services => local
Known(f) == f.desc \in DOMAIN rx

(* findRxState or traverseRxStates: b is the block of the state of f, a new one    *)
(* when there was none and f starts a transfer.                                *)
Opens(f, b) ==
    IF Known(f) THEN b = rx[f.desc].block ELSE f.sot /\ b \in free

Taken(f, b) == IF Known(f) THEN {} ELSE {b}
Base(f, b) == IF Known(f) THEN rx[f.desc] ELSE NewState(b)
Restarts(f, b) == NeedRestart(Base(f, b), f, now)
Current(f, b) == Synchronised(Base(f, b), f, now)

(* What the restart gives back. *)
Dropped(f, b) == IF Restarts(f, b) THEN Base(f, b).blocks ELSE {}

(* Wrong address, not wanted, start missed, no block for a state, other            *)
(* interface: nothing changes.                                               *)
OtherIface(f) ==
    /\ Known(f)
    /\ ~NeedRestart(rx[f.desc], f, now)
    /\ f.iface # rx[f.desc].iface

Ignore(f) ==
    /\ \/ ~Addressed(f)
       \/ f.sot \/ ~Known(f)            \* should_accept may say no
       \/ OtherIface(f)
    /\ UNCHANGED vars

RestartInTheMiddle(f) ==
    /\ Addressed(f) /\ Known(f) /\ ~f.sot
    /\ NeedRestart(rx[f.desc], f, now)
    /\ rx' = Put(f.desc, SkipTransfer(rx[f.desc], f))
    /\ GiveBack(rx[f.desc].blocks)
    /\ UNCHANGED <<local, tx, handling, payload, now>>

(* The frame reached the part of the function that looks at its tail byte. *)
Expected(f, b) ==
    /\ Addressed(f)
    /\ Opens(f, b)
    /\ f.sot \/ ~Restarts(f, b)
    /\ f.iface = Current(f, b).iface

(* The callback is about to be called with the blocks `middle'. *)
OnReception(f, b, st, middle) ==
    /\ rx' = Put(f.desc, st)
    /\ handling' = f.desc
    /\ payload' = middle
    /\ Exchange(Dropped(f, b), Taken(f, b))
    /\ UNCHANGED <<local, tx, now>>

SingleFrame(f, b) ==
    /\ Expected(f, b) /\ f.sot /\ f.eot
    /\ OnReception(f, b,
                   [Current(f, b) EXCEPT !.timestamp = now, !.heard = now], {})

Matches(f, b) ==
    /\ Expected(f, b) /\ ~(f.sot /\ f.eot)
    /\ f.toggle = Current(f, b).toggle
    /\ f.tid = Current(f, b).tid

(* A start frame carries two bytes of CRC, and no payload if it is shorter. *)
Short(f) == f.sot /\ f.bytes <= 2

Reject(f, b) ==
    /\ Expected(f, b) /\ ~(f.sot /\ f.eot)
    /\ ~Matches(f, b) \/ Short(f)
    /\ rx' = Put(f.desc, Current(f, b))
    /\ Exchange(Dropped(f, b), Taken(f, b))
    /\ UNCHANGED <<local, tx, handling, payload, now>>

(* bufferBlockPushBytes: a start frame begins at 0, behind the two bytes of its CRC. *)
LenBefore(f, b) == IF f.sot THEN 0 ELSE Current(f, b).len
Carried(f) == IF f.sot THEN f.bytes - 2 ELSE f.bytes
Chain(f, b) == Cardinality(Current(f, b).blocks)
Needed(f, b) == BlocksAfter(Chain(f, b), LenBefore(f, b), Carried(f)) - Chain(f, b)
Available(f, b) == (free \cup Dropped(f, b)) \ Taken(f, b)

Stores(f, b) == Matches(f, b) /\ ~f.eot /\ ~Short(f)

Pushed(f, b, new) ==
    Toggled([Current(f, b) EXCEPT
        !.timestamp = IF f.sot THEN now ELSE @, !.heard = now,
        !.len = Lengthened(LenBefore(f, b), Carried(f)),
        !.wrapped = (@ /\ ~f.sot) \/ LenBefore(f, b) + Carried(f) >= LenMod,
        !.blocks = @ \cup new])

Push(f, b) ==
    /\ Stores(f, b)
    /\ \E new \in SUBSET Available(f, b) :
          /\ Cardinality(new) = Needed(f, b)
          /\ rx' = Put(f.desc, Pushed(f, b, new))
          /\ Exchange(Dropped(f, b), Taken(f, b) \cup new)
    /\ UNCHANGED <<local, tx, handling, payload, now>>

(* Seeded defect: what the failed push had already taken is forgotten. *)
PushFails_LeaksRest(f, b) ==
    /\ Stores(f, b)
    /\ Cardinality(Available(f, b)) < Needed(f, b)
    /\ rx' = Put(f.desc, PreparedForNext(Released(Current(f, b))))
    /\ PoolStep(Dropped(f, b), Taken(f, b), Capacity)
    /\ UNCHANGED <<local, tx, handling, payload, now>>

(* The blocks that were left are taken, then everything is released. *)
PushFails(f, b) ==
    /\ Stores(f, b)
    /\ Cardinality(Available(f, b)) < Needed(f, b)
    /\ rx' = Put(f.desc, PreparedForNext(Released(
                [Current(f, b) EXCEPT !.timestamp = IF f.sot THEN now ELSE @])))
    /\ PoolStep(Base(f, b).blocks, Taken(f, b), Capacity)
    /\ UNCHANGED <<local, tx, handling, payload, now>>

EndOfTransfer(f, b) == Matches(f, b) /\ ~f.sot /\ f.eot

(* Seeded defect: the state keeps pointing at the blocks it has handed over. *)
EndGood_KeepsChain(f, b) ==
    /\ EndOfTransfer(f, b)
    /\ OnReception(f, b, Current(f, b), Current(f, b).blocks)

EndGood(f, b) ==
    /\ EndOfTransfer(f, b)
    /\ OnReception(f, b, [Current(f, b) EXCEPT !.blocks = {}], Current(f, b).blocks)

EndBadCrc(f, b) ==
    /\ EndOfTransfer(f, b)
    /\ rx' = Put(f.desc, PreparedForNext([Current(f, b) EXCEPT !.blocks = {}]))
    /\ GiveBack(Current(f, b).blocks)
    /\ UNCHANGED <<local, tx, handling, payload, now>>

HandleRxFrame(f) ==
    /\ Idle
    /\ now <= MaxRxTime
    /\ \/ Ignore(f)
       \/ RestartInTheMiddle(f)
       \/ \E b \in Block :
             \/ SingleFrame(f, b)
             \/ Reject(f, b)
             \/ Push(f, b)
             \/ PushFails(f, b)
             \/ EndGood(f, b)
             \/ EndBadCrc(f, b)

(* canardReleaseRxTransferPayload, called by the callback. *)
ReleasePayload ==
    /\ ~Idle
    /\ payload # {}
    /\ payload' = {}
    /\ GiveBack(payload)
    /\ UNCHANGED <<local, rx, tx, handling, now>>

(* The rest of canardHandleRxFrame: the payload is released if the callback has     *)
(* not done so, and the state prepared for the next transfer.                  *)
CallbackReturns ==
    /\ ~Idle
    /\ rx' = Put(handling, PreparedForNext(rx[handling]))
    /\ handling' = NoDesc
    /\ payload' = {}
    /\ GiveBack(payload)
    /\ UNCHANGED <<local, tx, now>>

-----------------------------------------------------------------------------
(* canardBroadcastObj and canardRequestOrRespondObj down to enqueueTxFrames; a     *)
(* node without an identifier sends single-frame broadcasts only.               *)
Send(count, life) ==
    /\ now <= MaxRxTime
    /\ local \/ count = 1
    /\ \E new \in SUBSET free :
          /\ Cardinality(new) = count
          /\ tx' = tx \cup [block : new, deadline : {now + life}]
          /\ Exchange({}, new)
    /\ UNCHANGED <<local, rx, handling, payload, now>>

(* canardPopTxQueue, when the driver took the frame or failed to. *)
PopTxQueue ==
    /\ Idle
    /\ \E item \in tx :
          /\ tx' = tx \ {item}
          /\ GiveBack({item.block})
    /\ UNCHANGED <<local, rx, handling, payload, now>>

(* canardCleanupStaleTransfers *)

(* Seeded defect: a state that has never been used is not looked at. *)
Stale_UsedOnly(d) ==
    rx[d].timestamp # 0 /\ OlderThan(rx[d], now, TransferTimeout)

Stale(d) == OlderThan(rx[d], now, TransferTimeout)
StaleStates == {d \in DOMAIN rx : Stale(d)}
ExpiredItems == {item \in tx : now > item.deadline}
Reclaimed ==
    {item.block : item \in ExpiredItems}
    \cup UNION {rx[d].blocks \cup {rx[d].block} : d \in StaleStates}

Cleanup ==
    /\ Idle
    /\ rx' = [d \in DOMAIN rx \ StaleStates |-> rx[d]]
    /\ tx' = tx \ ExpiredItems
    /\ GiveBack(Reclaimed)
    /\ UNCHANGED <<local, handling, payload, now>>

(* canardSetLocalNodeID and canardForgetLocalNodeID *)
SetLocalNodeID ==
    ~local /\ local' = TRUE /\ UNCHANGED <<pool, rx, tx, handling, payload, now>>

ForgetLocalNodeID ==
    local' = FALSE /\ UNCHANGED <<pool, rx, tx, handling, payload, now>>

Tick ==
    /\ Idle
    /\ now < MaxTime
    /\ now' = now + 1
    /\ UNCHANGED <<pool, local, rx, tx, handling, payload>>

-----------------------------------------------------------------------------
(* canardInit and initPoolAllocator *)
Init ==
    /\ free = Block
    /\ usage = 0
    /\ peak = 0
    /\ local = FALSE
    /\ rx = [d \in {} |-> NewState(d)]
    /\ tx = {}
    /\ handling = NoDesc
    /\ payload = {}
    /\ now = 1

Next ==
    \/ \E f \in Frame : HandleRxFrame(f)
    \/ ReleasePayload
    \/ CallbackReturns
    \/ \E count \in FrameCounts, life \in Lifetimes : Send(count, life)
    \/ PopTxQueue
    \/ Cleanup
    \/ SetLocalNodeID
    \/ ForgetLocalNodeID
    \/ Tick

(* The main loop runs for ever: the callback returns, the queue is emptied and the   *)
(* cleanup is called; and however often a callback is running, time passes.      *)
Fairness ==
    /\ WF_vars(CallbackReturns)
    /\ WF_vars(PopTxQueue)
    /\ WF_vars(Cleanup)
    /\ SF_vars(Tick)

Spec == Init /\ [][Next]_vars
FairSpec == Spec /\ Fairness

-----------------------------------------------------------------------------
(* Properties *)

(* Every variable keeps its shape. *)
TypeOK ==
    /\ free \subseteq Block
    /\ usage \in Int
    /\ peak \in Int
    /\ local \in BOOLEAN
    /\ DOMAIN rx \subseteq Descs
    /\ rx \in [DOMAIN rx -> State]
    /\ tx \subseteq [block : Block, deadline : Nat]
    /\ handling \in DOMAIN rx \cup {NoDesc}
    /\ payload \subseteq Block
    /\ Idle => payload = {}
    /\ now \in Nat

(* Who owns a block. *)
StateBlocks == {rx[d].block : d \in DOMAIN rx}
ChainBlocks == UNION {rx[d].blocks : d \in DOMAIN rx}
TxBlocks == {item.block : item \in tx}

(* No block has two owners: the lists that the pool, the states, the chains, the    *)
(* callback's transfer and the TX queue are made of never share a block, so no      *)
(* use of one overwrites another and no block is freed twice.                    *)
OneOwner ==
    /\ \A d, e \in DOMAIN rx : d # e =>
          rx[d].block # rx[e].block /\ rx[d].blocks \cap rx[e].blocks = {}
    /\ \A x, y \in tx : x # y => x.block # y.block
    /\ free \cap (StateBlocks \cup ChainBlocks \cup TxBlocks \cup payload) = {}
    /\ StateBlocks \cap (ChainBlocks \cup TxBlocks \cup payload) = {}
    /\ ChainBlocks \cap (TxBlocks \cup payload) = {}
    /\ TxBlocks \cap payload = {}

(* No block is without an owner: no way out of canardHandleRxFrame, of the callback  *)
(* or of the cleanup loses one.                                               *)
NothingLeaks ==
    Block = free \cup StateBlocks \cup ChainBlocks \cup TxBlocks \cup payload

(* The statistics, which enqueueTxFrames relies on for its check of the free        *)
(* blocks, agree with the free list.                                          *)
StatisticsExact ==
    /\ usage = Cardinality(Block) - Cardinality(free)
    /\ usage <= peak
    /\ peak <= Cardinality(Block)

(* What the head and n blocks hold. *)
Room(n) == HeadSize + n * BlockSize

(* A chain of n blocks has room for len bytes and no block too many, but for the     *)
(* empty one that a frame without payload opens when the head is exactly full: the   *)
(* next frame fills that, unless it is as long as a block.                       *)
Fitting(n, len) ==
    /\ len <= Room(n)
    /\ \/ n = 0
       \/ len > Room(n - 1)
       \/ 0 \in Bytes /\ n = 1 /\ len = HeadSize
       \/ /\ 0 \in Bytes /\ \E bytes \in Bytes : bytes >= BlockSize
          /\ n > 1 /\ len > Room(n - 2)

(* The chain of a state fits its payload_len until that wraps, and the state whose    *)
(* transfer is being looked at has none (the assertion of prepareForNextTransfer).  *)
ChainFits(st) == st.wrapped \/ Fitting(Cardinality(st.blocks), st.len)

ChainMatchesLength ==
    \A d \in DOMAIN rx :
        IF d = handling THEN rx[d].blocks = {} ELSE ChainFits(rx[d])

(* When the traffic stops, every block comes back: no state, chain or frame is        *)
(* kept for ever by a transfer that was not finished or a driver that failed.      *)
AllComesBack == <>[](free = Block)

(* canard.h on canardCleanupStaleTransfers: it removes the transfers "that were        *)
(* last updated more than timeout_usec microseconds ago".  Fails: what counts is      *)
(* when the transfer was started.                                              *)
RemovesOnlyIdle ==
    [][\A d \in DOMAIN rx \ DOMAIN rx' : now - rx[d].heard > TransferTimeout]_vars
=============================================================================
