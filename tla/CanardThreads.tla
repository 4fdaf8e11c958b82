---------------------------- MODULE CanardThreads ----------------------------
(***************************************************************************)
(* A build with CANARD_ALLOCATE_SEM: one thread sends and pops the TX queue,    *)
(* another one receives, and they share the pool of the instance.  The         *)
(* semaphore, which the application implements, is held inside allocateBlock    *)
(* and freeBlock; enqueueTxFrames reads the statistics without it.            *)
(* The queue and the states belong to one thread each, so that only their      *)
(* blocks matter here.                                                     *)
(***************************************************************************)
EXTENDS Naturals, FiniteSets

CONSTANTS
    Blocks,     \* the blocks of the arena
    Lengths,    \* the lengths of multi-frame transfers, in frames
    NoBlock     \* NULL

Threads == {"sender", "receiver"}
Nobody == "nobody"

VARIABLES
    free,       \* free_list
    usage,      \* current_usage_blocks
    holder,     \* the thread that has the semaphore, or Nobody
    pc,         \* where a thread is
    block,      \* the block that a call of allocateBlock or freeBlock is about
    owned,      \* the blocks of the TX queue, and those of the RX states
    left        \* the frames that enqueueTxFrames has still to make

threadVars == <<free, usage, holder, pc, block, owned, left>>

Goes(t, place) == pc' = [pc EXCEPT ![t] = place]

-----------------------------------------------------------------------------
(* allocateBlock *)

TakeToAllocate(t) ==
    /\ pc[t] = "allocate" /\ holder = Nobody
    /\ holder' = t
    /\ Goes(t, "read")
    /\ UNCHANGED <<free, usage, block, owned, left>>

(* The free list is empty: NULL.  The sender has checked before that it is not. *)
NoneLeft(t) ==
    /\ pc[t] = "read" /\ free = {}
    /\ holder' = Nobody
    /\ Goes(t, IF t = "sender" THEN "failed" ELSE "idle")
    /\ UNCHANGED <<free, usage, block, owned, left>>

ReadHead(t) ==
    /\ pc[t] = "read"
    /\ \E b \in free : block' = [block EXCEPT ![t] = b]
    /\ Goes(t, "unlink")
    /\ UNCHANGED <<free, usage, holder, owned, left>>

Unlink(t) ==
    /\ pc[t] = "unlink"
    /\ free' = free \ {block[t]}
    /\ Goes(t, "count")
    /\ UNCHANGED <<usage, holder, block, owned, left>>

(* The statistics, the semaphore, and back in the caller's loop. *)
Count(t) ==
    /\ pc[t] = "count"
    /\ usage' = usage + 1
    /\ holder' = Nobody
    /\ owned' = [owned EXCEPT ![t] = @ \cup {block[t]}]
    /\ block' = [block EXCEPT ![t] = NoBlock]
    /\ left' = IF t = "sender" THEN left - 1 ELSE left
    /\ Goes(t, IF t = "sender" /\ left > 1 THEN "allocate" ELSE "idle")
    /\ UNCHANGED free

-----------------------------------------------------------------------------
(* freeBlock *)

TakeToFree(t) ==
    /\ pc[t] = "free" /\ holder = Nobody
    /\ holder' = t
    /\ Goes(t, "link")
    /\ UNCHANGED <<free, usage, block, owned, left>>

Link(t) ==
    /\ pc[t] = "link"
    /\ free' = free \cup {block[t]}
    /\ block' = [block EXCEPT ![t] = NoBlock]
    /\ Goes(t, "uncount")
    /\ UNCHANGED <<usage, holder, owned, left>>

Uncount(t) ==
    /\ pc[t] = "uncount"
    /\ usage' = usage - 1
    /\ holder' = Nobody
    /\ Goes(t, "idle")
    /\ UNCHANGED <<free, block, owned, left>>

-----------------------------------------------------------------------------
(* The callers *)

(* enqueueTxFrames: blocks_available against frames_needed.  A refusal changes nothing. *)
Check(frames) ==
    /\ pc["sender"] = "idle"
    /\ Cardinality(Blocks) - usage >= frames
    /\ left' = frames
    /\ Goes("sender", "allocate")
    /\ UNCHANGED <<free, usage, holder, block, owned>>

(* createRxState, createBufferBlock *)
Store ==
    /\ pc["receiver"] = "idle"
    /\ Goes("receiver", "allocate")
    /\ UNCHANGED <<free, usage, holder, block, owned, left>>

(* canardPopTxQueue; releaseStatePayload, canardReleaseRxTransferPayload *)
GiveUp(t) ==
    /\ pc[t] = "idle"
    /\ \E b \in owned[t] :
          /\ block' = [block EXCEPT ![t] = b]
          /\ owned' = [owned EXCEPT ![t] = @ \ {b}]
    /\ Goes(t, "free")
    /\ UNCHANGED <<free, usage, holder, left>>

-----------------------------------------------------------------------------
ThreadsInit ==
    /\ free = Blocks
    /\ usage = 0
    /\ holder = Nobody
    /\ pc = [t \in Threads |-> "idle"]
    /\ block = [t \in Threads |-> NoBlock]
    /\ owned = [t \in Threads |-> {}]
    /\ left = 0

Step(t) ==
    \/ TakeToAllocate(t)
    \/ NoneLeft(t)
    \/ ReadHead(t)
    \/ Unlink(t)
    \/ Count(t)
    \/ TakeToFree(t)
    \/ Link(t)
    \/ Uncount(t)
    \/ GiveUp(t)

ThreadsNext ==
    \/ \E t \in Threads : Step(t)
    \/ \E frames \in Lengths : Check(frames)
    \/ Store

ThreadsSpec == ThreadsInit /\ [][ThreadsNext]_threadVars

-----------------------------------------------------------------------------
(* Properties *)

(* "see if we are going to be able to allocate enough blocks for this transfer. If   *)
(* not then stop now, otherwise we will end up doing a partial (corrupt) transfer"    *)
(* (canard.c:1218): once the check has passed, the loop gets its blocks, and          *)
(* CANARD_ASSERT(false) at canard.c:1238 is never reached.                       *)
CheckedBlocksArrive == pc["sender"] # "failed"

(* Every block has one owner: the list, the queue, the states, or a call under way.     *)
OneOwnerEach ==
    /\ \A b \in Blocks : b \in free \/ \E t \in Threads : b \in owned[t] \/ b = block[t]
    /\ \A t \in Threads : owned[t] \cap free = {}
    /\ owned["sender"] \cap owned["receiver"] = {}
    /\ \A t \in Threads : \A u \in Threads : block[t] \notin owned[u]
    /\ block["sender"] = block["receiver"] => block["sender"] = NoBlock

(* When nobody is inside the allocator, current_usage_blocks is what the free list    *)
(* lacks.                                                                    *)
UsageIsExact == holder = Nobody => usage + Cardinality(free) = Cardinality(Blocks)
=============================================================================
