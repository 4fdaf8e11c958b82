------------------------- MODULE CanardThreadsProofs -------------------------
(***************************************************************************)
(* What the semaphore of the allocator does guarantee, for any pool: the two      *)
(* threads never hold one block, none is lost, and the statistics are exact.     *)
(* They rest on mutual exclusion and on where the two halves of an operation,    *)
(* list and statistics, have got to.                                          *)
(***************************************************************************)
EXTENDS CanardThreads, FiniteSetTheorems, TLAPS

Inside == {"read", "unlink", "count", "link", "uncount"}
Places == Inside \cup {"idle", "allocate", "free", "failed"}

Shape ==
    /\ free \subseteq Blocks
    /\ usage \in Int
    /\ holder \in Threads \cup {Nobody}
    /\ pc \in [Threads -> Places]
    /\ block \in [Threads -> Blocks \cup {NoBlock}]
    /\ owned \in [Threads -> SUBSET Blocks]

(* Who is inside the allocator has the semaphore, and only he. *)
Exclusion == \A t \in Threads : pc[t] \in Inside <=> holder = t

(* The block that a thread is about, and whether it is in the free list. *)
InHand ==
    \A t \in Threads :
        /\ block[t] # NoBlock <=> pc[t] \in {"unlink", "count", "free", "link"}
        /\ block[t] \in free => pc[t] = "unlink"
        /\ pc[t] = "unlink" => block[t] \in free

(* By how much the statistics are behind the free list. *)
Behind ==
    IF \E t \in Threads : pc[t] = "count" THEN 1
    ELSE IF \E t \in Threads : pc[t] = "uncount" THEN 0 - 1
    ELSE 0

Balance == usage + Cardinality(free) + Behind = Cardinality(Blocks)

ThreadsInv == Shape /\ Exclusion /\ InHand /\ OneOwnerEach /\ Balance

-----------------------------------------------------------------------------
LEMMA ThreadsStart ==
    ASSUME NoBlock \notin Blocks, IsFiniteSet(Blocks), ThreadsInit
    PROVE  ThreadsInv
<1>1. Shape
  BY DEF ThreadsInit, Shape, Places, Inside
<1>2. Exclusion
  BY DEF ThreadsInit, Exclusion, Inside, Threads, Nobody
<1>3. InHand
  BY DEF ThreadsInit, InHand
<1>4. OneOwnerEach
  BY DEF ThreadsInit, OneOwnerEach, Threads
<1>5. Balance
  <2>1. Cardinality(Blocks) \in Nat
    BY FS_CardinalityType
  <2>2. Behind = 0
    BY DEF ThreadsInit, Behind
  <2> QED BY <2>1, <2>2 DEF ThreadsInit, Balance
<1> QED BY <1>1, <1>2, <1>3, <1>4, <1>5 DEF ThreadsInv

(* The semaphore is free, so nobody is inside. *)
LEMMA TakeToAllocateKeeps ==
    ASSUME NoBlock \notin Blocks, IsFiniteSet(Blocks), ThreadsInv, NEW t \in Threads, TakeToAllocate(t)
    PROVE  ThreadsInv'
<1> USE DEF ThreadsInv, TakeToAllocate, Goes
<1>1. Shape'
  BY DEF Shape, InHand, Places, Inside, Threads, Nobody
<1>2. Exclusion'
  BY DEF Shape, Exclusion, Inside, Threads, Nobody
<1>3. InHand'
  BY DEF Shape, Exclusion, InHand, OneOwnerEach, Inside, Threads, Nobody
<1>4. OneOwnerEach'
  BY DEF Shape, Exclusion, InHand, OneOwnerEach, Inside, Threads
<1>5. Balance'
  <2>1. Behind' = Behind
    BY DEF Shape, Exclusion, Behind, Inside, Threads, Nobody
  <2> QED BY <2>1 DEF Balance
<1> QED BY <1>1, <1>2, <1>3, <1>4, <1>5

(* The call gives the semaphore back with the list as it was. *)
LEMMA NoneLeftKeeps ==
    ASSUME NoBlock \notin Blocks, IsFiniteSet(Blocks), ThreadsInv, NEW t \in Threads, NoneLeft(t)
    PROVE  ThreadsInv'
<1> USE DEF ThreadsInv, NoneLeft, Goes
<1>1. Shape'
  BY DEF Shape, InHand, Places, Inside, Threads, Nobody
<1>2. Exclusion'
  BY DEF Shape, Exclusion, Inside, Threads, Nobody
<1>3. InHand'
  BY DEF Shape, Exclusion, InHand, OneOwnerEach, Inside, Threads, Nobody
<1>4. OneOwnerEach'
  BY DEF Shape, Exclusion, InHand, OneOwnerEach, Inside, Threads
<1>5. Balance'
  <2>1. Behind' = Behind
    BY DEF Shape, Exclusion, Behind, Inside, Threads, Nobody
  <2> QED BY <2>1 DEF Balance
<1> QED BY <1>1, <1>2, <1>3, <1>4, <1>5

(* The head of the list stays where it is. *)
LEMMA ReadHeadKeeps ==
    ASSUME NoBlock \notin Blocks, IsFiniteSet(Blocks), ThreadsInv, NEW t \in Threads, ReadHead(t)
    PROVE  ThreadsInv'
<1> USE DEF ThreadsInv, ReadHead, Goes
<1>1. Shape'
  BY DEF Shape, InHand, Places, Inside, Threads, Nobody
<1>2. Exclusion'
  BY DEF Shape, Exclusion, Inside, Threads, Nobody
<1>3. InHand'
  BY DEF Shape, Exclusion, InHand, OneOwnerEach, Inside, Threads, Nobody
<1>4. OneOwnerEach'
  BY DEF Shape, Exclusion, InHand, OneOwnerEach, Inside, Threads
<1>5. Balance'
  <2>1. Behind' = Behind
    BY DEF Shape, Exclusion, Behind, Inside, Threads, Nobody
  <2> QED BY <2>1 DEF Balance
<1> QED BY <1>1, <1>2, <1>3, <1>4, <1>5

(* The list has lost a block that the statistics still have. *)
LEMMA UnlinkKeeps ==
    ASSUME NoBlock \notin Blocks, IsFiniteSet(Blocks), ThreadsInv, NEW t \in Threads, Unlink(t)
    PROVE  ThreadsInv'
<1> USE DEF ThreadsInv, Unlink, Goes
<1>1. Shape'
  BY DEF Shape, InHand, Places, Inside, Threads, Nobody
<1>2. Exclusion'
  BY DEF Shape, Exclusion, Inside, Threads, Nobody
<1>3. InHand'
  BY DEF Shape, Exclusion, InHand, OneOwnerEach, Inside, Threads, Nobody
<1>4. OneOwnerEach'
  BY DEF Shape, Exclusion, InHand, OneOwnerEach, Inside, Threads
<1>5. Balance'
  <2>1. Behind = 0 /\ Behind' = 1
    BY DEF Shape, Exclusion, Behind, Inside, Threads, Nobody
  <2>2. IsFiniteSet(free)
    BY FS_Subset DEF Shape
  <2>3. Cardinality(free') = Cardinality(free) - 1
    BY <2>2, FS_RemoveElement DEF InHand
  <2> QED BY <2>1, <2>3, FS_CardinalityType, <2>2 DEF Balance, Shape
<1> QED BY <1>1, <1>2, <1>3, <1>4, <1>5

(* The statistics catch up, and the block is the caller's. *)
LEMMA CountKeeps ==
    ASSUME NoBlock \notin Blocks, IsFiniteSet(Blocks), ThreadsInv, NEW t \in Threads, Count(t)
    PROVE  ThreadsInv'
<1> USE DEF ThreadsInv, Count, Goes
<1>1. Shape'
  BY DEF Shape, InHand, Places, Inside, Threads, Nobody
<1>2. Exclusion'
  BY DEF Shape, Exclusion, Inside, Threads, Nobody
<1>3. InHand'
  BY DEF Shape, Exclusion, InHand, OneOwnerEach, Inside, Threads, Nobody
<1>4. OneOwnerEach'
  BY DEF Shape, Exclusion, InHand, OneOwnerEach, Inside, Threads
<1>5. Balance'
  <2>1. Behind = 1 /\ Behind' = 0
    BY DEF Shape, Exclusion, Behind, Inside, Threads, Nobody
  <2>2. IsFiniteSet(free)
    BY FS_Subset DEF Shape
  <2> QED BY <2>1, FS_CardinalityType, <2>2 DEF Balance, Shape
<1> QED BY <1>1, <1>2, <1>3, <1>4, <1>5

(* As for allocateBlock. *)
LEMMA TakeToFreeKeeps ==
    ASSUME NoBlock \notin Blocks, IsFiniteSet(Blocks), ThreadsInv, NEW t \in Threads, TakeToFree(t)
    PROVE  ThreadsInv'
<1> USE DEF ThreadsInv, TakeToFree, Goes
<1>1. Shape'
  BY DEF Shape, InHand, Places, Inside, Threads, Nobody
<1>2. Exclusion'
  BY DEF Shape, Exclusion, Inside, Threads, Nobody
<1>3. InHand'
  BY DEF Shape, Exclusion, InHand, OneOwnerEach, Inside, Threads, Nobody
<1>4. OneOwnerEach'
  BY DEF Shape, Exclusion, InHand, OneOwnerEach, Inside, Threads
<1>5. Balance'
  <2>1. Behind' = Behind
    BY DEF Shape, Exclusion, Behind, Inside, Threads, Nobody
  <2> QED BY <2>1 DEF Balance
<1> QED BY <1>1, <1>2, <1>3, <1>4, <1>5

(* The list has a block that the statistics still count. *)
LEMMA LinkKeeps ==
    ASSUME NoBlock \notin Blocks, IsFiniteSet(Blocks), ThreadsInv, NEW t \in Threads, Link(t)
    PROVE  ThreadsInv'
<1> USE DEF ThreadsInv, Link, Goes
<1>1. Shape'
  BY DEF Shape, InHand, Places, Inside, Threads, Nobody
<1>2. Exclusion'
  BY DEF Shape, Exclusion, Inside, Threads, Nobody
<1>3. InHand'
  BY DEF Shape, Exclusion, InHand, OneOwnerEach, Inside, Threads, Nobody
<1>4. OneOwnerEach'
  BY DEF Shape, Exclusion, InHand, OneOwnerEach, Inside, Threads
<1>5. Balance'
  <2>1. Behind = 0 /\ Behind' = 0 - 1
    BY DEF Shape, Exclusion, Behind, Inside, Threads, Nobody
  <2>2. IsFiniteSet(free)
    BY FS_Subset DEF Shape
  <2>3. Cardinality(free') = Cardinality(free) + 1
    BY <2>2, FS_AddElement DEF InHand
  <2> QED BY <2>1, <2>3, FS_CardinalityType, <2>2 DEF Balance, Shape
<1> QED BY <1>1, <1>2, <1>3, <1>4, <1>5

(* The statistics catch up. *)
LEMMA UncountKeeps ==
    ASSUME NoBlock \notin Blocks, IsFiniteSet(Blocks), ThreadsInv, NEW t \in Threads, Uncount(t)
    PROVE  ThreadsInv'
<1> USE DEF ThreadsInv, Uncount, Goes
<1>1. Shape'
  BY DEF Shape, InHand, Places, Inside, Threads, Nobody
<1>2. Exclusion'
  BY DEF Shape, Exclusion, Inside, Threads, Nobody
<1>3. InHand'
  BY DEF Shape, Exclusion, InHand, OneOwnerEach, Inside, Threads, Nobody
<1>4. OneOwnerEach'
  BY DEF Shape, Exclusion, InHand, OneOwnerEach, Inside, Threads
<1>5. Balance'
  <2>1. Behind = 0 - 1 /\ Behind' = 0
    BY DEF Shape, Exclusion, Behind, Inside, Threads, Nobody
  <2>2. IsFiniteSet(free)
    BY FS_Subset DEF Shape
  <2> QED BY <2>1, FS_CardinalityType, <2>2 DEF Balance, Shape
<1> QED BY <1>1, <1>2, <1>3, <1>4, <1>5

(* The block leaves the queue or the states for the call. *)
LEMMA GiveUpKeeps ==
    ASSUME NoBlock \notin Blocks, IsFiniteSet(Blocks), ThreadsInv, NEW t \in Threads, GiveUp(t)
    PROVE  ThreadsInv'
<1> USE DEF ThreadsInv, GiveUp, Goes
<1>1. Shape'
  BY DEF Shape, InHand, Places, Inside, Threads, Nobody
<1>2. Exclusion'
  BY DEF Shape, Exclusion, Inside, Threads, Nobody
<1>3. InHand'
  BY DEF Shape, Exclusion, InHand, OneOwnerEach, Inside, Threads, Nobody
<1>4. OneOwnerEach'
  BY DEF Shape, Exclusion, InHand, OneOwnerEach, Inside, Threads
<1>5. Balance'
  <2>1. Behind' = Behind
    BY DEF Shape, Exclusion, Behind, Inside, Threads, Nobody
  <2> QED BY <2>1 DEF Balance
<1> QED BY <1>1, <1>2, <1>3, <1>4, <1>5

(* The check changes what the sender is about to do only. *)
LEMMA CheckKeeps ==
    ASSUME NoBlock \notin Blocks, IsFiniteSet(Blocks), ThreadsInv, NEW frames \in Lengths, Check(frames)
    PROVE  ThreadsInv'
<1> USE DEF ThreadsInv, Check, Goes
<1>1. Shape'
  BY DEF Shape, InHand, Places, Inside, Threads, Nobody
<1>2. Exclusion'
  BY DEF Shape, Exclusion, Inside, Threads, Nobody
<1>3. InHand'
  BY DEF Shape, Exclusion, InHand, OneOwnerEach, Inside, Threads, Nobody
<1>4. OneOwnerEach'
  BY DEF Shape, Exclusion, InHand, OneOwnerEach, Inside, Threads
<1>5. Balance'
  <2>1. Behind' = Behind
    BY DEF Shape, Exclusion, Behind, Inside, Threads, Nobody
  <2> QED BY <2>1 DEF Balance
<1> QED BY <1>1, <1>2, <1>3, <1>4, <1>5

(* The receiver is about to allocate. *)
LEMMA StoreKeeps ==
    ASSUME NoBlock \notin Blocks, IsFiniteSet(Blocks), ThreadsInv, Store
    PROVE  ThreadsInv'
<1> USE DEF ThreadsInv, Store, Goes
<1>1. Shape'
  BY DEF Shape, InHand, Places, Inside, Threads, Nobody
<1>2. Exclusion'
  BY DEF Shape, Exclusion, Inside, Threads, Nobody
<1>3. InHand'
  BY DEF Shape, Exclusion, InHand, OneOwnerEach, Inside, Threads, Nobody
<1>4. OneOwnerEach'
  BY DEF Shape, Exclusion, InHand, OneOwnerEach, Inside, Threads
<1>5. Balance'
  <2>1. Behind' = Behind
    BY DEF Shape, Exclusion, Behind, Inside, Threads, Nobody
  <2> QED BY <2>1 DEF Balance
<1> QED BY <1>1, <1>2, <1>3, <1>4, <1>5

LEMMA ThreadsStutter ==
    ASSUME ThreadsInv, UNCHANGED threadVars
    PROVE  ThreadsInv'
<1> USE DEF threadVars
<1>1. Shape' /\ Exclusion' /\ InHand' /\ OneOwnerEach'
  BY DEF ThreadsInv, Shape, Exclusion, InHand, OneOwnerEach
<1>2. Balance'
  BY DEF ThreadsInv, Balance, Behind
<1> QED BY <1>1, <1>2 DEF ThreadsInv

LEMMA ThreadsInvariant ==
    ASSUME NoBlock \notin Blocks, IsFiniteSet(Blocks)
    PROVE  ThreadsSpec => []ThreadsInv
<1>1. ThreadsInit => ThreadsInv
  BY ThreadsStart
<1>2. ThreadsInv /\ [ThreadsNext]_threadVars => ThreadsInv'
  <2> SUFFICES ASSUME ThreadsInv, [ThreadsNext]_threadVars
               PROVE  ThreadsInv'
    OBVIOUS
  <2>1. ASSUME NEW t \in Threads, Step(t)
        PROVE  ThreadsInv'
    <3> USE <2>1
    <3>1. CASE TakeToAllocate(t)
      BY <3>1, TakeToAllocateKeeps
    <3>2. CASE NoneLeft(t)
      BY <3>2, NoneLeftKeeps
    <3>3. CASE ReadHead(t)
      BY <3>3, ReadHeadKeeps
    <3>4. CASE Unlink(t)
      BY <3>4, UnlinkKeeps
    <3>5. CASE Count(t)
      BY <3>5, CountKeeps
    <3>6. CASE TakeToFree(t)
      BY <3>6, TakeToFreeKeeps
    <3>7. CASE Link(t)
      BY <3>7, LinkKeeps
    <3>8. CASE Uncount(t)
      BY <3>8, UncountKeeps
    <3>9. CASE GiveUp(t)
      BY <3>9, GiveUpKeeps
    <3> QED BY <3>1, <3>2, <3>3, <3>4, <3>5, <3>6, <3>7, <3>8, <3>9 DEF Step
  <2>2. ASSUME NEW frames \in Lengths, Check(frames)
        PROVE  ThreadsInv'
    BY <2>2, CheckKeeps
  <2>3. CASE Store
    BY <2>3, StoreKeeps
  <2>4. CASE UNCHANGED threadVars
    BY <2>4, ThreadsStutter
  <2> QED BY <2>1, <2>2, <2>3, <2>4 DEF ThreadsNext
<1> QED BY <1>1, <1>2, PTL DEF ThreadsSpec

-----------------------------------------------------------------------------
(* allocateBlock and freeBlock under the semaphore: no block is ever lost or given to  *)
(* both threads, however their calls interleave.                               *)
THEOREM ThreadsShareNoBlock ==
    ASSUME NoBlock \notin Blocks, IsFiniteSet(Blocks)
    PROVE  ThreadsSpec => []OneOwnerEach
<1>1. ThreadsInv => OneOwnerEach
  BY DEF ThreadsInv
<1> QED BY <1>1, ThreadsInvariant, PTL

(* current_usage_blocks is exact whenever the semaphore is free; what enqueueTxFrames  *)
(* reads without it may be one block behind.                                    *)
THEOREM ThreadsCountExactly ==
    ASSUME NoBlock \notin Blocks, IsFiniteSet(Blocks)
    PROVE  ThreadsSpec => []UsageIsExact
<1>1. ASSUME ThreadsInv
      PROVE  UsageIsExact
  <2> SUFFICES ASSUME holder = Nobody
               PROVE  usage + Cardinality(free) = Cardinality(Blocks)
    BY DEF UsageIsExact
  <2>1. Behind = 0
    BY <1>1 DEF ThreadsInv, Exclusion, Behind, Inside, Threads, Nobody
  <2>2. Cardinality(free) \in Nat
    BY <1>1, FS_Subset, FS_CardinalityType DEF ThreadsInv, Shape
  <2> QED BY <1>1, <2>1, <2>2 DEF ThreadsInv, Shape, Balance
<1> QED BY <1>1, ThreadsInvariant, PTL
=============================================================================
