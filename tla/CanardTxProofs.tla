-------------------------- MODULE CanardTxProofs --------------------------
(***************************************************************************)
(* Transmission.  First the TX queue, for every pool, every frame size and every set  *)
(* of extended data-frame identifiers: it never outgrows the pool and stays sorted.    *)
(* Then its path to the bus, for every scenario: the loop and the drivers only take     *)
(* steps that the queue allows, so what is proved of the queue holds on the path; and    *)
(* the mailboxes of the bxCAN controller do not let frames of one identifier         *)
(* overtake each other.                                                     *)
(***************************************************************************)
EXTENDS CanardTxPath, FiniteSetTheorems, SequenceTheorems, TLAPS

(* incrementTransferID stays within the bit-field. *)
LEMMA NextTransferIdType ==
    ASSUME NEW t \in TransferId
    PROVE  NextTransferId(t) \in TransferId
BY TidModAssumption DEF TransferId, NextTransferId

-----------------------------------------------------------------------------
(* isPriorityHigher is an arbitration order: on the identifiers that exist on the wire    *)
(* it is a strict total order, so the sorted list of pushTxQueue has one order only, and   *)
(* two frames tie exactly when their identifiers are equal.                         *)

(* No identifier is beaten by itself. *)
LEMMA PriorityIrreflexive ==
    ASSUME NEW a \in FrameId
    PROVE  ~isPriorityHigher(a, a)
BY DEF FrameId, isPriorityHigher, SameNumber, LesserNumber

(* The comparison of pushTxQueue is transitive over the mixed formats too. *)
LEMMA PriorityTransitive ==
    ASSUME NEW a \in WireId, NEW b \in WireId, NEW d \in WireId,
           isPriorityHigher(b, a), isPriorityHigher(d, b)
    PROVE  isPriorityHigher(d, a)
BY DEF WireId, FrameId, isPriorityHigher, SameNumber, LesserNumber

(* Two identifiers that do not beat each other are equal. *)
LEMMA PriorityTotal ==
    ASSUME NEW a \in WireId, NEW b \in WireId,
           ~isPriorityHigher(b, a), ~isPriorityHigher(a, b)
    PROVE  a = b
<1>1. /\ a.ext = b.ext /\ a.rtr = b.rtr /\ a.arb = b.arb /\ a.low = b.low
  BY DEF WireId, FrameId, isPriorityHigher, SameNumber, LesserNumber
<1> QED
  BY <1>1 DEF WireId, FrameId

(* isPriorityHigher is a strict total order on the identifiers of the wire. *)
THEOREM PriorityIsStrictTotalOrder ==
    /\ \A a \in WireId : ~isPriorityHigher(a, a)
    /\ \A a, b \in WireId : isPriorityHigher(b, a) => ~isPriorityHigher(a, b)
    /\ \A a, b, d \in WireId :
          isPriorityHigher(b, a) /\ isPriorityHigher(d, b) => isPriorityHigher(d, a)
    /\ \A a, b \in WireId :
          a = b \/ isPriorityHigher(b, a) \/ isPriorityHigher(a, b)
<1>1. WireId \subseteq FrameId
  BY DEF WireId
<1> QED
  BY <1>1, PriorityIrreflexive, PriorityTransitive, PriorityTotal

-----------------------------------------------------------------------------
(* Framing *)

LEMMA DivideOneMore ==
    ASSUME NEW d \in Nat \ {0}, NEW x \in Nat
    PROVE  (x + d) \div d = x \div d + 1 /\ x \div d \in Nat
<1>1. x \div d \in Nat
  OBVIOUS
<1>2. (x + d) \div d = x \div d + 1
  OBVIOUS
<1> QED
  BY <1>1, <1>2

(* The number of frames that enqueueTxFrames checks the pool for is the number of   *)
(* frames its loop makes, so the assertion in the loop never fires, as long as       *)
(* total_bytes does not wrap: up to 65533 bytes of payload.                      *)
THEOREM FramesCheckIsExact ==
    ASSUME NEW len \in Nat, len + 2 < LengthMod
    PROVE  FramesMade(len) = FramesNeeded(len) /\ FramesNeeded(len) \in Nat \ {0}
<1>1. FrameData \in Nat /\ FrameData >= 4
  BY TxQueueAssumption DEF TxQueueAssumption
<1>2. CASE SingleFrame(len)
  BY <1>2 DEF FramesMade, FramesNeeded
<1>3. CASE ~SingleFrame(len)
  <2>1. FrameData - 1 \in Nat \ {0} /\ len + 1 \in Nat
    BY <1>1
  <2>2. /\ (len + 1 + (FrameData - 1)) \div (FrameData - 1)
               = (len + 1) \div (FrameData - 1) + 1
        /\ (len + 1) \div (FrameData - 1) \in Nat
    <3> DEFINE d == FrameData - 1
               x == len + 1
    <3>1. d \in Nat \ {0} /\ x \in Nat
      BY <2>1
    <3> HIDE DEF d, x
    <3>2. (x + d) \div d = x \div d + 1 /\ x \div d \in Nat
      BY <3>1, DivideOneMore
    <3> QED
      BY <3>2 DEF d, x
  <2>3. /\ len + 2 + (FrameData - 2) = len + 1 + (FrameData - 1)
        /\ len - (FrameData - 3) + (FrameData - 2) = len + 1
    BY <1>1
  <2>4. FramesNeeded(len) = (len + 1) \div (FrameData - 1) + 1
    <3>1. (len + 2) % LengthMod = len + 2
      BY DEF LengthMod
    <3> QED
      BY <1>3, <2>2, <2>3, <3>1 DEF FramesNeeded
  <2>5. FramesMade(len) = 1 + (len + 1) \div (FrameData - 1)
    BY <1>3, <2>3 DEF FramesMade
  <2> QED
    BY <2>2, <2>4, <2>5
<1> QED
  BY <1>2, <1>3

-----------------------------------------------------------------------------
(* The invariant: a transfer is unbroken because the queue is sorted, and the queue    *)
(* remains sorted because what it holds are frames of transfers accepted earlier.   *)
Inv ==
    /\ TypeOK
    /\ Sorted
    /\ UnbrokenTransfers

LEMMA FunctionIsSeq ==
    ASSUME NEW S, NEW m \in Nat, NEW g \in [1 .. m -> S]
    PROVE  g \in Seq(S) /\ Len(g) = m /\ DOMAIN g = 1 .. m
<1>1. g \in Seq(S)
  BY SeqDef
<1>2. DOMAIN g = 1 .. m /\ DOMAIN g = 1 .. Len(g) /\ Len(g) \in Nat
  BY <1>1, LenProperties
<1> QED
  BY <1>1, <1>2

LEMMA IdsAreWireIds == Ids \subseteq WireId
BY TxQueueAssumption DEF TxQueueAssumption, WireId

(* The parts of the invariant that a proof looks at, with the queue and the transfers   *)
(* as functions.                                                              *)
LEMMA QueueFacts ==
    ASSUME TypeOK
    PROVE  /\ Len(queue) \in Nat /\ DOMAIN queue = 1 .. Len(queue)
           /\ queue \in [1 .. Len(queue) -> Item]
           /\ Len(transfers) \in Nat /\ DOMAIN transfers = 1 .. Len(transfers)
           /\ \A i \in 1 .. Len(queue) :
                  /\ queue[i] \in Item
                  /\ queue[i].n \in 1 .. Len(transfers)
                  /\ queue[i].k <= transfers[queue[i].n].frames
                  /\ queue[i].id = transfers[queue[i].n].id
           /\ \A m \in 1 .. Len(transfers) :
                  transfers[m] \in [id : Ids, frames : Nat \ {0}, tid : TransferId,
                                   deadline : Nat]
BY LenProperties, ElementOfSeq DEF TypeOK

(* A subsequence of the queue that loses no frame in the middle of a transfer: what      *)
(* canardPopTxQueue and canardCleanupStaleTransfers leave.                         *)
LEMMA SubsequenceStep ==
    ASSUME Inv,
           NEW m \in Nat, m <= Len(queue),
           NEW f \in [1 .. m -> 1 .. Len(queue)],
           \A i, j \in 1 .. m : i < j => f[i] < f[j],
           queue' = [i \in 1 .. m |-> queue[f[i]]],
           \A i \in 1 .. m :
               queue[f[i]].k < transfers[queue[f[i]].n].frames =>
                   i + 1 \in 1 .. m /\ f[i + 1] = f[i] + 1,
           UNCHANGED <<tids, transfers, others>>,
           taken' \in Seq(Item), now' \in Nat
    PROVE  Inv'
<1>1. /\ Len(queue) \in Nat /\ DOMAIN queue = 1 .. Len(queue)
      /\ \A i \in 1 .. Len(queue) :
            /\ queue[i] \in Item
            /\ queue[i].n \in DOMAIN transfers
            /\ queue[i].k <= transfers[queue[i].n].frames
            /\ queue[i].id = transfers[queue[i].n].id
  BY QueueFacts DEF Inv
<1>2. \A i \in 1 .. m : f[i] \in 1 .. Len(queue) /\ queue'[i] = queue[f[i]]
  OBVIOUS
<1>3. queue' \in [1 .. m -> Item]
  BY <1>1, <1>2
<1>4. queue' \in Seq(Item) /\ Len(queue') = m /\ DOMAIN queue' = 1 .. m
  BY <1>3, FunctionIsSeq
<1>5. TypeOK'
  <2>1. \A i \in DOMAIN queue' :
            /\ queue'[i].n \in DOMAIN transfers'
            /\ queue'[i].k <= transfers'[queue'[i].n].frames
            /\ queue'[i].id = transfers'[queue'[i].n].id
    BY <1>1, <1>2, <1>4
  <2>2. Len(queue') + others' <= Capacity
    BY <1>1, <1>4, TxQueueAssumption DEF Inv, TypeOK, TxQueueAssumption
  <2> QED
    BY <1>4, <2>1, <2>2 DEF Inv, TypeOK
<1>6. Sorted'
  <2> SUFFICES ASSUME NEW i \in 1 .. m, NEW j \in 1 .. m, i < j
               PROVE  \/ isPriorityHigher(queue'[j].id, queue'[i].id)
                      \/ queue'[i].id = queue'[j].id /\ CameFirst(queue'[i], queue'[j])
    BY <1>4 DEF Sorted, CameFirst
  <2>1. f[i] < f[j]
    OBVIOUS
  <2> QED
    BY <1>1, <1>2, <2>1 DEF Inv, Sorted
<1>7. UnbrokenTransfers'
  <2> SUFFICES ASSUME NEW i \in 1 .. m, queue'[i].k < transfers[queue'[i].n].frames
               PROVE  /\ i + 1 \in 1 .. m
                      /\ queue'[i + 1] = [queue'[i] EXCEPT !.k = @ + 1]
    BY <1>4 DEF UnbrokenTransfers
  <2>1. i + 1 \in 1 .. m /\ f[i + 1] = f[i] + 1
    BY <1>2
  <2>2. queue[f[i] + 1] = [queue[f[i]] EXCEPT !.k = @ + 1]
    BY <1>1, <1>2 DEF Inv, UnbrokenTransfers
  <2> QED
    BY <1>2, <2>1, <2>2
<1> QED
  BY <1>5, <1>6, <1>7 DEF Inv

(* canardPopTxQueue, in the application's loop. *)
LEMMA PopStep ==
    ASSUME Inv, queue # <<>>, canardPopTxQueue,
           UNCHANGED <<tids, transfers, others, now>>,
           taken' \in Seq(Item)
    PROVE  Inv'
<1> DEFINE m == Len(queue) - 1
           f == [i \in 1 .. m |-> i + 1]
<1>1. /\ queue \in Seq(Item) /\ Len(queue) \in Nat \ {0}
      /\ DOMAIN queue = 1 .. Len(queue)
  BY EmptySeq, LenProperties DEF Inv, TypeOK
<1>2. m \in Nat /\ m <= Len(queue)
  BY <1>1
<1>3. /\ f \in [1 .. m -> 1 .. Len(queue)]
      /\ \A i, j \in 1 .. m : i < j => f[i] < f[j]
      /\ \A i \in 1 .. m : f[i] = i + 1
  BY <1>1
<1>4. queue' = [i \in 1 .. m |-> queue[f[i]]]
  <2>1. /\ queue' \in Seq(Item) /\ Len(queue') = m
        /\ \A i \in 1 .. m : queue'[i] = queue[i + 1]
    BY <1>1, HeadTailProperties DEF canardPopTxQueue
  <2>2. queue' \in [1 .. m -> Item]
    BY <2>1, LenProperties
  <2> HIDE DEF m
  <2> QED
    BY <1>3, <2>1, <2>2
<1>5. \A i \in 1 .. m :
          queue[f[i]].k < transfers[queue[f[i]].n].frames =>
              i + 1 \in 1 .. m /\ f[i + 1] = f[i] + 1
  <2> SUFFICES ASSUME NEW i \in 1 .. m,
                      queue[i + 1].k < transfers[queue[i + 1].n].frames
               PROVE  i + 1 \in 1 .. m /\ f[i + 1] = i + 2
    BY <1>3
  <2>1. i + 2 \in 1 .. Len(queue)
    <3>1. \A j \in 1 .. Len(queue) :
              queue[j].k < transfers[queue[j].n].frames => j + 1 \in 1 .. Len(queue)
      BY <1>1 DEF Inv, UnbrokenTransfers
    <3>2. i + 1 \in 1 .. Len(queue) /\ i + 1 + 1 = i + 2
      BY <1>1
    <3> QED
      BY <3>1, <3>2
  <2>2. i + 1 \in 1 .. m
    BY <1>1, <2>1
  <2> QED
    BY <1>3, <2>2
<1>6. now' \in Nat
  BY DEF Inv, TypeOK
<1> HIDE DEF m, f
<1> QED
  BY <1>2, <1>3, <1>4, <1>5, <1>6, SubsequenceStep

LEMMA IntervalSize ==
    ASSUME NEW m \in Nat
    PROVE  IsFiniteSet(1 .. m) /\ Cardinality(1 .. m) = m
BY FS_Interval

(* An increasing enumeration of a finite set of numbers leaves none out. *)
LEMMA EnumerationIsOnto ==
    ASSUME NEW S \in SUBSET Int, IsFiniteSet(S),
           NEW f \in [1 .. Cardinality(S) -> S],
           \A i, j \in 1 .. Cardinality(S) : i < j => f[i] < f[j]
    PROVE  \A x \in S : \E i \in 1 .. Cardinality(S) : f[i] = x
<1> DEFINE m == Cardinality(S)
<1>1. m \in Nat
  BY FS_CardinalityType
<1>2. IsFiniteSet(1 .. m) /\ Cardinality(1 .. m) = m
  BY <1>1, IntervalSize
<1>3. f \in Injection(1 .. m, S)
  <2> HIDE DEF m
  <2>1. f \in [1 .. m -> S] /\ \A i, j \in 1 .. m : i < j => f[i] < f[j]
    BY DEF m
  <2>2. \A i \in 1 .. m : f[i] \in Int
    BY <2>1
  <2>3. \A i, j \in 1 .. m : f[i] = f[j] => i = j
    <3> SUFFICES ASSUME NEW i \in 1 .. m, NEW j \in 1 .. m, f[i] = f[j], i # j
                 PROVE  FALSE
      OBVIOUS
    <3>1. i < j \/ j < i
      BY <1>1
    <3> QED
      BY <2>1, <2>2, <3>1
  <2> QED
    BY <2>1, <2>3 DEF Injection, IsInjective
<1>4. f \in Surjection(1 .. m, S)
  BY <1>2, <1>3, FS_Injection
<1> QED
  BY <1>4 DEF Surjection

LEMMA CleanupTxStep ==
    ASSUME Inv, CleanupTx
    PROVE  Inv'
<1> DEFINE m == Cardinality(Live)
<1>1. /\ Len(queue) \in Nat /\ DOMAIN queue = 1 .. Len(queue)
      /\ Live \subseteq 1 .. Len(queue)
  BY QueueFacts DEF Inv, Live
<1>2. /\ IsFiniteSet(Live) /\ m \in Nat /\ m <= Len(queue)
  <2>1. IsFiniteSet(1 .. Len(queue)) /\ Cardinality(1 .. Len(queue)) = Len(queue)
    BY <1>1, IntervalSize
  <2>2. Live \in SUBSET (1 .. Len(queue))
    BY <1>1
  <2>3. IsFiniteSet(Live) /\ Cardinality(Live) <= Len(queue)
    BY <2>1, <2>2, FS_Subset
  <2> QED
    BY <2>3, FS_CardinalityType
<1>3. PICK f \in [1 .. m -> Live] :
          /\ \A i, j \in 1 .. m : i < j => f[i] < f[j]
          /\ queue' = [i \in 1 .. m |-> queue[f[i]]]
  <2>1. PICK f \in [1 .. m -> Live] :
            /\ \A i, j \in DOMAIN f : i < j => f[i] < f[j]
            /\ queue' = [i \in DOMAIN f |-> queue[f[i]]]
    BY DEF CleanupTx
  <2>2. DOMAIN f = 1 .. m
    OBVIOUS
  <2> QED
    BY <2>1, <2>2
<1>4. \A x \in Live : \E i \in 1 .. m : f[i] = x
  <2>1. Live \in SUBSET Int
    BY <1>1
  <2> QED
    BY <1>2, <1>3, <2>1, EnumerationIsOnto
<1> HIDE DEF m
<1>5. f \in [1 .. m -> 1 .. Len(queue)]
  BY <1>1, <1>3
<1>6. ASSUME NEW i \in 1 .. m, queue[f[i]].k < transfers[queue[f[i]].n].frames
      PROVE  i + 1 \in 1 .. m /\ f[i + 1] = f[i] + 1
  <2>1. /\ f[i] \in Live /\ f[i] \in 1 .. Len(queue)
        /\ f[i] + 1 \in 1 .. Len(queue)
        /\ queue[f[i] + 1] = [queue[f[i]] EXCEPT !.k = @ + 1]
    BY <1>1, <1>3, <1>6 DEF Inv, UnbrokenTransfers
  <2>2. queue[f[i] + 1].n = queue[f[i]].n
    BY <1>1, <2>1, QueueFacts DEF Inv, Item
  <2>3. f[i] + 1 \in Live
    BY <1>1, <2>1, <2>2 DEF Live, Expired
  <2>4. PICK j \in 1 .. m : f[j] = f[i] + 1
    BY <1>4, <2>3
  <2>5. \A a \in 1 .. m : f[a] \in Int
    <3>1. \A a \in 1 .. m : f[a] \in 1 .. Len(queue)
      BY <1>5
    <3> QED
      BY <3>1, <1>1
  <2>6. i < j
    <3>1. ~(j < i) /\ j # i
      BY <1>3, <2>1, <2>4, <2>5
    <3> QED
      BY <3>1, <1>2
  <2>7. i + 1 \in 1 .. m /\ ~(i + 1 < j)
    <3>1. i + 1 \in 1 .. m /\ i < i + 1
      BY <1>2, <2>6
    <3>2. f[i] < f[i + 1]
      BY <1>3, <3>1
    <3> QED
      BY <1>3, <2>4, <2>5, <3>1, <3>2
  <2> QED
    BY <1>2, <2>4, <2>6, <2>7
<1>7. UNCHANGED <<tids, transfers, others>> /\ taken' \in Seq(Item) /\ now' \in Nat
  BY DEF CleanupTx, Inv, TypeOK
<1> QED
  BY <1>2, <1>3, <1>5, <1>6, <1>7, SubsequenceStep

-----------------------------------------------------------------------------
(* enqueueTxFrames: what the new queue and the new transfers look like. *)

(* The queue after the frames of transfer n went in at position p: the frames before    *)
(* it, the new ones, the ones behind.                                          *)
InsertedAt(p, id, n, c) ==
    /\ queue' \in Seq(Item)
    /\ Len(queue') = Len(queue) + c
    /\ DOMAIN queue' = 1 .. Len(queue) + c
    /\ \A i \in 1 .. p - 1 : i \in 1 .. Len(queue) /\ queue'[i] = queue[i]
    /\ \A i \in p .. p + c - 1 : queue'[i] = [id |-> id, n |-> n, k |-> i - p + 1]
    /\ \A i \in p + c .. Len(queue) + c :
          i - c \in p .. Len(queue) /\ queue'[i] = queue[i - c]

LEMMA InsertedItems ==
    ASSUME TypeOK,
           NEW id \in Ids, NEW c \in Nat \ {0},
           NEW p \in 1 .. Len(queue) + 1,
           queue' = Inserted(p, id, Len(transfers) + 1, c)
    PROVE  InsertedAt(p, id, Len(transfers) + 1, c)
<1> DEFINE m == Len(queue) + c
           n == Len(transfers) + 1
<1>1. /\ Len(queue) \in Nat
      /\ \A i \in 1 .. Len(queue) : queue[i] \in Item
  BY QueueFacts
<1>2. m \in Nat /\ p \in Nat /\ n \in Nat \ {0}
  BY <1>1, QueueFacts
<1>3. queue' = [i \in 1 .. m |->
                  IF i < p THEN queue[i]
                  ELSE IF i < p + c THEN [id |-> id, n |-> n, k |-> i - p + 1]
                  ELSE queue[i - c]]
  BY DEF Inserted
<1>4. \A i \in 1 .. p - 1 : i \in 1 .. Len(queue) /\ i \in 1 .. m /\ i < p
  BY <1>1
<1>5. \A i \in p .. p + c - 1 : i \in 1 .. m /\ ~(i < p) /\ i < p + c /\ i - p + 1 \in Nat \ {0}
  BY <1>1
<1>6. \A i \in p + c .. m :
          /\ i - c \in p .. Len(queue) /\ i - c \in 1 .. Len(queue)
          /\ i \in 1 .. m /\ ~(i < p) /\ ~(i < p + c)
  BY <1>1
<1>7. \A i \in 1 .. m : i \in 1 .. p - 1 \/ i \in p .. p + c - 1 \/ i \in p + c .. m
  BY <1>1
<1> HIDE DEF m, n
<1>8. \A i \in 1 .. p - 1 : queue'[i] = queue[i]
  BY <1>3, <1>4
<1>9. \A i \in p .. p + c - 1 : queue'[i] = [id |-> id, n |-> n, k |-> i - p + 1]
  BY <1>3, <1>5
<1>10. \A i \in p + c .. m : queue'[i] = queue[i - c]
  BY <1>3, <1>6
<1>11. \A i \in 1 .. m : queue'[i] \in Item
  <2> SUFFICES ASSUME NEW i \in 1 .. m
               PROVE  queue'[i] \in Item
    OBVIOUS
  <2>1. CASE i \in 1 .. p - 1
    BY <1>1, <1>4, <1>8, <2>1
  <2>2. CASE i \in p .. p + c - 1
    <3> DEFINE k == i - p + 1
    <3>1. k \in Nat \ {0} /\ queue'[i] = [id |-> id, n |-> n, k |-> k]
      BY <1>5, <1>9, <2>2
    <3> HIDE DEF k
    <3> QED
      BY <1>2, <3>1 DEF Item
  <2>3. CASE i \in p + c .. m
    BY <1>1, <1>6, <1>10, <2>3
  <2> QED
    BY <1>7, <2>1, <2>2, <2>3
<1>12. queue' \in [1 .. m -> Item]
  BY <1>3, <1>11
<1>13. queue' \in Seq(Item) /\ Len(queue') = m /\ DOMAIN queue' = 1 .. m
  BY <1>2, <1>12, FunctionIsSeq
<1> QED
  BY <1>4, <1>6, <1>8, <1>9, <1>10, <1>13 DEF m, n, InsertedAt

(* Where pushTxQueue stops, nothing before the frame loses to it and everything     *)
(* behind it does.                                                           *)
LEMMA PositionSeparates ==
    ASSUME Inv, NEW id \in Ids, NEW p \in 1 .. Len(queue) + 1, IsPosition(p, id)
    PROVE  /\ \A i \in 1 .. p - 1 :
                  /\ ~isPriorityHigher(queue[i].id, id)
                  /\ queue[i].id = id \/ isPriorityHigher(id, queue[i].id)
           /\ \A i \in p .. Len(queue) : isPriorityHigher(queue[i].id, id)
<1>1. /\ Len(queue) \in Nat /\ DOMAIN queue = 1 .. Len(queue)
      /\ \A i \in 1 .. Len(queue) : queue[i] \in Item
  BY QueueFacts DEF Inv
<1>2. id \in WireId /\ \A i \in 1 .. Len(queue) : queue[i].id \in WireId
  BY <1>1, IdsAreWireIds DEF Item
<1>3. ASSUME NEW i \in 1 .. p - 1
      PROVE  /\ ~isPriorityHigher(queue[i].id, id)
             /\ queue[i].id = id \/ isPriorityHigher(id, queue[i].id)
  <2>1. i \in 1 .. Len(queue)
    BY <1>1
  <2>2. ~isPriorityHigher(queue[i].id, id)
    BY DEF IsPosition
  <2> QED
    BY <1>2, <2>1, <2>2, PriorityTotal
<1>4. ASSUME NEW i \in p .. Len(queue)
      PROVE  isPriorityHigher(queue[i].id, id)
  <2>1. p \in 1 .. Len(queue) /\ i \in 1 .. Len(queue)
    BY <1>1
  <2>2. isPriorityHigher(queue[p].id, id)
    BY <2>1 DEF IsPosition
  <2>3. CASE i = p
    BY <2>2, <2>3
  <2>4. CASE p < i
    <3>1. isPriorityHigher(queue[i].id, queue[p].id) \/ queue[p].id = queue[i].id
      BY <1>1, <2>1, <2>4 DEF Inv, Sorted
    <3> QED
      BY <1>2, <2>1, <2>2, <3>1, PriorityTransitive
  <2> QED
    BY <2>1, <2>3, <2>4
<1> QED
  BY <1>3, <1>4

LEMMA AppendedTransfers ==
    ASSUME TypeOK,
           NEW id \in Ids, NEW len \in Lengths, NEW tid \in TransferId,
           NEW life \in Lifetimes,
           transfers' = Append(transfers, Accepted(id, len, tid, life))
    PROVE  /\ transfers' \in Seq([id : Ids, frames : Nat \ {0}, tid : TransferId,
                                  deadline : Nat])
           /\ Len(transfers') = Len(transfers) + 1
           /\ DOMAIN transfers' = 1 .. Len(transfers) + 1
           /\ \A m \in 1 .. Len(transfers) : transfers'[m] = transfers[m]
           /\ transfers'[Len(transfers) + 1].id = id
           /\ transfers'[Len(transfers) + 1].frames = FramesMade(len)
           /\ transfers'[Len(transfers) + 1].tid = tid
<1> DEFINE T == [id : Ids, frames : Nat \ {0}, tid : TransferId, deadline : Nat]
           a == Accepted(id, len, tid, life)
<1>1. len \in Nat /\ len + 2 < LengthMod /\ life \in Nat /\ now \in Nat /\ transfers \in Seq(T)
  BY TxQueueAssumption DEF TxQueueAssumption, TypeOK
<1>2. a \in T /\ a.id = id /\ a.frames = FramesMade(len) /\ a.tid = tid
  BY <1>1, FramesCheckIsExact DEF Accepted
<1>3. Len(transfers) \in Nat
  BY QueueFacts
<1> HIDE DEF a, T
<1>4. transfers' = Append(transfers, a)
  BY DEF a
<1>5. /\ transfers' \in Seq(T) /\ Len(transfers') = Len(transfers) + 1
      /\ \A m \in 1 .. Len(transfers) : transfers'[m] = transfers[m]
      /\ transfers'[Len(transfers) + 1] = a
  BY <1>1, <1>2, <1>4, AppendProperties
<1>6. DOMAIN transfers' = 1 .. Len(transfers) + 1
  BY <1>5, LenProperties
<1> QED
  BY <1>2, <1>5, <1>6 DEF T

(* enqueueTxFrames, of a broadcast, a request or a response. *)
LEMMA EnqueueStep ==
    ASSUME Inv,
           NEW id \in Ids, NEW len \in Lengths, NEW tid \in TransferId,
           NEW life \in Lifetimes,
           enqueueTxFrames(id, len, tid, life),
           tids' \in [Ids -> TransferId],
           UNCHANGED <<others, taken, now>>
    PROVE  Inv'
<1> DEFINE c == FramesMade(len)
           n == Len(transfers) + 1
<1>1. /\ Len(queue) \in Nat /\ DOMAIN queue = 1 .. Len(queue)
      /\ Len(transfers) \in Nat /\ DOMAIN transfers = 1 .. Len(transfers)
      /\ \A i \in 1 .. Len(queue) :
            /\ queue[i] \in Item
            /\ queue[i].n \in 1 .. Len(transfers)
            /\ queue[i].k <= transfers[queue[i].n].frames
            /\ queue[i].id = transfers[queue[i].n].id
      /\ others \in Nat /\ TypeOK
  BY QueueFacts DEF Inv, TypeOK
<1>2. c \in Nat \ {0} /\ c = FramesNeeded(len)
  BY FramesCheckIsExact, TxQueueAssumption DEF TxQueueAssumption
<1>3. n \in Nat \ {0}
  BY <1>1
<1>4. PICK p \in 1 .. Len(queue) + 1 : IsPosition(p, id) /\ queue' = Inserted(p, id, n, c)
  BY DEF enqueueTxFrames, pushTxQueue
<1>5. /\ transfers' \in Seq([id : Ids, frames : Nat \ {0}, tid : TransferId,
                            deadline : Nat])
      /\ DOMAIN transfers' = 1 .. Len(transfers) + 1
      /\ \A m \in 1 .. Len(transfers) : transfers'[m] = transfers[m]
      /\ transfers'[n].id = id
      /\ transfers'[n].frames = c
  <2>1. transfers' = Append(transfers, Accepted(id, len, tid, life))
    BY DEF enqueueTxFrames
  <2> QED
    BY <1>1, <2>1, AppendedTransfers
<1>6. /\ \A i \in 1 .. p - 1 :
            /\ ~isPriorityHigher(queue[i].id, id)
            /\ queue[i].id = id \/ isPriorityHigher(id, queue[i].id)
      /\ \A i \in p .. Len(queue) : isPriorityHigher(queue[i].id, id)
  BY <1>4, PositionSeparates
<1>7. Len(queue) + c + others <= Capacity
  <2>1. BlocksAvailable >= c
    BY <1>2 DEF enqueueTxFrames
  <2> QED
    BY <1>1, <1>2, <2>1, TxQueueAssumption DEF BlocksAvailable, TxQueueAssumption
<1> HIDE DEF c, n
<1>8. /\ queue' \in Seq(Item)
      /\ Len(queue') = Len(queue) + c
      /\ DOMAIN queue' = 1 .. Len(queue) + c
      /\ \A i \in 1 .. p - 1 : i \in 1 .. Len(queue) /\ queue'[i] = queue[i]
      /\ \A i \in p .. p + c - 1 : queue'[i] = [id |-> id, n |-> n, k |-> i - p + 1]
      /\ \A i \in p + c .. Len(queue) + c :
            i - c \in p .. Len(queue) /\ queue'[i] = queue[i - c]
  <2>1. queue' = Inserted(p, id, Len(transfers) + 1, c)
    BY <1>4 DEF n
  <2>2. InsertedAt(p, id, Len(transfers) + 1, c)
    <3>1. TypeOK
      BY <1>1
    <3> QED
      BY <1>2, <2>1, <3>1, InsertedItems
  <2> QED
    BY <2>2 DEF InsertedAt, n
<1>9. \A i \in 1 .. Len(queue) + c :
          i \in 1 .. p - 1 \/ i \in p .. p + c - 1 \/ i \in p + c .. Len(queue) + c
  BY <1>1, <1>2
<1>10. \A i \in p + c .. Len(queue) + c : i - c \in 1 .. Len(queue)
  BY <1>1, <1>2
(* The frames before the position, the new ones and the ones behind. *)
<1>11. \A i \in 1 .. p - 1 :
           /\ queue'[i].id = queue[i].id /\ queue'[i].n = queue[i].n
           /\ queue'[i].k = queue[i].k
           /\ queue[i].n \in 1 .. Len(transfers)
  BY <1>1, <1>8
<1>12. \A i \in p .. p + c - 1 :
           /\ queue'[i].id = id /\ queue'[i].n = n /\ queue'[i].k = i - p + 1
           /\ i - p + 1 <= c
  <2> SUFFICES ASSUME NEW i \in p .. p + c - 1
               PROVE  /\ queue'[i].id = id /\ queue'[i].n = n /\ queue'[i].k = i - p + 1
                      /\ i - p + 1 <= c
    OBVIOUS
  <2>1. queue'[i] = [id |-> id, n |-> n, k |-> i - p + 1]
    BY <1>8
  <2>2. i - p + 1 <= c
    BY <1>1, <1>2
  <2> QED
    BY <2>1, <2>2
<1>13. \A i \in p + c .. Len(queue) + c :
           /\ queue'[i].id = queue[i - c].id /\ queue'[i].n = queue[i - c].n
           /\ queue'[i].k = queue[i - c].k
           /\ queue[i - c].n \in 1 .. Len(transfers)
  BY <1>1, <1>8, <1>10
<1>14. n \in DOMAIN transfers' /\ \A m \in 1 .. Len(transfers) : m \in DOMAIN transfers' /\ m < n
  BY <1>1, <1>5 DEF n
<1>15. TypeOK'
  <2>1. ASSUME NEW i \in 1 .. Len(queue) + c
        PROVE  /\ queue'[i].n \in DOMAIN transfers'
               /\ queue'[i].k <= transfers'[queue'[i].n].frames
               /\ queue'[i].id = transfers'[queue'[i].n].id
    <3>1. CASE i \in 1 .. p - 1
      <4>1. i \in 1 .. Len(queue)
        BY <1>8, <3>1
      <4>2. /\ transfers'[queue[i].n] = transfers[queue[i].n]
            /\ queue[i].n \in DOMAIN transfers'
        BY <1>1, <1>5, <1>14, <4>1
      <4> QED
        BY <1>1, <1>11, <3>1, <4>1, <4>2
    <3>2. CASE i \in p .. p + c - 1
      BY <1>5, <1>12, <1>14, <3>2
    <3>3. CASE i \in p + c .. Len(queue) + c
      <4>1. i - c \in 1 .. Len(queue)
        BY <1>10, <3>3
      <4>2. /\ transfers'[queue[i - c].n] = transfers[queue[i - c].n]
            /\ queue[i - c].n \in DOMAIN transfers'
        BY <1>1, <1>5, <1>14, <4>1
      <4> QED
        BY <1>1, <1>13, <3>3, <4>1, <4>2
    <3> QED
      BY <1>9, <3>1, <3>2, <3>3
  <2>2. /\ others' \in Nat /\ taken' \in Seq(Item) /\ now' \in Nat
        /\ Len(queue') + others' <= Capacity
    BY <1>1, <1>7, <1>8 DEF TypeOK
  <2> QED
    BY <1>5, <1>8, <2>1, <2>2 DEF TypeOK
<1>16. Sorted'
  <2> SUFFICES ASSUME NEW i \in 1 .. Len(queue) + c, NEW j \in 1 .. Len(queue) + c, i < j
               PROVE  \/ isPriorityHigher(queue'[j].id, queue'[i].id)
                      \/ queue'[i].id = queue'[j].id /\ CameFirst(queue'[i], queue'[j])
    BY <1>8 DEF Sorted, CameFirst
  <2>1. \A a, b \in 1 .. Len(queue) : a < b =>
            \/ isPriorityHigher(queue[b].id, queue[a].id)
            \/ queue[a].id = queue[b].id /\ CameFirst(queue[a], queue[b])
    BY <1>1 DEF Inv, Sorted
  <2>2. CASE i \in 1 .. p - 1 /\ j \in 1 .. p - 1
    BY <1>8, <2>1, <2>2
  <2>3. CASE i \in 1 .. p - 1 /\ j \in p .. p + c - 1
    <3>1. queue[i].id = id \/ isPriorityHigher(id, queue[i].id)
      BY <1>6, <2>3
    <3>2. queue'[i].id = queue[i].id /\ queue'[i].n < n
      BY <1>11, <1>14, <2>3
    <3>3. queue'[j].id = id /\ queue'[j].n = n
      BY <1>12, <2>3
    <3> QED
      BY <3>1, <3>2, <3>3 DEF CameFirst
  <2>4. CASE i \in 1 .. p - 1 /\ j \in p + c .. Len(queue) + c
    <3>1. i \in 1 .. Len(queue) /\ j - c \in 1 .. Len(queue) /\ i < j - c
      <4>1. i \in 1 .. Len(queue)
        BY <1>8, <2>4
      <4>2. j - c \in 1 .. Len(queue)
        BY <1>10, <2>4
      <4>3. i < j - c
        BY <1>2, <1>8, <2>4
      <4> QED
        BY <4>1, <4>2, <4>3
    <3> QED
      BY <1>8, <2>1, <2>4, <3>1
  <2>5. CASE i \in p .. p + c - 1 /\ j \in p .. p + c - 1
    <3>1. i - p + 1 < j - p + 1
      BY <2>5, <1>1
    <3> QED
      BY <1>12, <2>5, <3>1 DEF CameFirst
  <2>6. CASE i \in p .. p + c - 1 /\ j \in p + c .. Len(queue) + c
    <3>1. j - c \in p .. Len(queue)
      BY <1>8, <2>6
    <3> QED
      BY <1>6, <1>12, <1>13, <2>6, <3>1
  <2>7. CASE i \in p + c .. Len(queue) + c /\ j \in p + c .. Len(queue) + c
    <3>1. i - c \in 1 .. Len(queue) /\ j - c \in 1 .. Len(queue) /\ i - c < j - c
      BY <1>1, <1>2, <1>10, <2>7
    <3>2. queue'[i] = queue[i - c] /\ queue'[j] = queue[j - c]
      BY <1>8, <2>7
    <3> QED
      BY <2>1, <3>1, <3>2
  <2>8. \/ i \in 1 .. p - 1 /\ (j \in 1 .. p - 1 \/ j \in p .. p + c - 1 \/ j \in p + c .. Len(queue) + c)
        \/ i \in p .. p + c - 1 /\ (j \in p .. p + c - 1 \/ j \in p + c .. Len(queue) + c)
        \/ i \in p + c .. Len(queue) + c /\ j \in p + c .. Len(queue) + c
    BY <1>1, <1>2
  <2> QED
    BY <2>2, <2>3, <2>4, <2>5, <2>6, <2>7, <2>8
<1>17. UnbrokenTransfers'
  <2> SUFFICES ASSUME NEW i \in 1 .. Len(queue) + c,
                      queue'[i].k < transfers'[queue'[i].n].frames
               PROVE  /\ i + 1 \in 1 .. Len(queue) + c
                      /\ queue'[i + 1] = [queue'[i] EXCEPT !.k = @ + 1]
    BY <1>8 DEF UnbrokenTransfers
  <2>1. \A a \in 1 .. Len(queue) :
            queue[a].k < transfers[queue[a].n].frames =>
                /\ a + 1 \in 1 .. Len(queue)
                /\ queue[a + 1] = [queue[a] EXCEPT !.k = @ + 1]
    BY <1>1 DEF Inv, UnbrokenTransfers
  <2>2. CASE i \in 1 .. p - 1
    <3>1. i \in 1 .. Len(queue) /\ queue[i].k < transfers[queue[i].n].frames
      <4>1. /\ queue'[i].n = queue[i].n /\ queue'[i].k = queue[i].k
            /\ queue[i].n \in 1 .. Len(transfers)
        BY <1>11, <2>2
      <4>2. i \in 1 .. Len(queue)
        BY <1>8, <2>2
      <4>3. transfers'[queue[i].n] = transfers[queue[i].n]
        BY <1>5, <4>1
      <4> QED
        BY <4>1, <4>2, <4>3
    <3>2. i + 1 \in 1 .. Len(queue) /\ queue[i + 1] = [queue[i] EXCEPT !.k = @ + 1]
      BY <2>1, <3>1
    <3>3. queue[i + 1].id = queue[i].id
      BY <1>1, <3>1, <3>2 DEF Item
    <3>4. i + 1 # p
      <4>1. ~isPriorityHigher(queue[i + 1].id, id)
        BY <1>6, <2>2, <3>3
      <4>2. p \in 1 .. Len(queue) => isPriorityHigher(queue[p].id, id)
        BY <1>1, <1>6
      <4> QED
        BY <3>2, <4>1, <4>2
    <3>5. i + 1 \in 1 .. p - 1
      BY <1>1, <2>2, <3>4
    <3>6. queue'[i] = queue[i] /\ queue'[i + 1] = queue[i + 1]
      BY <1>8, <2>2, <3>5
    <3>7. i + 1 \in 1 .. Len(queue) + c
      BY <1>1, <1>2, <3>2
    <3> QED
      BY <3>2, <3>6, <3>7
  <2>3. CASE i \in p .. p + c - 1
    <3>1. i - p + 1 < c
      BY <1>5, <1>12, <2>3
    <3>2. /\ i + 1 \in p .. p + c - 1 /\ i + 1 \in 1 .. Len(queue) + c
          /\ i + 1 - p + 1 = (i - p + 1) + 1
      BY <1>1, <1>2, <2>3, <3>1
    <3>3. queue'[i + 1] = [id |-> id, n |-> n, k |-> (i - p + 1) + 1]
      <4>1. PICK j \in p .. p + c - 1 : j = i + 1
        BY <3>2
      <4>2. queue'[j] = [id |-> id, n |-> n, k |-> j - p + 1]
        BY <1>8
      <4> QED
        BY <3>2, <4>1, <4>2
    <3>4. queue'[i] = [id |-> id, n |-> n, k |-> i - p + 1]
      BY <1>8, <2>3
    <3> QED
      BY <3>2, <3>3, <3>4
  <2>4. CASE i \in p + c .. Len(queue) + c
    <3>1. i - c \in 1 .. Len(queue) /\ queue[i - c].k < transfers[queue[i - c].n].frames
      BY <1>5, <1>10, <1>13, <2>4
    <3>2. /\ i - c + 1 \in 1 .. Len(queue)
          /\ queue[i - c + 1] = [queue[i - c] EXCEPT !.k = @ + 1]
      BY <2>1, <3>1
    <3>3. i + 1 \in p + c .. Len(queue) + c
      <4>1. i \in Int /\ i - c + 1 <= Len(queue) /\ p + c <= i
        BY <1>1, <1>2, <2>4, <3>2
      <4> QED
        BY <1>1, <1>2, <4>1
    <3>4. queue'[i] = queue[i - c] /\ queue'[i + 1] = queue[i - c + 1]
      <4>1. PICK j \in p + c .. Len(queue) + c : j = i + 1
        BY <3>3
      <4>2. queue'[i] = queue[i - c] /\ queue'[j] = queue[j - c]
        BY <1>8, <2>4
      <4>3. j - c = i - c + 1
        BY <1>1, <1>2, <4>1
      <4> QED
        BY <4>1, <4>2, <4>3
    <3>5. i + 1 \in 1 .. Len(queue) + c
      BY <1>1, <1>2, <2>4, <3>2
    <3> QED
      BY <3>2, <3>4, <3>5
  <2> QED
    BY <1>9, <2>2, <2>3, <2>4
<1> QED
  BY <1>15, <1>16, <1>17 DEF Inv

-----------------------------------------------------------------------------
(* Induction *)

LEMMA InitInv ==
    ASSUME Init
    PROVE  Inv
<1>1. queue = <<>> /\ queue \in Seq(Item) /\ Len(queue) = 0 /\ DOMAIN queue = {}
  BY EmptySeq DEF Init
<1>2. tids \in [Ids -> TransferId]
  BY TidModAssumption DEF Init, TransferId
<1>3. TypeOK
  <2>1. transfers \in Seq([id : Ids, frames : Nat \ {0}, tid : TransferId, deadline : Nat])
    BY EmptySeq DEF Init
  <2>2. taken \in Seq(Item)
    BY EmptySeq DEF Init
  <2>3. others \in Nat /\ now \in Nat /\ Len(queue) + others <= Capacity
    BY <1>1, TxQueueAssumption DEF Init, TxQueueAssumption
  <2> QED
    BY <1>1, <1>2, <2>1, <2>2, <2>3 DEF TypeOK
<1> QED
  BY <1>1, <1>3 DEF Inv, Sorted, UnbrokenTransfers

(* A step that leaves the queue and the transfers alone. *)
LEMMA QueueUnchanged ==
    ASSUME Inv,
           UNCHANGED <<queue, tids, transfers>>,
           others' \in Nat, Len(queue) + others' <= Capacity,
           taken' \in Seq(Item), now' \in Nat
    PROVE  Inv'
<1>1. queue' = queue /\ tids' = tids /\ transfers' = transfers
  OBVIOUS
<1>2. TypeOK'
  BY <1>1 DEF Inv, TypeOK
<1>3. Sorted'
  BY <1>1 DEF Inv, Sorted, CameFirst
<1>4. UnbrokenTransfers'
  BY <1>1 DEF Inv, UnbrokenTransfers
<1> QED
  BY <1>2, <1>3, <1>4 DEF Inv

LEMMA NextInv ==
    ASSUME Inv, [Next]_vars
    PROVE  Inv'
<1>1. /\ tids \in [Ids -> TransferId] /\ taken \in Seq(Item) /\ now \in Nat
      /\ queue \in Seq(Item) /\ others \in Nat /\ Len(queue) + others <= Capacity
  BY DEF Inv, TypeOK
<1>2. ASSUME NEW id \in Ids, NEW len \in Lengths, NEW life \in Lifetimes, Send(id, len, life)
      PROVE  Inv'
  <2>1. tids[id] \in TransferId
    BY <1>1
  <2>2. tids' \in [Ids -> TransferId]
    BY <1>1, <1>2, <2>1, NextTransferIdType DEF Send
  <2> QED
    BY <1>2, <2>1, <2>2, EnqueueStep DEF Send
<1>3. ASSUME NEW id \in Ids, NEW len \in Lengths, NEW life \in Lifetimes,
             NEW tid \in ReplyTids, Respond(id, len, tid, life)
      PROVE  Inv'
  <2>1. tid \in TransferId /\ tids' \in [Ids -> TransferId]
    BY <1>1, <1>3, TxQueueAssumption DEF Respond, TxQueueAssumption
  <2> QED
    BY <1>3, <2>1, EnqueueStep DEF Respond
<1>4. ASSUME NEW id \in Ids, NEW len \in Lengths, Refuse(id, len)
      PROVE  Inv'
  BY <1>1, <1>4, QueueUnchanged DEF Refuse, vars
<1>5. CASE Transmit
  <2>1. Head(queue) \in Item
    BY <1>1, <1>5, HeadTailProperties DEF Transmit
  <2>2. taken' \in Seq(Item)
    BY <1>5, <2>1 DEF Transmit
  <2> QED
    BY <1>5, <2>2, PopStep DEF Transmit
<1>6. CASE TransmitFailed
  BY <1>1, <1>6, PopStep DEF TransmitFailed
<1>7. CASE CleanupTx
  BY <1>7, CleanupTxStep
<1>8. CASE OthersChange
  <2>1. others' \in Nat /\ Len(queue) + others' <= Capacity
    BY <1>8, QueueFacts, TxQueueAssumption DEF OthersChange, Inv, TxQueueAssumption
  <2> QED
    BY <1>1, <1>8, <2>1, QueueUnchanged DEF OthersChange
<1>9. CASE Tick
  <2>1. now' \in Nat
    BY <1>1, <1>9 DEF Tick
  <2> QED
    BY <1>1, <1>9, <2>1, QueueUnchanged DEF Tick
<1>10. CASE UNCHANGED vars
  BY <1>1, <1>10, QueueUnchanged DEF vars
<1> QED
  BY <1>2, <1>3, <1>4, <1>5, <1>6, <1>7, <1>8, <1>9, <1>10 DEF Next

LEMMA SpecInv == Spec => []Inv
<1>1. Init => Inv
  BY InitInv
<1>2. Inv /\ [Next]_vars => Inv'
  BY NextInv
<1> QED
  BY <1>1, <1>2, PTL DEF Spec

(* The queue and the other users never take more blocks than the pool has, and      *)
(* what waits in the queue are frames of accepted transfers.                     *)
THEOREM QueueFitsThePool == Spec => []TypeOK
<1>1. Inv => TypeOK
  BY DEF Inv
<1> QED
  BY <1>1, SpecInv, PTL

(* The TX queue is sorted by priority, first-in first-out for each identifier. *)
THEOREM QueueIsSorted == Spec => []Sorted
<1>1. Inv => Sorted
  BY DEF Inv
<1> QED
  BY <1>1, SpecInv, PTL

(* A multi-frame transfer is queued whole and stays together. *)
THEOREM TransfersStayTogether == Spec => []UnbrokenTransfers
<1>1. Inv => UnbrokenTransfers
  BY DEF Inv
<1> QED
  BY <1>1, SpecInv, PTL

-----------------------------------------------------------------------------
(* Refinement *)

Waiting == {queue[i] : i \in DOMAIN queue}

(* Both modules compare priorities with the same operator. *)
LEMMA SamePriority ==
    ASSUME NEW a, NEW b
    PROVE  isPriorityHigher(a, b) = Fifo!isPriorityHigher(a, b)
BY DEF isPriorityHigher, SameNumber, LesserNumber,
       Fifo!isPriorityHigher, Fifo!SameNumber, Fifo!LesserNumber

(* What the queue does when its head is popped, seen as a set. *)
LEMMA HeadIsFirst ==
    ASSUME Inv, queue # <<>>, canardPopTxQueue
    PROVE  /\ Head(queue) \in Waiting
           /\ \A y \in Waiting \ {Head(queue)} : Fifo!Before(Head(queue), y)
           /\ Waiting' = Waiting \ {Head(queue)}
<1>1. /\ queue \in Seq(Item) /\ Len(queue) \in Nat \ {0}
      /\ DOMAIN queue = 1 .. Len(queue)
      /\ \A i \in 1 .. Len(queue) : queue[i] \in Item
  BY EmptySeq, LenProperties, QueueFacts DEF Inv, TypeOK
<1>2. /\ Head(queue) = queue[1]
      /\ queue' \in Seq(Item) /\ Len(queue') = Len(queue) - 1
      /\ \A i \in 1 .. Len(queue) - 1 : queue'[i] = queue[i + 1]
  BY <1>1, HeadTailProperties DEF canardPopTxQueue
<1>3. DOMAIN queue' = 1 .. Len(queue) - 1
  BY <1>2, LenProperties
<1>4. 1 \in 1 .. Len(queue)
  BY <1>1
<1>5. \A j \in 2 .. Len(queue) : Fifo!Before(queue[1], queue[j]) /\ queue[j] # queue[1]
  <2> SUFFICES ASSUME NEW j \in 2 .. Len(queue)
               PROVE  Fifo!Before(queue[1], queue[j]) /\ queue[j] # queue[1]
    OBVIOUS
  <2>1. j \in 1 .. Len(queue) /\ 1 < j
    BY <1>1
  <2>2. \/ isPriorityHigher(queue[j].id, queue[1].id)
        \/ queue[1].id = queue[j].id /\ CameFirst(queue[1], queue[j])
    BY <1>1, <1>4, <2>1 DEF Inv, Sorted
  <2>3. Fifo!Before(queue[1], queue[j])
    BY <2>2, SamePriority DEF Fifo!Before, Fifo!CameFirst, CameFirst
  <2>4. /\ queue[1].id \in FrameId
        /\ queue[1].n \in Nat /\ queue[1].k \in Nat
    BY <1>1, <1>4, IdsAreWireIds DEF Item, WireId
  <2>5. queue[j] # queue[1]
    <3> SUFFICES ASSUME queue[j] = queue[1]
                 PROVE  FALSE
      OBVIOUS
    <3>1. ~isPriorityHigher(queue[1].id, queue[1].id)
      BY <2>4, PriorityIrreflexive
    <3>2. ~CameFirst(queue[1], queue[1])
      BY <2>4 DEF CameFirst
    <3> QED
      BY <2>2, <3>1, <3>2
  <2> QED
    BY <2>3, <2>5
<1>6. Waiting = {queue[1]} \cup {queue[j] : j \in 2 .. Len(queue)}
  BY <1>1 DEF Waiting
<1>7. Waiting' = {queue[j] : j \in 2 .. Len(queue)}
  <2>1. Waiting' = {queue'[i] : i \in 1 .. Len(queue) - 1}
    BY <1>3 DEF Waiting
  <2>2. \A i \in 1 .. Len(queue) - 1 : i + 1 \in 2 .. Len(queue) /\ queue'[i] = queue[i + 1]
    BY <1>1, <1>2
  <2>3. \A j \in 2 .. Len(queue) : j - 1 \in 1 .. Len(queue) - 1 /\ queue'[j - 1] = queue[j]
    <3> SUFFICES ASSUME NEW j \in 2 .. Len(queue)
                 PROVE  j - 1 \in 1 .. Len(queue) - 1 /\ queue'[j - 1] = queue[j]
      OBVIOUS
    <3>1. PICK i \in 1 .. Len(queue) - 1 : i = j - 1 /\ i + 1 = j
      BY <1>1
    <3> QED
      BY <2>2, <3>1
  <2> QED
    BY <2>1, <2>2, <2>3
<1> QED
  BY <1>2, <1>5, <1>6, <1>7

(* What the queue gains when a transfer is accepted, seen as a set: its frames only. *)
LEMMA EnqueueAdds ==
    ASSUME Inv,
           NEW id \in Ids, NEW len \in Lengths, NEW tid \in TransferId,
           NEW life \in Lifetimes,
           enqueueTxFrames(id, len, tid, life)
    PROVE  /\ Waiting \subseteq Waiting'
           /\ \A y \in Waiting' \ Waiting : y.n = Len(transfers) + 1
           /\ \A x \in Waiting : x.n \in 1 .. Len(transfers)
<1>1. /\ Len(queue) \in Nat /\ DOMAIN queue = 1 .. Len(queue) /\ TypeOK
      /\ Len(transfers) \in Nat
      /\ \A i \in 1 .. Len(queue) : queue[i].n \in 1 .. Len(transfers)
  BY QueueFacts DEF Inv
<1>2. PICK c \in Nat \ {0} : c = FramesMade(len)
  BY FramesCheckIsExact, TxQueueAssumption DEF TxQueueAssumption
<1>3. PICK p \in 1 .. Len(queue) + 1 : queue' = Inserted(p, id, Len(transfers) + 1, c)
  BY <1>2 DEF enqueueTxFrames, pushTxQueue
<1>4. /\ DOMAIN queue' = 1 .. Len(queue) + c
      /\ \A i \in 1 .. p - 1 : i \in 1 .. Len(queue) /\ queue'[i] = queue[i]
      /\ \A i \in p .. p + c - 1 :
            queue'[i] = [id |-> id, n |-> Len(transfers) + 1, k |-> i - p + 1]
      /\ \A i \in p + c .. Len(queue) + c :
            i - c \in p .. Len(queue) /\ queue'[i] = queue[i - c]
  <2>1. TypeOK
    BY <1>1
  <2>2. InsertedAt(p, id, Len(transfers) + 1, c)
    BY <1>3, <2>1, InsertedItems
  <2> QED
    BY <2>2 DEF InsertedAt
<1>5. Waiting \subseteq Waiting'
  <2> SUFFICES ASSUME NEW i \in 1 .. Len(queue)
               PROVE  \E j \in 1 .. Len(queue) + c : queue'[j] = queue[i]
    <3>1. Waiting = {queue[i] : i \in 1 .. Len(queue)}
      BY <1>1 DEF Waiting
    <3>2. Waiting' = {queue'[j] : j \in 1 .. Len(queue) + c}
      BY <1>4 DEF Waiting
    <3> QED
      BY <3>1, <3>2
  <2>1. CASE i < p
    <3>1. i \in 1 .. p - 1 /\ i \in 1 .. Len(queue) + c
      BY <1>1, <1>2, <2>1
    <3> QED
      BY <1>4, <3>1
  <2>2. CASE ~(i < p)
    <3>1. PICK j \in p + c .. Len(queue) + c : j - c = i /\ j \in 1 .. Len(queue) + c
      <4>1. i + c \in p + c .. Len(queue) + c /\ i + c - c = i /\ i + c \in 1 .. Len(queue) + c
        BY <1>1, <1>2, <2>2
      <4> QED
        BY <4>1
    <3> QED
      BY <1>4, <3>1
  <2> QED
    BY <2>1, <2>2
<1>6. \A y \in Waiting' \ Waiting : y.n = Len(transfers) + 1
  <2> SUFFICES ASSUME NEW i \in 1 .. Len(queue) + c, queue'[i] \notin Waiting
               PROVE  queue'[i].n = Len(transfers) + 1
    BY <1>4 DEF Waiting
  <2>1. CASE i \in 1 .. p - 1
    BY <1>1, <1>4, <2>1 DEF Waiting
  <2>2. CASE i \in p .. p + c - 1
    <3>1. queue'[i] = [id |-> id, n |-> Len(transfers) + 1, k |-> i - p + 1]
      BY <1>4, <2>2
    <3> QED
      BY <3>1
  <2>3. CASE i \in p + c .. Len(queue) + c
    <3>1. i - c \in 1 .. Len(queue) /\ queue'[i] = queue[i - c]
      BY <1>1, <1>2, <1>4, <2>3
    <3> QED
      BY <1>1, <3>1 DEF Waiting
  <2>4. i \in 1 .. p - 1 \/ i \in p .. p + c - 1 \/ i \in p + c .. Len(queue) + c
    BY <1>1, <1>2
  <2> QED
    BY <2>1, <2>2, <2>3, <2>4
<1>7. \A x \in Waiting : x.n \in 1 .. Len(transfers)
  BY <1>1 DEF Waiting
<1> QED
  BY <1>5, <1>6, <1>7

LEMMA EnqueueArrives ==
    ASSUME Inv,
           NEW id \in Ids, NEW len \in Lengths, NEW tid \in TransferId,
           NEW life \in Lifetimes,
           enqueueTxFrames(id, len, tid, life), UNCHANGED taken
    PROVE  Fifo!Next
<1>1. /\ Waiting \subseteq Waiting'
      /\ \A y \in Waiting' \ Waiting : y.n = Len(transfers) + 1
      /\ \A x \in Waiting : x.n \in 1 .. Len(transfers)
  BY EnqueueAdds
<1>2. Len(transfers) \in Nat
  BY QueueFacts DEF Inv
<1>3. \A x \in Waiting, y \in Waiting' \ Waiting : Fifo!CameFirst(x, y)
  <2> SUFFICES ASSUME NEW x \in Waiting, NEW y \in Waiting' \ Waiting
               PROVE  x.n < y.n
    BY DEF Fifo!CameFirst
  <2>1. x.n \in 1 .. Len(transfers) /\ y.n = Len(transfers) + 1
    BY <1>1
  <2> QED
    BY <1>2, <2>1
<1>4. Fifo!Arrive(Waiting' \ Waiting)
  BY <1>1, <1>3 DEF Fifo!Arrive, Waiting
<1> QED
  BY <1>4 DEF Fifo!Next, Fifo!Arrive, Waiting

LEMMA CleanupExpires ==
    ASSUME Inv, CleanupTx
    PROVE  Fifo!Expire
<1>1. PICK f \in [1 .. Cardinality(Live) -> Live] :
          queue' = [i \in DOMAIN f |-> queue[f[i]]]
  BY DEF CleanupTx
<1>2. Live \subseteq DOMAIN queue
  BY DEF Live
<1>3. DOMAIN queue' = DOMAIN f /\ \A i \in DOMAIN f : f[i] \in DOMAIN queue /\ queue'[i] = queue[f[i]]
  BY <1>1, <1>2
<1>4. Waiting' \subseteq Waiting
  BY <1>3 DEF Waiting
<1> QED
  BY <1>4 DEF CleanupTx, Fifo!Expire, Waiting

LEMMA StepRefines ==
    ASSUME Inv, [Next]_vars
    PROVE  [Fifo!Next]_(Fifo!vars)
<1>1. ASSUME NEW id \in Ids, NEW len \in Lengths, NEW life \in Lifetimes, Send(id, len, life)
      PROVE  Fifo!Next
  <2>1. tids[id] \in TransferId
    BY DEF Inv, TypeOK
  <2> QED
    BY <1>1, <2>1, EnqueueArrives DEF Send
<1>2. ASSUME NEW id \in Ids, NEW len \in Lengths, NEW life \in Lifetimes,
             NEW tid \in ReplyTids, Respond(id, len, tid, life)
      PROVE  Fifo!Next
  <2>1. tid \in TransferId
    BY TxQueueAssumption DEF TxQueueAssumption
  <2> QED
    BY <1>2, <2>1, EnqueueArrives DEF Respond
<1>3. ASSUME Transmit
      PROVE  Fifo!Next
  <2>1. PICK x \in Waiting :
            /\ x = Head(queue)
            /\ \A y \in Waiting \ {x} : Fifo!Before(x, y)
            /\ Waiting' = Waiting \ {x}
    BY <1>3, HeadIsFirst DEF Transmit
  <2>2. Fifo!Take(x)
    BY <1>3, <2>1 DEF Transmit, Fifo!Take, Fifo!First, Waiting
  <2> QED
    BY <2>1, <2>2 DEF Fifo!Next, Waiting
<1>4. ASSUME TransmitFailed
      PROVE  Fifo!Next
  <2>1. PICK x \in Waiting :
            /\ x = Head(queue)
            /\ \A y \in Waiting \ {x} : Fifo!Before(x, y)
            /\ Waiting' = Waiting \ {x}
    BY <1>4, HeadIsFirst DEF TransmitFailed
  <2>2. Fifo!GiveUp(x)
    BY <1>4, <2>1 DEF TransmitFailed, Fifo!GiveUp, Fifo!First, Waiting
  <2> QED
    BY <2>1, <2>2 DEF Fifo!Next, Waiting
<1>5. CASE CleanupTx
  BY <1>5, CleanupExpires DEF Fifo!Next
<1>6. ASSUME UNCHANGED <<queue, taken>>
      PROVE  UNCHANGED Fifo!vars
  BY <1>6 DEF Fifo!vars
<1> QED
  BY <1>1, <1>2, <1>3, <1>4, <1>5, <1>6
  DEF Next, vars, Refuse, OthersChange, Tick

(* The list implements a priority queue that is first-in first-out for each          *)
(* identifier: the driver always takes the frame that would win arbitration.       *)
THEOREM QueueImplementsFifo == Spec => ImplementsFifo
<1>1. Init => Fifo!Init
  BY DEF Init, Fifo!Init
<1>2. Inv /\ [Next]_vars => [Fifo!Next]_(Fifo!vars)
  BY StepRefines
<1> QED
  BY <1>1, <1>2, SpecInv, PTL DEF Spec, ImplementsFifo, Fifo!Spec

-----------------------------------------------------------------------------
(* Transfer-IDs *)

(* The strengthening of ConsecutiveTids: the counter is one ahead of the transfer     *)
(* that was accepted last with it.                                             *)
CounterFollows ==
    \A id \in Ids \ ResponseIds :
        \A n \in {x \in DOMAIN transfers : transfers[x].id = id} :
            (\A x \in n + 1 .. Len(transfers) : transfers[x].id # id)
            => tids[id] = NextTransferId(transfers[n].tid)

CounterInv == Inv /\ CounterFollows /\ ConsecutiveTids

LEMMA AcceptedStep ==
    ASSUME CounterInv,
           NEW id \in Ids, NEW len \in Lengths, NEW STATE tid, NEW life \in Lifetimes,
           tid \in TransferId,
           enqueueTxFrames(id, len, tid, life),
           \A x \in Ids \ ResponseIds :
               tids'[x] = IF x = id THEN NextTransferId(tids[x]) ELSE tids[x],
           id \notin ResponseIds => tid = tids[id]
    PROVE  CounterFollows' /\ ConsecutiveTids'
<1> DEFINE N == Len(transfers)
<1>1. N \in Nat /\ DOMAIN transfers = 1 .. N /\ TypeOK
  BY QueueFacts DEF CounterInv, Inv
<1>2. /\ DOMAIN transfers' = 1 .. N + 1 /\ Len(transfers') = N + 1
      /\ \A m \in 1 .. N : transfers'[m] = transfers[m]
      /\ transfers'[N + 1].id = id
      /\ transfers'[N + 1].tid = tid
  <2>1. PICK t \in TransferId : t = tid
    OBVIOUS
  <2>2. transfers' = Append(transfers, Accepted(id, len, t, life))
    BY <2>1 DEF enqueueTxFrames
  <2> QED
    BY <1>1, <2>1, <2>2, AppendedTransfers
<1> HIDE DEF N
<1>3. \A y \in Ids \ ResponseIds : \A n \in 1 .. N :
          /\ transfers[n].id = y
          /\ \A x \in n + 1 .. N : transfers[x].id # y
          => tids[y] = NextTransferId(transfers[n].tid)
  BY <1>1 DEF CounterInv, CounterFollows, N
<1>4. \A m \in 1 .. N + 1 : m \in 1 .. N \/ m = N + 1
  BY <1>1
<1>5. CounterFollows'
  <2> SUFFICES ASSUME NEW y \in Ids \ ResponseIds, NEW n \in 1 .. N + 1,
                      transfers'[n].id = y,
                      \A x \in n + 1 .. N + 1 : transfers'[x].id # y
               PROVE  tids'[y] = NextTransferId(transfers'[n].tid)
    BY <1>2 DEF CounterFollows
  <2>1. CASE n = N + 1
    BY <1>2, <2>1
  <2>2. CASE n \in 1 .. N
    <3>1. N + 1 \in n + 1 .. N + 1
      BY <1>1, <2>2
    <3>2. y # id
      BY <1>2, <3>1
    <3>3. \A x \in n + 1 .. N : x \in 1 .. N /\ x \in n + 1 .. N + 1
      BY <1>1, <2>2
    <3>4. \A x \in n + 1 .. N : transfers[x].id # y
      BY <1>2, <3>3
    <3> QED
      BY <1>2, <1>3, <2>2, <3>2, <3>4
  <2> QED
    BY <1>4, <2>1, <2>2
<1>6. ConsecutiveTids'
  <2> SUFFICES ASSUME NEW y \in Ids \ ResponseIds,
                      NEW n \in 1 .. N + 1, NEW m \in 1 .. N + 1,
                      transfers'[n].id = y, transfers'[m].id = y, n < m,
                      \A x \in n + 1 .. m - 1 : transfers'[x].id # y
               PROVE  transfers'[m].tid = NextTransferId(transfers'[n].tid)
    BY <1>2 DEF ConsecutiveTids
  <2>1. n \in 1 .. N /\ \A x \in n + 1 .. m - 1 : x \in 1 .. N
    BY <1>1
  <2>2. \A x \in n + 1 .. m - 1 : transfers[x].id # y
    BY <1>2, <2>1
  <2>3. CASE m = N + 1
    <3>1. y = id /\ tid = tids[y]
      BY <1>2, <2>3
    <3>2. m - 1 = N
      BY <1>1, <2>3
    <3>3. tids[y] = NextTransferId(transfers[n].tid)
      BY <1>2, <1>3, <2>1, <2>2, <3>2
    <3> QED
      BY <1>2, <2>1, <2>3, <3>1, <3>3
  <2>4. CASE m \in 1 .. N
    <3>1. transfers[m].tid = NextTransferId(transfers[n].tid)
      BY <1>1, <1>2, <2>1, <2>2, <2>4 DEF CounterInv, ConsecutiveTids
    <3> QED
      BY <1>2, <2>1, <2>4, <3>1
  <2> QED
    BY <1>4, <2>3, <2>4
<1> QED
  BY <1>5, <1>6

LEMMA CounterStep ==
    ASSUME CounterInv, [Next]_vars
    PROVE  CounterInv'
<1>1. Inv'
  BY NextInv DEF CounterInv
<1>2. tids \in [Ids -> TransferId]
  BY DEF CounterInv, Inv, TypeOK
<1>3. ASSUME NEW id \in Ids, NEW len \in Lengths, NEW life \in Lifetimes, Send(id, len, life)
      PROVE  CounterFollows' /\ ConsecutiveTids'
  BY <1>2, <1>3, AcceptedStep DEF Send
<1>4. ASSUME NEW id \in Ids, NEW len \in Lengths, NEW life \in Lifetimes,
             NEW tid \in ReplyTids, Respond(id, len, tid, life)
      PROVE  CounterFollows' /\ ConsecutiveTids'
  <2>1. tid \in TransferId
    BY TxQueueAssumption DEF TxQueueAssumption
  <2> QED
    BY <1>4, <2>1, AcceptedStep DEF Respond
<1>5. ASSUME UNCHANGED <<tids, transfers>>
      PROVE  CounterFollows' /\ ConsecutiveTids'
  BY <1>5 DEF CounterInv, CounterFollows, ConsecutiveTids
<1>6. CounterFollows' /\ ConsecutiveTids'
  BY <1>3, <1>4, <1>5
  DEF Next, vars, Refuse, Transmit, TransmitFailed, CleanupTx, OthersChange, Tick
<1> QED
  BY <1>1, <1>6 DEF CounterInv

(* The transfers accepted under one counter carry consecutive transfer-IDs. *)
THEOREM CountersAreConsecutive == Spec => []ConsecutiveTids
<1>1. Init => CounterInv
  <2>1. ASSUME Init PROVE DOMAIN transfers = {}
    BY <2>1 DEF Init
  <2> QED
    BY <2>1, InitInv DEF CounterInv, CounterFollows, ConsecutiveTids
<1>2. CounterInv /\ [Next]_vars => CounterInv'
  BY CounterStep
<1>3. CounterInv => ConsecutiveTids
  BY DEF CounterInv
<1> QED
  BY <1>1, <1>2, <1>3, PTL DEF Spec

-----------------------------------------------------------------------------
(* The path implements the queue *)

LEMMA ScenarioFacts ==
    ASSUME scenario \in Scenarios
    PROVE  /\ scenario.ids \subseteq Ids /\ scenario.lengths \subseteq Lengths
           /\ scenario.lives \subseteq Lifetimes
           /\ scenario.arriving \subseteq Ids
BY TxPathAssumption DEF TxPathAssumption, Scenario

LEMMA ScenarioStays == PathNext => UNCHANGED scenario
BY DEF PathNext, LoopStep, StartDriver, StartFails, MailboxTakes, MailboxesBusy, SocketTakes,
       SocketFails, SocketBusy, NothingToSend, Release, NextTurn, Deliver, NothingReceived,
       Reconfigure, Work, Sent, Aborted, Disturbed, Arrives, Clock, loopVars, pathVars, busSide

LEMMA LibraryStep ==
    ASSUME scenario \in Scenarios, LibraryCall
    PROVE  Next
BY ScenarioFacts DEF LibraryCall, Next

(* Every step of the path is a step of the queue, or leaves it alone. *)
LEMMA PathStep ==
    ASSUME scenario \in Scenarios, [PathNext]_pathVars
    PROVE  [Next]_vars
<1>1. CASE MailboxTakes \/ SocketTakes
  BY <1>1 DEF MailboxTakes, SocketTakes, Next
<1>2. CASE SocketFails
  BY <1>2 DEF SocketFails, Next
<1>3. CASE Work
  BY <1>3, LibraryStep DEF Work
<1>4. CASE Clock
  BY <1>4 DEF Clock, Next
<1>5. CASE \/ StartDriver \/ StartFails \/ MailboxesBusy \/ SocketBusy \/ NothingToSend
           \/ Release \/ NextTurn \/ Deliver \/ NothingReceived \/ Reconfigure
           \/ Sent \/ Aborted \/ Disturbed \/ Arrives
  BY <1>5 DEF StartDriver, StartFails, MailboxesBusy, SocketBusy, NothingToSend, Release,
              NextTurn, Deliver, NothingReceived, Reconfigure, Sent, Aborted, Disturbed, Arrives
<1>6. CASE UNCHANGED pathVars
  BY <1>6 DEF pathVars
<1> QED
  BY <1>1, <1>2, <1>3, <1>4, <1>5, <1>6 DEF PathNext, LoopStep

Chosen == scenario \in Scenarios

LEMMA ScenarioInv == PathSpec => []Chosen
<1>1. PathInit => Chosen
  BY DEF PathInit, Chosen
<1>2. Chosen /\ [PathNext]_pathVars => Chosen'
  BY ScenarioStays DEF pathVars, loopVars, Chosen
<1> QED
  BY <1>1, <1>2, PTL DEF PathSpec

(* processTxRxOnce and the drivers under it use the TX queue only as the queue allows: *)
(* the path from the application to the bus implements CanardTxQueue.             *)
THEOREM PathImplementsQueue == PathSpec => Spec
<1>1. PathInit => Init
  BY DEF PathInit
<1>2. Chosen /\ [PathNext]_pathVars => [Next]_vars
  BY PathStep DEF Chosen
<1> QED
  BY <1>1, <1>2, ScenarioInv, PTL DEF PathSpec, Spec

(* The TX queue stays sorted by priority, first-in first-out for each identifier,     *)
(* whatever the loop and the drivers do.                                       *)
THEOREM PathKeepsOrder == PathSpec => []Sorted
BY PathImplementsQueue, QueueIsSorted, PTL

(* What waits of a multi-frame transfer is always its last frames, side by side. *)
THEOREM PathKeepsTransfers == PathSpec => []UnbrokenTransfers
BY PathImplementsQueue, TransfersStayTogether, PTL

(* The transfers accepted under one counter carry consecutive transfer-IDs. *)
THEOREM PathCounts == PathSpec => []ConsecutiveTids
BY PathImplementsQueue, CountersAreConsecutive, PTL

(* What the loop takes from the queue is what the abstract priority queue gives. *)
THEOREM PathImplementsFifo == PathSpec => ImplementsFifo
BY PathImplementsQueue, QueueImplementsFifo, PTL

-----------------------------------------------------------------------------
(* The mailboxes *)

(* Frame x came before every frame of its identifier that waits in the queue. *)
Precedes(x) ==
    /\ x.n <= Len(transfers)
    /\ \A y \in Waiting : y.id = x.id => CameFirst(x, y)

LEMMA AcceptedPrecedes ==
    ASSUME Inv, NEW x \in Item, Precedes(x),
           NEW id \in Ids, NEW len \in Lengths, NEW STATE tid, tid \in TransferId,
           NEW life \in Lifetimes,
           enqueueTxFrames(id, len, tid, life)
    PROVE  Precedes(x)'
<1>1. PICK t \in TransferId : t = tid
  OBVIOUS
<1>2. enqueueTxFrames(id, len, t, life)
  BY <1>1
<1>3. \A y \in Waiting' \ Waiting : y.n = Len(transfers) + 1
  BY <1>2, EnqueueAdds
<1>4. Len(transfers) \in Nat /\ Len(transfers') = Len(transfers) + 1
  <2>1. Len(transfers) \in Nat /\ TypeOK
    BY QueueFacts DEF Inv
  <2>2. transfers' = Append(transfers, Accepted(id, len, t, life))
    BY <1>2 DEF enqueueTxFrames
  <2> QED
    BY <2>1, <2>2, AppendedTransfers
<1>5. x.n \in Nat /\ x.n <= Len(transfers)
  BY DEF Item, Precedes
<1>6. \A y \in Waiting' : y.id = x.id => CameFirst(x, y)
  BY <1>3, <1>4, <1>5 DEF Precedes, CameFirst
<1> QED
  BY <1>4, <1>5, <1>6 DEF Precedes

LEMMA FewerPrecedes ==
    ASSUME NEW x \in Item, Precedes(x), Waiting' \subseteq Waiting, UNCHANGED transfers
    PROVE  Precedes(x)'
BY DEF Precedes

(* What came first stays first: the queue only loses frames or gains younger ones. *)
LEMMA PrecedesStays ==
    ASSUME Inv, [Next]_vars, NEW x \in Item, Precedes(x)
    PROVE  Precedes(x)'
<1>1. ASSUME NEW id \in Ids, NEW len \in Lengths, NEW life \in Lifetimes, Send(id, len, life)
      PROVE  Precedes(x)'
  <2>1. tids[id] \in TransferId
    BY DEF Inv, TypeOK
  <2> QED
    BY <1>1, <2>1, AcceptedPrecedes DEF Send
<1>2. ASSUME NEW id \in Ids, NEW len \in Lengths, NEW life \in Lifetimes,
             NEW tid \in ReplyTids, Respond(id, len, tid, life)
      PROVE  Precedes(x)'
  <2>1. tid \in TransferId
    BY TxQueueAssumption DEF TxQueueAssumption
  <2> QED
    BY <1>2, <2>1, AcceptedPrecedes DEF Respond
<1>3. CASE Transmit \/ TransmitFailed
  <2>1. Waiting' \subseteq Waiting
    BY <1>3, HeadIsFirst DEF Transmit, TransmitFailed
  <2> QED
    BY <1>3, <2>1, FewerPrecedes DEF Transmit, TransmitFailed
<1>4. CASE CleanupTx
  <2>1. Waiting' \subseteq Waiting
    BY <1>4, CleanupExpires DEF Fifo!Expire, Waiting
  <2> QED
    BY <1>4, <2>1, FewerPrecedes DEF CleanupTx
<1>5. ASSUME UNCHANGED <<queue, transfers>>
      PROVE  Precedes(x)'
  BY <1>5 DEF Precedes, Waiting
<1> QED
  BY <1>1, <1>2, <1>3, <1>4, <1>5 DEF Next, vars, Refuse, OthersChange, Tick

(* The frame at the head of the queue, once it is popped, precedes the others. *)
LEMMA HeadPrecedes ==
    ASSUME Inv, Transmit
    PROVE  \E x \in Item : x = Head(queue) /\ x \in Waiting /\ Precedes(x)'
<1>1. /\ Head(queue) \in Waiting
      /\ \A y \in Waiting \ {Head(queue)} : Fifo!Before(Head(queue), y)
      /\ Waiting' = Waiting \ {Head(queue)}
  BY HeadIsFirst DEF Transmit
<1>2. PICK x \in Waiting : x = Head(queue)
  BY <1>1
<1>3. x \in Item /\ x.n <= Len(transfers)
  BY <1>2, QueueFacts DEF Inv, Waiting
<1>4. ~isPriorityHigher(x.id, x.id)
  BY <1>3, PriorityIrreflexive, IdsAreWireIds DEF Item, WireId
<1>5. \A y \in Waiting \ {x} : y.id = x.id => CameFirst(x, y)
  BY <1>1, <1>2, <1>4, SamePriority DEF Fifo!Before, Fifo!CameFirst, CameFirst
<1>6. Precedes(x)'
  BY <1>1, <1>2, <1>3, <1>5 DEF Precedes, Transmit
<1> QED
  BY <1>2, <1>3, <1>6

(* The strengthening of MailboxesDistinct and WireInOrder: what is pending precedes     *)
(* the queue, and what was sent last precedes both.                               *)
MailInv ==
    /\ mailbox \in [Mailboxes -> Item \cup {Empty}]
    /\ \A i \in Pending :
          /\ \E x \in Item : mailbox[i] = x /\ Precedes(x)
          /\ \A j \in Pending \ {i} : mailbox[i].id # mailbox[j].id
    /\ wire \in [Ids -> Seq(Item)]
    /\ \A id \in Ids : wire[id] # <<>> =>
          \E x \in Item :
             /\ wire[id] = <<x>> /\ x.id = id /\ Precedes(x)
             /\ \A i \in Pending : mailbox[i].id = id => CameFirst(x, mailbox[i])

LEMMA FreeIsFree ==
    ASSUME Pending # Mailboxes
    PROVE  FreeMailbox \in Mailboxes \ Pending
<1>1. CASE Pending = {}
  BY <1>1 DEF FreeMailbox, Mailboxes
<1>2. CASE Pending # {}
  <2>1. Pending \subseteq {0, 1, 2} /\ Mailboxes = {0, 1, 2}
    BY DEF Pending, Mailboxes
  <2>2. \E i \in Mailboxes \ Pending : \A j \in Mailboxes \ Pending : j <= i
    <3>1. CASE 2 \notin Pending
      BY <2>1, <3>1
    <3>2. CASE 2 \in Pending /\ 1 \notin Pending
      BY <2>1, <3>2
    <3>3. CASE 2 \in Pending /\ 1 \in Pending
      <4>1. 0 \notin Pending
        <5> SUFFICES ASSUME 0 \in Pending
                     PROVE  Pending = Mailboxes
          OBVIOUS
        <5> QED
          BY <2>1, <3>3
      <4> QED
        BY <2>1, <3>3, <4>1
    <3> QED
      BY <3>1, <3>2, <3>3
  <2> QED
    BY <1>2, <2>2 DEF FreeMailbox
<1> QED
  BY <1>1, <1>2

LEMMA MailboxTakesStep ==
    ASSUME Inv, MailInv, MailboxTakes
    PROVE  MailInv'
<1>1. /\ Transmit /\ wire' = wire
      /\ Pending # Mailboxes
      /\ NoInversion(Head(queue).id)
      /\ mailbox' = [mailbox EXCEPT ![FreeMailbox] = Head(queue)]
  BY DEF MailboxTakes, canardSTM32Transmit, loopVars
<1>2. PICK x \in Item : x = Head(queue) /\ x \in Waiting /\ Precedes(x)'
  BY <1>1, HeadPrecedes
<1>3. PICK f \in Mailboxes \ Pending : f = FreeMailbox
  BY <1>1, FreeIsFree
<1>4. /\ mailbox' \in [Mailboxes -> Item \cup {Empty}]
      /\ mailbox'[f] = x
      /\ \A i \in Mailboxes \ {f} : mailbox'[i] = mailbox[i]
  BY <1>1, <1>2, <1>3 DEF MailInv
<1>5. Pending' \subseteq Pending \cup {f} /\ f \notin Pending /\ Pending \subseteq Mailboxes
  BY <1>3, <1>4 DEF Pending
<1>6. [Next]_vars
  BY <1>1 DEF Next
<1>7. \A i \in Pending : mailbox[i].id # x.id
  <2>1. ~isPriorityHigher(x.id, x.id)
    BY <1>2, PriorityIrreflexive, IdsAreWireIds DEF Item, WireId
  <2> QED
    BY <1>1, <1>2, <2>1 DEF NoInversion
<1>8. \A i \in Pending' : \E y \in Item : mailbox'[i] = y /\ Precedes(y)'
  <2> SUFFICES ASSUME NEW i \in Pending'
               PROVE  \E y \in Item : mailbox'[i] = y /\ Precedes(y)'
    OBVIOUS
  <2>1. CASE i = f
    BY <1>2, <1>4, <2>1
  <2>2. CASE i \in Pending
    <3>1. PICK y \in Item : mailbox[i] = y /\ Precedes(y)
      BY <2>2 DEF MailInv
    <3>2. Precedes(y)'
      BY <1>6, <3>1, PrecedesStays
    <3> QED
      BY <1>4, <1>5, <2>2, <3>1, <3>2
  <2> QED
    BY <1>5, <2>1, <2>2
<1>9. \A i \in Pending' : \A j \in Pending' \ {i} : mailbox'[i].id # mailbox'[j].id
  BY <1>4, <1>5, <1>7 DEF MailInv
<1>10. ASSUME NEW id \in Ids, wire[id] # <<>>
       PROVE  \E y \in Item :
                 /\ wire[id] = <<y>> /\ y.id = id /\ Precedes(y)'
                 /\ \A i \in Pending' : mailbox'[i].id = id => CameFirst(y, mailbox'[i])
  <2>1. PICK y \in Item :
            /\ wire[id] = <<y>> /\ y.id = id /\ Precedes(y)
            /\ \A i \in Pending : mailbox[i].id = id => CameFirst(y, mailbox[i])
    BY <1>10 DEF MailInv
  <2>2. Precedes(y)'
    BY <1>6, <2>1, PrecedesStays
  <2>3. x.id = id => CameFirst(y, x)
    BY <1>2, <2>1 DEF Precedes
  <2>4. \A i \in Pending' : mailbox'[i].id = id => CameFirst(y, mailbox'[i])
    BY <1>4, <1>5, <2>1, <2>3
  <2> QED
    BY <2>1, <2>2, <2>4
<1>11. wire' \in [Ids -> Seq(Item)]
  BY <1>1 DEF MailInv
<1> QED
  BY <1>1, <1>4, <1>8, <1>9, <1>10, <1>11 DEF MailInv

(* A mailbox becomes empty: its frame was sent or aborted. *)
Emptied(i) ==
    /\ i \in Pending
    /\ mailbox' = [mailbox EXCEPT ![i] = Empty]
    /\ UNCHANGED <<queue, transfers>>

LEMMA EmptiedKeeps ==
    ASSUME MailInv, NEW i \in Mailboxes, Emptied(i)
    PROVE  /\ mailbox' \in [Mailboxes -> Item \cup {Empty}]
           /\ Pending' = Pending \ {i}
           /\ \A j \in Pending' : mailbox'[j] = mailbox[j]
           /\ \A x \in Item : Precedes(x) => Precedes(x)'
<1>1. /\ mailbox' \in [Mailboxes -> Item \cup {Empty}]
      /\ Pending' = Pending \ {i}
      /\ \A j \in Pending' : mailbox'[j] = mailbox[j]
  BY DEF Emptied, MailInv, Pending
<1>2. \A x \in Item : Precedes(x) => Precedes(x)'
  BY DEF Emptied, Precedes, Waiting
<1> QED
  BY <1>1, <1>2

LEMMA SentStep ==
    ASSUME MailInv, Sent
    PROVE  MailInv'
<1>1. PICK i \in Mailboxes :
          /\ Emptied(i)
          /\ wire' = [wire EXCEPT ![mailbox[i].id] = <<mailbox[i]>>]
  BY DEF Sent, SendMailbox, Wins, Emptied, vars
<1>2. /\ mailbox' \in [Mailboxes -> Item \cup {Empty}]
      /\ Pending' = Pending \ {i}
      /\ \A j \in Pending' : mailbox'[j] = mailbox[j]
      /\ \A x \in Item : Precedes(x) => Precedes(x)'
  BY <1>1, EmptiedKeeps
<1>3. PICK x \in Item : mailbox[i] = x /\ Precedes(x)
  BY <1>1 DEF Emptied, MailInv
<1>4. /\ x.id \in Ids /\ wire'[x.id] = <<x>>
      /\ wire' \in [Ids -> Seq(Item)]
      /\ \A id \in Ids \ {x.id} : wire'[id] = wire[id]
  <2>1. x.id \in Ids /\ <<x>> \in Seq(Item)
    BY <1>3 DEF Item
  <2> QED
    BY <1>1, <1>3, <2>1 DEF MailInv
<1>5. \A j \in Pending' :
          /\ \E y \in Item : mailbox'[j] = y /\ Precedes(y)'
          /\ \A k \in Pending' \ {j} : mailbox'[j].id # mailbox'[k].id
  BY <1>2 DEF MailInv
<1>6. ASSUME NEW id \in Ids, wire'[id] # <<>>
      PROVE  \E y \in Item :
                /\ wire'[id] = <<y>> /\ y.id = id /\ Precedes(y)'
                /\ \A j \in Pending' : mailbox'[j].id = id => CameFirst(y, mailbox'[j])
  <2>1. CASE id = x.id
    <3>1. \A j \in Pending' : mailbox'[j].id # id
      BY <1>1, <1>2, <1>3, <2>1 DEF MailInv, Emptied
    <3> QED
      BY <1>2, <1>3, <1>4, <2>1, <3>1
  <2>2. CASE id # x.id
    <3>1. wire'[id] = wire[id]
      BY <1>4, <2>2
    <3>2. PICK y \in Item :
              /\ wire[id] = <<y>> /\ y.id = id /\ Precedes(y)
              /\ \A j \in Pending : mailbox[j].id = id => CameFirst(y, mailbox[j])
      BY <1>6, <3>1 DEF MailInv
    <3> QED
      BY <1>2, <3>1, <3>2
  <2> QED
    BY <2>1, <2>2
<1> QED
  BY <1>2, <1>4, <1>5, <1>6 DEF MailInv

LEMMA AbortedStep ==
    ASSUME MailInv, Aborted, \A i \in aborting : i \in Pending
    PROVE  MailInv'
<1>1. PICK i \in Mailboxes : Emptied(i) /\ wire' = wire
  BY DEF Aborted, AbortMailbox, Emptied, vars, loopVars
<1>2. /\ mailbox' \in [Mailboxes -> Item \cup {Empty}]
      /\ Pending' = Pending \ {i}
      /\ \A j \in Pending' : mailbox'[j] = mailbox[j]
      /\ \A x \in Item : Precedes(x) => Precedes(x)'
  BY <1>1, EmptiedKeeps
<1>3. \A id \in Ids : wire[id] # <<>> =>
          \E y \in Item :
             /\ wire[id] = <<y>> /\ y.id = id /\ Precedes(y)'
             /\ \A j \in Pending' : mailbox'[j].id = id => CameFirst(y, mailbox'[j])
  <2> SUFFICES ASSUME NEW id \in Ids, wire[id] # <<>>
               PROVE  \E y \in Item :
                         /\ wire[id] = <<y>> /\ y.id = id /\ Precedes(y)'
                         /\ \A j \in Pending' :
                               mailbox'[j].id = id => CameFirst(y, mailbox'[j])
    OBVIOUS
  <2>1. PICK y \in Item :
            /\ wire[id] = <<y>> /\ y.id = id /\ Precedes(y)
            /\ \A j \in Pending : mailbox[j].id = id => CameFirst(y, mailbox[j])
    BY DEF MailInv
  <2> QED
    BY <1>2, <2>1
<1> QED
  BY <1>1, <1>2, <1>3 DEF MailInv

(* Everything else leaves the mailboxes and the wire alone. *)
LEMMA MailboxesStay ==
    ASSUME Inv, MailInv, [Next]_vars, UNCHANGED <<mailbox, wire>>
    PROVE  MailInv'
<1>1. \A x \in Item : Precedes(x) => Precedes(x)'
  BY PrecedesStays
<1>2. Pending' = Pending
  BY DEF Pending
<1>3. \A i \in Pending : \E x \in Item : mailbox[i] = x /\ Precedes(x)'
  BY <1>1 DEF MailInv
<1>4. \A id \in Ids : wire[id] # <<>> =>
          \E x \in Item :
             /\ wire[id] = <<x>> /\ x.id = id /\ Precedes(x)'
             /\ \A i \in Pending : mailbox[i].id = id => CameFirst(x, mailbox[i])
  BY <1>1 DEF MailInv
<1> QED
  BY <1>2, <1>3, <1>4 DEF MailInv

-----------------------------------------------------------------------------
(* The shape of the driver's variables *)

Entry == [id : Ids, n : Nat, epoch : Nat]

(* What is to be aborted is pending; a FIFO that is read has an entry, and the loop      *)
(* goes on only when it was released.                                              *)
DriverInv ==
    /\ phase \in {"init", "tx", "work"}
    /\ aborting \subseteq Pending
    /\ fifo \in [Fifos -> Seq(Entry)]
    /\ \A j \in Fifos : Len(fifo[j]) <= FifoDepth
    /\ releasing \subseteq Fifos
    /\ \A j \in releasing : fifo[j] # <<>> /\ releasing = {j}
    /\ phase # "work" => releasing = {}
    /\ arrived \in [Ids -> Nat]
    /\ epoch \in Nat

(* The FIFO that takes a frame: the entries that it keeps, and the new one. *)
LEMMA ArrivedEntries ==
    ASSUME NEW S, NEW s \in Seq(S), NEW e \in S,
           Len(s) <= FifoDepth,
           NEW kept, kept = IF Len(s) = FifoDepth THEN SubSeq(s, 1, FifoDepth - 1) ELSE s
    PROVE  /\ kept \in Seq(S)
           /\ Append(kept, e) \in Seq(S)
           /\ Len(kept) <= Len(s)
           /\ Len(Append(kept, e)) = Len(kept) + 1
           /\ Len(kept) + 1 <= FifoDepth
           /\ \A i \in 1 .. Len(kept) : Append(kept, e)[i] = s[i]
           /\ Append(kept, e)[Len(kept) + 1] = e
<1>1. Len(s) \in Nat /\ FifoDepth \in Nat \ {0}
  BY STM32Assumption, LenProperties DEF STM32Assumption
<1>2. kept \in Seq(S) /\ Len(kept) <= Len(s) /\ Len(kept) + 1 <= FifoDepth
      /\ \A i \in 1 .. Len(kept) : kept[i] = s[i]
  <2>1. CASE Len(s) = FifoDepth
    <3>1. 1 \in 1 .. Len(s) + 1 /\ FifoDepth - 1 \in 1 - 1 .. Len(s)
      BY <1>1, <2>1
    <3>2. /\ kept \in Seq(S) /\ Len(kept) = FifoDepth - 1 - 1 + 1
          /\ \A i \in 1 .. FifoDepth - 1 - 1 + 1 : kept[i] = s[1 + i - 1]
      BY <1>1, <2>1, <3>1, SubSeqProperties
    <3>3. FifoDepth - 1 - 1 + 1 = FifoDepth - 1 /\ \A i \in Int : 1 + i - 1 = i
      BY <1>1
    <3> QED
      BY <1>1, <2>1, <3>2, <3>3
  <2>2. CASE Len(s) # FifoDepth
    BY <1>1, <2>2
  <2> QED
    BY <2>1, <2>2
<1>3. /\ Append(kept, e) \in Seq(S) /\ Len(Append(kept, e)) = Len(kept) + 1
      /\ \A i \in 1 .. Len(kept) : Append(kept, e)[i] = kept[i]
      /\ Append(kept, e)[Len(kept) + 1] = e
  BY <1>2, AppendProperties
<1> QED
  BY <1>2, <1>3

(* What an arriving frame does to its FIFO, which may be any one as far as the           *)
(* arithmetic of the banks is concerned.                                             *)
LEMMA ArrivesFacts ==
    ASSUME DriverInv, NEW id \in Ids, Arrive(id, arrived[id] + 1)
    PROVE  LET new == [id |-> id, n |-> arrived[id] + 1, epoch |-> epoch]
           IN  /\ new \in Entry
               /\ fifo' \in [Fifos -> Seq(Entry)]
               /\ \A j \in Fifos : j # FifoOf(id) => fifo'[j] = fifo[j]
               /\ \A j \in Fifos : j = FifoOf(id) =>
                     \E m \in Nat :
                        /\ m <= Len(fifo[j]) /\ m + 1 <= FifoDepth
                        /\ Len(fifo'[j]) = m + 1
                        /\ \A i \in 1 .. m : fifo'[j][i] = fifo[j][i]
                        /\ fifo'[j][m + 1] = new
<1> DEFINE new == [id |-> id, n |-> arrived[id] + 1, epoch |-> epoch]
           f == FifoOf(id)
           kept == IF Len(fifo[f]) = FifoDepth THEN SubSeq(fifo[f], 1, FifoDepth - 1)
                   ELSE fifo[f]
<1>1. new \in Entry
  BY DEF DriverInv, Entry
<1>2. fifo' = [fifo EXCEPT ![f] = Append(kept, new)]
  BY DEF Arrive
<1>3. fifo \in [Fifos -> Seq(Entry)] /\ \A j \in Fifos : Len(fifo[j]) <= FifoDepth
  BY DEF DriverInv
<1>4. CASE f \in Fifos
  <2>1. fifo[f] \in Seq(Entry) /\ Len(fifo[f]) <= FifoDepth
    BY <1>3, <1>4
  <2> HIDE DEF f, new
  <2>2. /\ kept \in Seq(Entry) /\ Append(kept, new) \in Seq(Entry)
        /\ Len(kept) <= Len(fifo[f])
        /\ Len(Append(kept, new)) = Len(kept) + 1
        /\ Len(kept) + 1 <= FifoDepth
        /\ \A i \in 1 .. Len(kept) : Append(kept, new)[i] = fifo[f][i]
        /\ Append(kept, new)[Len(kept) + 1] = new
    BY <1>1, <2>1, ArrivedEntries
  <2>3. Len(kept) \in Nat
    BY <2>2, LenProperties
  <2> HIDE DEF kept
  <2>4. /\ fifo' \in [Fifos -> Seq(Entry)]
        /\ fifo'[f] = Append(kept, new)
        /\ \A j \in Fifos : j # f => fifo'[j] = fifo[j]
    BY <1>2, <1>3, <1>4, <2>2
  <2> QED
    BY <1>1, <1>4, <2>2, <2>3, <2>4 DEF f, new
<1>5. CASE f \notin Fifos
  <2> HIDE DEF f, new, kept
  <2>1. fifo' = fifo
    BY <1>2, <1>3, <1>5
  <2> QED
    BY <1>1, <1>3, <1>5, <2>1 DEF f, new
<1> QED
  BY <1>4, <1>5

LEMMA ArrivesShape ==
    ASSUME DriverInv, Chosen, Arrives
    PROVE  DriverInv'
<1>1. PICK id \in Ids :
          /\ Arrive(id, arrived[id] + 1)
          /\ arrived' = [arrived EXCEPT ![id] = @ + 1]
  BY ScenarioFacts DEF Arrives, Chosen
<1>2. fifo' \in [Fifos -> Seq(Entry)]
  BY <1>1, ArrivesFacts
<1>3. ASSUME NEW j \in Fifos
      PROVE  /\ Len(fifo'[j]) <= FifoDepth
             /\ fifo[j] # <<>> => fifo'[j] # <<>>
  <2>1. CASE j # FifoOf(id)
    BY <1>1, <2>1, ArrivesFacts DEF DriverInv
  <2>2. CASE j = FifoOf(id)
    <3>1. PICK m \in Nat : m + 1 <= FifoDepth /\ Len(fifo'[j]) = m + 1
      BY <1>1, <2>2, ArrivesFacts
    <3> QED
      BY <3>1, EmptySeq
  <2> QED
    BY <2>1, <2>2
<1>4. arrived' \in [Ids -> Nat]
  BY <1>1 DEF DriverInv
<1>5. UNCHANGED <<phase, aborting, mailbox, releasing, epoch>>
  BY <1>1 DEF Arrives, Arrive, txSide, setup
<1> QED
  BY <1>2, <1>3, <1>4, <1>5 DEF DriverInv, Pending

(* canardSTM32Receive: the head of a FIFO is released once it was read. *)
LEMMA ReleaseFacts ==
    ASSUME DriverInv, NEW j \in Fifos, ReleaseFifo(j)
    PROVE  /\ releasing = {j} /\ releasing' = {}
           /\ fifo' \in [Fifos -> Seq(Entry)]
           /\ \A k \in Fifos : k # j => fifo'[k] = fifo[k]
           /\ Len(fifo[j]) \in Nat \ {0}
           /\ Len(fifo'[j]) = Len(fifo[j]) - 1
           /\ \A i \in 1 .. Len(fifo'[j]) : fifo'[j][i] = fifo[j][i + 1]
<1>1. fifo[j] \in Seq(Entry) /\ fifo[j] # <<>> /\ releasing = {j}
  BY DEF DriverInv, ReleaseFifo
<1>2. /\ Len(fifo[j]) \in Nat \ {0}
      /\ Tail(fifo[j]) \in Seq(Entry) /\ Len(Tail(fifo[j])) = Len(fifo[j]) - 1
      /\ \A i \in 1 .. Len(Tail(fifo[j])) : Tail(fifo[j])[i] = fifo[j][i + 1]
  BY <1>1, HeadTailProperties, LenProperties, EmptySeq
<1>3. /\ fifo' = [fifo EXCEPT ![j] = Tail(fifo[j])]
      /\ fifo \in [Fifos -> Seq(Entry)] /\ releasing' = {}
  BY DEF ReleaseFifo, DriverInv
<1>4. /\ fifo' \in [Fifos -> Seq(Entry)] /\ fifo'[j] = Tail(fifo[j])
      /\ \A k \in Fifos : k # j => fifo'[k] = fifo[k]
  BY <1>2, <1>3
<1> QED
  BY <1>1, <1>2, <1>3, <1>4

LEMMA ReleaseShape ==
    ASSUME DriverInv, Release
    PROVE  DriverInv'
<1>1. PICK j \in Fifos : ReleaseFifo(j)
  BY DEF Release
<1>2. /\ releasing' = {} /\ fifo' \in [Fifos -> Seq(Entry)]
      /\ \A k \in Fifos : k # j => fifo'[k] = fifo[k]
      /\ Len(fifo[j]) \in Nat \ {0} /\ Len(fifo'[j]) = Len(fifo[j]) - 1
  BY <1>1, ReleaseFacts
<1>3. ASSUME NEW k \in Fifos
      PROVE  Len(fifo'[k]) <= FifoDepth
  <2>1. Len(fifo[k]) <= FifoDepth /\ FifoDepth \in Nat
    BY STM32Assumption DEF DriverInv, STM32Assumption
  <2>2. CASE k = j
    BY <1>2, <2>1, <2>2
  <2>3. CASE k # j
    BY <1>2, <2>1, <2>3
  <2> QED
    BY <2>2, <2>3
<1>4. UNCHANGED <<phase, aborting, mailbox, arrived, epoch>>
  BY <1>1 DEF Release, ReleaseFifo, loopVars, txSide, setup
<1> QED
  BY <1>2, <1>3, <1>4 DEF DriverInv, Pending

(* The transmitting half of the driver: what is to be aborted stays pending. *)
LEMMA AbortingStep ==
    ASSUME DriverInv, MailInv,
           \/ MailboxTakes
           \/ \E i \in Mailboxes : SendMailbox(i) \/ AbortMailbox(i)
           \/ processErrorStatus /\ UNCHANGED mailbox
           \/ UNCHANGED <<mailbox, aborting>>
    PROVE  aborting' \subseteq Pending'
<1>1. CASE MailboxTakes
  <2>1. Pending # Mailboxes /\ mailbox' = [mailbox EXCEPT ![FreeMailbox] = Head(queue)]
    BY <1>1 DEF MailboxTakes, canardSTM32Transmit
  <2>2. FreeMailbox \in Mailboxes \ Pending
    BY <2>1, FreeIsFree
  <2>3. Pending \subseteq Pending'
    BY <2>1, <2>2 DEF Pending, MailInv
  <2> QED
    BY <1>1, <2>3 DEF MailboxTakes, canardSTM32Transmit, processErrorStatus, DriverInv
<1>2. ASSUME NEW i \in Mailboxes, SendMailbox(i) \/ AbortMailbox(i)
      PROVE  aborting' \subseteq Pending'
  BY <1>2 DEF SendMailbox, AbortMailbox, DriverInv, Pending, MailInv
<1>3. CASE processErrorStatus /\ UNCHANGED mailbox
  BY <1>3 DEF processErrorStatus, DriverInv, Pending
<1>4. CASE UNCHANGED <<mailbox, aborting>>
  BY <1>4 DEF DriverInv, Pending
<1> QED
  BY <1>1, <1>2, <1>3, <1>4

(* The steps that neither receive nor are done with what was received. *)
LEMMA OtherShape ==
    ASSUME DriverInv, aborting' \subseteq Pending',
           UNCHANGED <<fifo, releasing, arrived>>,
           epoch' \in Nat, phase' \in {"init", "tx", "work"},
           phase' # "work" => releasing = {}
    PROVE  DriverInv'
BY DEF DriverInv

LEMMA DriverStep ==
    ASSUME DriverInv, MailInv, Chosen, [PathNext]_pathVars
    PROVE  DriverInv'
<1>1. CASE Arrives
  BY <1>1, ArrivesShape
<1>2. CASE Release
  BY <1>2, ReleaseShape
<1>3. CASE Deliver
  <2>1. PICK j \in Fifos : ReadFifo(j)
    BY <1>3 DEF Deliver
  <2>2. aborting' \subseteq Pending'
    BY <2>1, AbortingStep DEF ReadFifo
  <2>3. releasing' = {j} /\ UNCHANGED <<fifo, arrived, epoch, phase>> /\ phase = "work"
    BY <1>3, <2>1 DEF Deliver, ReadFifo, setup
  <2>4. fifo[j] # <<>>
    BY <2>1 DEF ReadFifo
  <2> QED
    BY <2>2, <2>3, <2>4 DEF DriverInv
<1>4. CASE MailboxTakes
  <2>1. aborting' \subseteq Pending'
    BY <1>4, AbortingStep
  <2>2. UNCHANGED <<fifo, releasing, arrived, epoch, phase>>
    BY <1>4 DEF MailboxTakes, canardSTM32Transmit, rxSide, setup, loopVars
  <2> QED
    BY <2>1, <2>2, OtherShape DEF DriverInv
<1>5. CASE Sent \/ Aborted
  <2>1. PICK i \in Mailboxes : SendMailbox(i) \/ AbortMailbox(i)
    BY <1>5 DEF Sent, Aborted
  <2>2. aborting' \subseteq Pending'
    BY <2>1, AbortingStep
  <2>3. UNCHANGED <<fifo, releasing, arrived, epoch, phase>>
    BY <1>5, <2>1 DEF Sent, Aborted, SendMailbox, AbortMailbox, rxSide, setup, loopVars
  <2> QED
    BY <2>2, <2>3, OtherShape DEF DriverInv
<1>6. CASE MailboxesBusy \/ NothingReceived
  <2>1. aborting' \subseteq Pending'
    BY <1>6, AbortingStep DEF MailboxesBusy, NothingReceived, TransmitRejected, ReceiveNothing
  <2>2. UNCHANGED <<fifo, releasing, arrived, epoch>> /\ phase' = "work"
    BY <1>6 DEF MailboxesBusy, NothingReceived, TransmitRejected, ReceiveNothing,
                rxSide, setup, loopVars, busSide
  <2> QED
    BY <2>1, <2>2, OtherShape DEF DriverInv
<1>7. CASE Reconfigure
  <2>1. /\ UNCHANGED <<mailbox, aborting, fifo, releasing, arrived, phase>>
        /\ epoch' = epoch + 1 /\ releasing = {}
    BY <1>7 DEF Reconfigure, canardSTM32ConfigureAcceptanceFilters, txSide, rxSide, loopVars
  <2>2. aborting' \subseteq Pending'
    BY <2>1, AbortingStep
  <2> QED
    BY <2>1, <2>2, OtherShape DEF DriverInv
<1>8. CASE \/ StartDriver \/ StartFails \/ SocketTakes \/ SocketFails \/ SocketBusy
           \/ NothingToSend \/ NextTurn \/ Work \/ Disturbed \/ Clock
           \/ UNCHANGED pathVars
  <2>1. /\ UNCHANGED <<mailbox, aborting, fifo, releasing, arrived, epoch>>
        /\ phase' = phase \/ phase' = "work" \/ (phase' = "tx" /\ (phase = "init" \/ releasing = {}))
    BY <1>8 DEF StartDriver, StartFails, canardSTM32Init, InitFails, SocketTakes, SocketFails,
                SocketBusy, NothingToSend, NextTurn, Work, Disturbed, BusError, Clock,
                driverVars, txSide, rxSide, setup, loopVars, pathVars, busSide
  <2>2. aborting' \subseteq Pending'
    BY <2>1, AbortingStep
  <2> QED
    BY <2>1, <2>2, OtherShape DEF DriverInv
<1> QED
  BY <1>1, <1>2, <1>3, <1>4, <1>5, <1>6, <1>7, <1>8 DEF PathNext, LoopStep

LEMMA MailStep ==
    ASSUME Inv, DriverInv, MailInv, Chosen, [PathNext]_pathVars
    PROVE  MailInv'
<1>1. CASE MailboxTakes
  BY <1>1, MailboxTakesStep
<1>2. CASE Sent
  BY <1>2, SentStep
<1>3. CASE Aborted
  BY <1>3, AbortedStep DEF DriverInv
<1>4. CASE ~MailboxTakes /\ ~Sent /\ ~Aborted
  <2>1. UNCHANGED <<mailbox, wire>>
    BY <1>4 DEF PathNext, LoopStep, StartDriver, StartFails, canardSTM32Init, InitFails,
                MailboxesBusy, TransmitRejected, SocketTakes, SocketFails, SocketBusy,
                NothingToSend, Release, ReleaseFifo, NextTurn, Deliver, ReadFifo,
                NothingReceived, ReceiveNothing, Reconfigure,
                canardSTM32ConfigureAcceptanceFilters, Work, Disturbed, BusError, Arrives,
                Arrive, Clock, driverVars, txSide, rxSide, setup, loopVars, pathVars, busSide
  <2>2. [Next]_vars
    BY PathStep DEF Chosen
  <2> QED
    BY <2>1, <2>2, MailboxesStay
<1> QED
  BY <1>1, <1>2, <1>3, <1>4

-----------------------------------------------------------------------------
(* Overflows *)

(* The overflow of FIFO j that rx_overflow_count does not count yet. *)
Uncounted(j) == IF j \notin releasing /\ overrun[j] THEN 1 ELSE 0

CountInv ==
    /\ overrun \in [Fifos -> BOOLEAN]
    /\ overflows \in Nat
    /\ lost \in Nat
    /\ overflows + Uncounted(0) + Uncounted(1) <= lost

LEMMA UncountedFifos ==
    ASSUME overrun \in [Fifos -> BOOLEAN]
    PROVE  Cardinality({j \in Fifos \ releasing : overrun[j]}) = Uncounted(0) + Uncounted(1)
<1> DEFINE S == {j \in Fifos \ releasing : overrun[j]}
           A == 0 \notin releasing /\ overrun[0]
           B == 1 \notin releasing /\ overrun[1]
<1>1. Fifos = {0, 1}
  BY DEF Fifos
<1>2. \A x : x \in S <=> (x = 0 /\ A) \/ (x = 1 /\ B)
  BY <1>1
<1>3. Uncounted(0) = IF A THEN 1 ELSE 0
  BY DEF Uncounted
<1>4. Uncounted(1) = IF B THEN 1 ELSE 0
  BY DEF Uncounted
<1> HIDE DEF S, A, B
<1>5. CASE ~A /\ ~B
  BY <1>2, <1>3, <1>4, <1>5, FS_EmptySet DEF S
<1>6. CASE A /\ ~B
  <2>1. S = {0}
    BY <1>2, <1>6
  <2> QED
    BY <1>3, <1>4, <1>6, <2>1, FS_Singleton DEF S
<1>7. CASE ~A /\ B
  <2>1. S = {1}
    BY <1>2, <1>7
  <2> QED
    BY <1>3, <1>4, <1>7, <2>1, FS_Singleton DEF S
<1>8. CASE A /\ B
  <2>1. S = {0} \cup {1}
    BY <1>2, <1>8
  <2>2. IsFiniteSet({0}) /\ Cardinality({0}) = 1 /\ 1 \notin {0}
    <3>1. IsFiniteSet({0}) /\ Cardinality({0}) = 1
      BY FS_Singleton
    <3> QED
      BY <3>1
  <2>3. Cardinality({0} \cup {1}) = Cardinality({0}) + 1
    BY <2>2, FS_AddElement
  <2> QED
    BY <1>3, <1>4, <1>8, <2>1, <2>2, <2>3 DEF S
<1> QED
  BY <1>5, <1>6, <1>7, <1>8

LEMMA CountStep ==
    ASSUME DriverInv, CountInv, Chosen, [PathNext]_pathVars
    PROVE  CountInv'
<1>1. CASE Arrives
  <2>1. PICK id \in Ids : Arrive(id, arrived[id] + 1)
    BY <1>1, ScenarioFacts DEF Arrives, Chosen
  <2>2. PICK full \in BOOLEAN :
            /\ overrun' = [overrun EXCEPT ![FifoOf(id)] = @ \/ full]
            /\ lost' = IF full THEN lost + 1 ELSE lost
    BY <2>1 DEF Arrive
  <2>3. UNCHANGED <<overflows, releasing>>
    BY <2>1 DEF Arrive
  <2>4. overrun' \in [Fifos -> BOOLEAN]
    BY <2>2 DEF CountInv
  <2>5. CASE full
    <3>1. /\ FifoOf(id) = 0 => Uncounted(1)' = Uncounted(1)
          /\ FifoOf(id) # 0 => Uncounted(0)' = Uncounted(0)
      BY <2>2, <2>3 DEF Uncounted, CountInv, Fifos
    <3>2. /\ Uncounted(0) \in {0, 1} /\ Uncounted(1) \in {0, 1}
          /\ Uncounted(0)' \in {0, 1} /\ Uncounted(1)' \in {0, 1}
      BY DEF Uncounted
    <3> QED
      BY <2>2, <2>3, <2>4, <2>5, <3>1, <3>2 DEF CountInv
  <2>6. CASE ~full
    <3>1. overrun' = overrun
      BY <2>2, <2>6 DEF CountInv
    <3> QED
      BY <2>2, <2>3, <2>6, <3>1 DEF CountInv, Uncounted
  <2> QED
    BY <2>5, <2>6
<1>2. CASE Release
  <2>1. PICK j \in Fifos : ReleaseFifo(j)
    BY <1>2 DEF Release
  <2>2. /\ releasing = {j} /\ releasing' = {}
        /\ overrun' = [overrun EXCEPT ![j] = FALSE]
        /\ UNCHANGED <<overflows, lost>>
    BY <2>1 DEF ReleaseFifo, DriverInv
  <2>3. overrun' \in [Fifos -> BOOLEAN]
    BY <2>2 DEF CountInv
  <2>4. Uncounted(0)' = Uncounted(0) /\ Uncounted(1)' = Uncounted(1)
    BY <2>2 DEF Uncounted, CountInv, Fifos
  <2> QED
    BY <2>2, <2>3, <2>4 DEF CountInv
<1>3. CASE Deliver
  <2>1. PICK j \in Fifos : ReadFifo(j)
    BY <1>3 DEF Deliver
  <2>2. /\ releasing = {} /\ releasing' = {j}
        /\ UNCHANGED <<overrun, lost>>
        /\ overflows' = IF overrun[j] THEN overflows + 1 ELSE overflows
    BY <2>1 DEF ReadFifo
  <2>3. CASE j = 0
    BY <2>2, <2>3 DEF CountInv, Uncounted, Fifos
  <2>4. CASE j = 1
    BY <2>2, <2>4 DEF CountInv, Uncounted, Fifos
  <2> QED
    BY <2>3, <2>4 DEF Fifos
<1>4. CASE ~Arrives /\ ~Release /\ ~Deliver
  <2>1. /\ UNCHANGED <<overrun, releasing, lost>>
        /\ overflows' = overflows \/ overflows' = 0
    BY <1>4 DEF PathNext, LoopStep, StartDriver, StartFails, canardSTM32Init, InitFails,
                MailboxTakes, canardSTM32Transmit, MailboxesBusy, TransmitRejected,
                SocketTakes, SocketFails, SocketBusy, NothingToSend, NextTurn,
                NothingReceived, ReceiveNothing, Reconfigure,
                canardSTM32ConfigureAcceptanceFilters, Work, Sent, SendMailbox, Aborted,
                AbortMailbox, Disturbed, BusError, Clock,
                driverVars, txSide, rxSide, setup, loopVars, pathVars, busSide
  <2>2. Uncounted(0)' = Uncounted(0) /\ Uncounted(1)' = Uncounted(1)
    BY <2>1 DEF Uncounted
  <2>3. Uncounted(0) \in Nat /\ Uncounted(1) \in Nat
    BY DEF Uncounted
  <2> QED
    BY <2>1, <2>2, <2>3 DEF CountInv
<1> QED
  BY <1>1, <1>2, <1>3, <1>4

-----------------------------------------------------------------------------
(* The order of delivery *)

(* The entries of a FIFO are in the order of arrival; as long as the filters stay the     *)
(* same, the frames of an identifier all go to one FIFO, the one FifoOf names now; and      *)
(* what was delivered last arrived before what is unread.                           *)
OrderInv ==
    /\ \A j \in Fifos : \A i \in 1 .. Len(fifo[j]) :
          /\ fifo[j][i].n <= arrived[fifo[j][i].id]
          /\ fifo[j][i].epoch <= epoch
          /\ fifo[j][i].epoch = epoch => running /\ j = FifoOf(fifo[j][i].id)
    /\ \A j \in Fifos : \A i, l \in 1 .. Len(fifo[j]) :
          i < l /\ fifo[j][i].id = fifo[j][l].id => fifo[j][i].n < fifo[j][l].n
    /\ \A j, k \in Fifos : \A i \in 1 .. Len(fifo[j]), l \in 1 .. Len(fifo[k]) :
          fifo[j][i].id = fifo[k][l].id /\ fifo[j][i].epoch = fifo[k][l].epoch => j = k
    /\ got \in [Ids -> Seq(Entry)]
    /\ \A id \in Ids : got[id] # <<>> => got[id][1] \in Entry /\ got[id][1].n <= arrived[id]
    /\ DeliveredInOrder

LEMMA FifoFacts ==
    ASSUME DriverInv, NEW j \in Fifos
    PROVE  /\ Len(fifo[j]) \in Nat /\ DOMAIN fifo[j] = 1 .. Len(fifo[j])
           /\ \A i \in 1 .. Len(fifo[j]) : fifo[j][i] \in Entry
BY LenProperties, ElementOfSeq DEF DriverInv

LEMMA ArrivesOrder ==
    ASSUME DriverInv, OrderInv, DriverInv', Chosen, Arrives
    PROVE  OrderInv'
<1>1. PICK id \in Ids :
          /\ Arrive(id, arrived[id] + 1)
          /\ arrived' = [arrived EXCEPT ![id] = @ + 1]
  BY ScenarioFacts DEF Arrives, Chosen
<1> DEFINE new == [id |-> id, n |-> arrived[id] + 1, epoch |-> epoch]
<1>2. /\ running /\ UNCHANGED <<running, filters, epoch, releasing, got>>
  BY <1>1 DEF Arrives, Arrive, setup
<1>3. \A x : FifoOf(x)' = FifoOf(x)
  BY <1>2 DEF FifoOf, Passing
(* Every entry is the new one, youngest of all, or an old one in its old place. *)
<1>4. ASSUME NEW j \in Fifos, NEW i \in 1 .. Len(fifo'[j])
      PROVE  \/ i \in 1 .. Len(fifo[j]) /\ fifo'[j][i] = fifo[j][i]
             \/ i = Len(fifo'[j]) /\ j = FifoOf(id) /\ fifo'[j][i] = new
  <2>1. CASE j # FifoOf(id)
    BY <1>1, <1>4, <2>1, ArrivesFacts
  <2>2. CASE j = FifoOf(id)
    <3>1. PICK m \in Nat :
              /\ m <= Len(fifo[j]) /\ Len(fifo'[j]) = m + 1
              /\ \A a \in 1 .. m : fifo'[j][a] = fifo[j][a]
              /\ fifo'[j][m + 1] = new
      BY <1>1, <2>2, ArrivesFacts
    <3>2. Len(fifo[j]) \in Nat
      BY FifoFacts
    <3>3. i \in 1 .. m \/ i = m + 1
      BY <3>1
    <3> QED
      BY <2>2, <3>1, <3>2, <3>3
  <2> QED
    BY <2>1, <2>2
<1>5. \A j \in Fifos :
          /\ Len(fifo[j]) \in Nat /\ Len(fifo'[j]) \in Nat
          /\ DOMAIN fifo[j] = 1 .. Len(fifo[j]) /\ DOMAIN fifo'[j] = 1 .. Len(fifo'[j])
          /\ \A i \in 1 .. Len(fifo[j]) : fifo[j][i] \in Entry
  <2> SUFFICES ASSUME NEW j \in Fifos
               PROVE  /\ Len(fifo[j]) \in Nat /\ Len(fifo'[j]) \in Nat
                      /\ DOMAIN fifo[j] = 1 .. Len(fifo[j])
                      /\ DOMAIN fifo'[j] = 1 .. Len(fifo'[j])
                      /\ \A i \in 1 .. Len(fifo[j]) : fifo[j][i] \in Entry
    OBVIOUS
  <2>1. fifo'[j] \in Seq(Entry)
    BY DEF DriverInv
  <2> QED
    BY <2>1, FifoFacts, LenProperties
<1>6. /\ arrived' \in [Ids -> Nat] /\ arrived \in [Ids -> Nat] /\ epoch \in Nat
      /\ arrived'[id] = arrived[id] + 1
      /\ \A x \in Ids : arrived[x] <= arrived'[x]
  BY <1>1 DEF DriverInv
<1>7. new.id = id /\ new.n = arrived[id] + 1 /\ new.epoch = epoch
  OBVIOUS
<1> HIDE DEF new
<1>8. \A j \in Fifos : \A i \in 1 .. Len(fifo[j]) :
          /\ fifo[j][i].id \in Ids /\ fifo[j][i].n \in Nat /\ fifo[j][i].epoch \in Nat
          /\ fifo[j][i].n <= arrived[fifo[j][i].id]
          /\ fifo[j][i].n <= arrived'[fifo[j][i].id]
  BY <1>5, <1>6 DEF OrderInv, Entry
<1>9. ASSUME NEW j \in Fifos, NEW i \in 1 .. Len(fifo'[j])
      PROVE  /\ fifo'[j][i].n <= arrived'[fifo'[j][i].id]
             /\ fifo'[j][i].epoch <= epoch
             /\ fifo'[j][i].epoch = epoch => running /\ j = FifoOf(fifo'[j][i].id)
  <2>1. CASE i \in 1 .. Len(fifo[j]) /\ fifo'[j][i] = fifo[j][i]
    BY <1>8, <2>1 DEF OrderInv
  <2>2. CASE j = FifoOf(id) /\ fifo'[j][i] = new
    BY <1>2, <1>6, <1>7, <2>2
  <2> QED
    BY <1>4, <2>1, <2>2
<1>10. ASSUME NEW j \in Fifos, NEW i \in 1 .. Len(fifo'[j]), NEW l \in 1 .. Len(fifo'[j]),
              i < l, fifo'[j][i].id = fifo'[j][l].id
       PROVE  fifo'[j][i].n < fifo'[j][l].n
  <2>1. i \in 1 .. Len(fifo[j]) /\ fifo'[j][i] = fifo[j][i]
    BY <1>4, <1>5, <1>10
  <2>2. CASE l \in 1 .. Len(fifo[j]) /\ fifo'[j][l] = fifo[j][l]
    BY <1>10, <2>1, <2>2 DEF OrderInv
  <2>3. CASE fifo'[j][l] = new
    BY <1>6, <1>7, <1>8, <1>10, <2>1, <2>3
  <2> QED
    BY <1>4, <2>2, <2>3
<1>11. ASSUME NEW j \in Fifos, NEW k \in Fifos,
              NEW i \in 1 .. Len(fifo'[j]), NEW l \in 1 .. Len(fifo'[k]),
              fifo'[j][i].id = fifo'[k][l].id, fifo'[j][i].epoch = fifo'[k][l].epoch
       PROVE  j = k
  <2>1. \A a \in Fifos : \A b \in 1 .. Len(fifo'[a]) :
            fifo'[a][b] = new => a = FifoOf(id)
    BY <1>2, <1>7, <1>9
  <2>2. \A a \in Fifos : \A b \in 1 .. Len(fifo'[a]) :
            fifo'[a][b].id = id /\ fifo'[a][b].epoch = epoch => a = FifoOf(id)
    BY <1>9
  <2>3. CASE fifo'[j][i] = new \/ fifo'[k][l] = new
    BY <1>7, <1>11, <2>2, <2>3
  <2>4. CASE /\ i \in 1 .. Len(fifo[j]) /\ fifo'[j][i] = fifo[j][i]
             /\ l \in 1 .. Len(fifo[k]) /\ fifo'[k][l] = fifo[k][l]
    BY <1>11, <2>4 DEF OrderInv
  <2> QED
    BY <1>4, <2>3, <2>4
<1>12. ASSUME NEW x \in Ids, got[x] # <<>>
       PROVE  got[x][1] \in Entry /\ got[x][1].n <= arrived[x] /\ got[x][1].n <= arrived'[x]
  <2>1. got[x][1] \in Entry /\ got[x][1].n <= arrived[x]
    BY <1>12 DEF OrderInv
  <2>2. got[x][1].n \in Nat /\ arrived[x] \in Nat /\ arrived'[x] \in Nat
    BY <1>6, <2>1 DEF Entry
  <2> QED
    BY <1>6, <2>1, <2>2
<1>13. ASSUME NEW j \in Fifos, NEW i \in 1 .. Len(fifo'[j]), j \in releasing => i > 1,
              got[fifo'[j][i].id] # <<>>, got[fifo'[j][i].id][1].epoch = fifo'[j][i].epoch
       PROVE  got[fifo'[j][i].id][1].n < fifo'[j][i].n
  <2>1. CASE i \in 1 .. Len(fifo[j]) /\ fifo'[j][i] = fifo[j][i]
    BY <1>5, <1>13, <2>1 DEF OrderInv, DeliveredInOrder, Unread
  <2>2. CASE fifo'[j][i] = new
    BY <1>6, <1>7, <1>12, <1>13, <2>2 DEF Entry
  <2> QED
    BY <1>4, <2>1, <2>2
<1>14. DeliveredInOrder'
  BY <1>2, <1>5, <1>13 DEF DeliveredInOrder, Unread
<1>15. got' \in [Ids -> Seq(Entry)]
  BY <1>2 DEF OrderInv
<1> QED
  BY <1>2, <1>3, <1>9, <1>10, <1>11, <1>12, <1>14, <1>15 DEF OrderInv

LEMMA ReleaseOrder ==
    ASSUME DriverInv, OrderInv, DriverInv', Release
    PROVE  OrderInv'
<1>1. PICK j \in Fifos : ReleaseFifo(j)
  BY DEF Release
<1>2. /\ releasing = {j} /\ releasing' = {}
      /\ \A k \in Fifos : k # j => fifo'[k] = fifo[k]
      /\ Len(fifo[j]) \in Nat \ {0} /\ Len(fifo'[j]) = Len(fifo[j]) - 1
      /\ \A i \in 1 .. Len(fifo'[j]) : fifo'[j][i] = fifo[j][i + 1]
  BY <1>1, ReleaseFacts
<1>3. UNCHANGED <<running, filters, epoch, arrived, got>>
  BY <1>1 DEF Release, ReleaseFifo, setup, loopVars
<1>4. \A x : FifoOf(x)' = FifoOf(x)
  BY <1>3 DEF FifoOf, Passing
(* The old places of the entries that stay. *)
<1> DEFINE Old(k, i) == IF k = j THEN i + 1 ELSE i
<1>5. \A k \in Fifos : \A i \in 1 .. Len(fifo'[k]) :
          /\ i \in Nat
          /\ Old(k, i) \in 1 .. Len(fifo[k])
          /\ fifo'[k][i] = fifo[k][Old(k, i)]
          /\ k \in releasing => Old(k, i) > 1
  <2> SUFFICES ASSUME NEW k \in Fifos, NEW i \in 1 .. Len(fifo'[k])
               PROVE  /\ i \in Nat
                      /\ Old(k, i) \in 1 .. Len(fifo[k])
                      /\ fifo'[k][i] = fifo[k][Old(k, i)]
                      /\ k \in releasing => Old(k, i) > 1
    OBVIOUS
  <2>1. CASE k = j
    <3>1. Old(k, i) = i + 1
      BY <2>1
    <3>2. i \in Nat /\ i >= 1 /\ i + 1 \in 1 .. Len(fifo[j])
      BY <1>2, <2>1
    <3>3. fifo'[j][i] = fifo[j][i + 1]
      BY <1>2, <2>1
    <3> HIDE DEF Old
    <3> QED
      BY <2>1, <3>1, <3>2, <3>3
  <2>2. CASE k # j
    <3>1. Old(k, i) = i /\ k \notin releasing /\ fifo'[k] = fifo[k]
      BY <1>2, <2>2
    <3> HIDE DEF Old
    <3> QED
      BY <3>1
  <2> QED
    BY <2>1, <2>2
<1>6. \A k \in Fifos : \A i, l \in Nat : i < l => Old(k, i) < Old(k, l)
  OBVIOUS
<1>7. \A k \in Fifos :
          DOMAIN fifo[k] = 1 .. Len(fifo[k]) /\ DOMAIN fifo'[k] = 1 .. Len(fifo'[k])
  <2> SUFFICES ASSUME NEW k \in Fifos
               PROVE  /\ DOMAIN fifo[k] = 1 .. Len(fifo[k])
                      /\ DOMAIN fifo'[k] = 1 .. Len(fifo'[k])
    OBVIOUS
  <2>1. fifo'[k] \in Seq(Entry) /\ fifo[k] \in Seq(Entry)
    BY DEF DriverInv
  <2> QED
    BY <2>1, LenProperties
<1> HIDE DEF Old
<1>8. \A k \in Fifos : \A i \in 1 .. Len(fifo'[k]) :
          /\ fifo'[k][i].n <= arrived[fifo'[k][i].id]
          /\ fifo'[k][i].epoch <= epoch
          /\ fifo'[k][i].epoch = epoch => running /\ k = FifoOf(fifo'[k][i].id)
  BY <1>5 DEF OrderInv
<1>9. \A k \in Fifos : \A i, l \in 1 .. Len(fifo'[k]) :
          i < l /\ fifo'[k][i].id = fifo'[k][l].id => fifo'[k][i].n < fifo'[k][l].n
  <2> SUFFICES ASSUME NEW k \in Fifos, NEW i \in 1 .. Len(fifo'[k]),
                      NEW l \in 1 .. Len(fifo'[k]),
                      i < l, fifo'[k][i].id = fifo'[k][l].id
               PROVE  fifo'[k][i].n < fifo'[k][l].n
    OBVIOUS
  <2>1. PICK a \in 1 .. Len(fifo[k]), b \in 1 .. Len(fifo[k]) :
            a < b /\ fifo'[k][i] = fifo[k][a] /\ fifo'[k][l] = fifo[k][b]
    BY <1>5, <1>6
  <2>2. fifo[k][a].id = fifo[k][b].id
    BY <2>1
  <2>3. fifo[k][a].n < fifo[k][b].n
    BY <2>1, <2>2 DEF OrderInv
  <2> QED
    BY <2>1, <2>3
<1>10. \A k, m \in Fifos : \A i \in 1 .. Len(fifo'[k]), l \in 1 .. Len(fifo'[m]) :
          fifo'[k][i].id = fifo'[m][l].id /\ fifo'[k][i].epoch = fifo'[m][l].epoch => k = m
  <2> SUFFICES ASSUME NEW k \in Fifos, NEW m \in Fifos,
                      NEW i \in 1 .. Len(fifo'[k]), NEW l \in 1 .. Len(fifo'[m]),
                      fifo'[k][i].id = fifo'[m][l].id,
                      fifo'[k][i].epoch = fifo'[m][l].epoch
               PROVE  k = m
    OBVIOUS
  <2>1. PICK a \in 1 .. Len(fifo[k]) : fifo'[k][i] = fifo[k][a]
    BY <1>5
  <2>2. PICK b \in 1 .. Len(fifo[m]) : fifo'[m][l] = fifo[m][b]
    BY <1>5
  <2>3. fifo[k][a].id = fifo[m][b].id /\ fifo[k][a].epoch = fifo[m][b].epoch
    BY <2>1, <2>2
  <2> QED
    BY <2>3 DEF OrderInv
<1>11. DeliveredInOrder'
  <2> SUFFICES ASSUME NEW k \in Fifos, NEW i \in 1 .. Len(fifo'[k]),
                      got[fifo'[k][i].id] # <<>>,
                      got[fifo'[k][i].id][1].epoch = fifo'[k][i].epoch
               PROVE  got[fifo'[k][i].id][1].n < fifo'[k][i].n
    BY <1>3, <1>7 DEF DeliveredInOrder, Unread
  <2>1. PICK a \in Unread(k) : fifo'[k][i] = fifo[k][a]
    BY <1>5, <1>7 DEF Unread
  <2>2. got[fifo[k][a].id] # <<>> /\ got[fifo[k][a].id][1].epoch = fifo[k][a].epoch
    BY <2>1
  <2>3. got[fifo[k][a].id][1].n < fifo[k][a].n
    BY <2>2 DEF OrderInv, DeliveredInOrder
  <2> QED
    BY <2>1, <2>3
<1> QED
  BY <1>3, <1>4, <1>8, <1>9, <1>10, <1>11 DEF OrderInv

LEMMA DeliverOrder ==
    ASSUME DriverInv, OrderInv, Deliver
    PROVE  OrderInv'
<1>1. PICK j \in Fifos :
          ReadFifo(j) /\ got' = [got EXCEPT ![Head(fifo[j]).id] = <<Head(fifo[j])>>]
  BY DEF Deliver
<1>2. /\ releasing = {} /\ releasing' = {j} /\ fifo[j] # <<>>
      /\ UNCHANGED <<fifo, running, filters, epoch, arrived>>
  BY <1>1 DEF Deliver, ReadFifo, setup
<1>3. \A x : FifoOf(x)' = FifoOf(x)
  BY <1>2 DEF FifoOf, Passing
<1>4. \A k \in Fifos :
          /\ Len(fifo[k]) \in Nat /\ DOMAIN fifo[k] = 1 .. Len(fifo[k])
          /\ \A i \in 1 .. Len(fifo[k]) : fifo[k][i] \in Entry
  BY FifoFacts
<1>5. fifo[j] \in Seq(Entry) /\ Head(fifo[j]) = fifo[j][1] /\ 1 \in 1 .. Len(fifo[j])
  <2>1. fifo[j] \in Seq(Entry)
    BY DEF DriverInv
  <2>2. Len(fifo[j]) # 0
    BY <1>2, <2>1, EmptySeq
  <2> QED
    BY <1>4, <2>1, <2>2
<1>6. PICK e \in Entry : e = fifo[j][1] /\ e.id \in Ids
  BY <1>4, <1>5 DEF Entry
<1>7. /\ got' \in [Ids -> Seq(Entry)] /\ got'[e.id] = <<e>>
      /\ \A x \in Ids \ {e.id} : got'[x] = got[x]
  <2>1. <<e>> \in Seq(Entry)
    OBVIOUS
  <2> QED
    BY <1>1, <1>5, <1>6, <2>1 DEF OrderInv
<1>8. ASSUME NEW x \in Ids, got'[x] # <<>>
      PROVE  got'[x][1] \in Entry /\ got'[x][1].n <= arrived[x]
  <2>1. CASE x = e.id
    <3>1. got'[x][1] = e
      BY <1>7, <2>1
    <3>2. fifo[j][1].n <= arrived[fifo[j][1].id]
      BY <1>5 DEF OrderInv
    <3> QED
      BY <1>6, <2>1, <3>1, <3>2
  <2>2. CASE x # e.id
    BY <1>7, <1>8, <2>2 DEF OrderInv
  <2> QED
    BY <2>1, <2>2
<1>9. ASSUME NEW k \in Fifos, NEW i \in 1 .. Len(fifo[k]), k = j => i > 1,
             got'[fifo[k][i].id] # <<>>, got'[fifo[k][i].id][1].epoch = fifo[k][i].epoch
      PROVE  got'[fifo[k][i].id][1].n < fifo[k][i].n
  <2>1. fifo[k][i].id \in Ids
    BY <1>4 DEF Entry
  <2>2. CASE fifo[k][i].id = e.id
    <3>1. fifo[k][i].epoch = e.epoch /\ got'[fifo[k][i].id][1] = e
      BY <1>7, <1>9, <2>2
    <3>2. k = j
      BY <1>5, <1>6, <2>2, <3>1 DEF OrderInv
    <3>3. e.n < fifo[k][i].n
      BY <1>5, <1>6, <1>9, <2>2, <3>2 DEF OrderInv
    <3> QED
      BY <3>1, <3>3
  <2>3. CASE fifo[k][i].id # e.id
    <3>1. got'[fifo[k][i].id] = got[fifo[k][i].id] /\ i \in Unread(k)
      BY <1>2, <1>4, <1>7, <2>1, <2>3 DEF Unread
    <3> QED
      BY <1>9, <3>1 DEF OrderInv, DeliveredInOrder
  <2> QED
    BY <2>2, <2>3
<1>10. DeliveredInOrder'
  BY <1>2, <1>4, <1>9 DEF DeliveredInOrder, Unread
<1> QED
  BY <1>2, <1>3, <1>7, <1>8, <1>10 DEF OrderInv

(* New filters start a new epoch, in which nothing was received yet. *)
LEMMA FiltersOrder ==
    ASSUME DriverInv, OrderInv, UNCHANGED <<fifo, releasing, arrived, got>>,
           \/ epoch' = epoch + 1
           \/ ~running /\ epoch' = epoch
           \/ UNCHANGED <<running, filters, epoch>>
    PROVE  OrderInv'
<1>1. \A j \in Fifos : \A i \in 1 .. Len(fifo[j]) :
          /\ fifo[j][i].epoch \in Nat
          /\ fifo[j][i].epoch <= epoch
          /\ fifo[j][i].epoch = epoch => running /\ j = FifoOf(fifo[j][i].id)
  BY FifoFacts DEF OrderInv, Entry
<1>2. UNCHANGED <<running, filters, epoch>> => \A x : FifoOf(x)' = FifoOf(x)
  BY DEF FifoOf, Passing
<1>3. \A j \in Fifos : \A i \in 1 .. Len(fifo[j]) :
          /\ fifo[j][i].epoch <= epoch'
          /\ fifo[j][i].epoch = epoch' => running' /\ j = FifoOf(fifo[j][i].id)'
  <2>1. CASE epoch' = epoch + 1
    BY <1>1, <2>1 DEF DriverInv
  <2>2. CASE ~running /\ epoch' = epoch
    BY <1>1, <2>2
  <2>3. CASE UNCHANGED <<running, filters, epoch>>
    BY <1>1, <1>2, <2>3
  <2> QED
    BY <2>1, <2>2, <2>3
<1>4. DeliveredInOrder'
  BY DEF OrderInv, DeliveredInOrder, Unread
<1> QED
  BY <1>3, <1>4 DEF OrderInv

LEMMA OrderStep ==
    ASSUME DriverInv, OrderInv, DriverInv', Chosen, [PathNext]_pathVars
    PROVE  OrderInv'
<1>1. CASE Arrives
  BY <1>1, ArrivesOrder
<1>2. CASE Release
  BY <1>2, ReleaseOrder
<1>3. CASE Deliver
  BY <1>3, DeliverOrder
<1>4. CASE ~Arrives /\ ~Release /\ ~Deliver
  <2>1. /\ UNCHANGED <<fifo, releasing, arrived, got>>
        /\ \/ epoch' = epoch + 1
           \/ ~running /\ epoch' = epoch
           \/ UNCHANGED <<running, filters, epoch>>
    BY <1>4 DEF PathNext, LoopStep, StartDriver, StartFails, canardSTM32Init, InitFails,
                MailboxTakes, canardSTM32Transmit, MailboxesBusy, TransmitRejected,
                SocketTakes, SocketFails, SocketBusy, NothingToSend, NextTurn,
                NothingReceived, ReceiveNothing, Reconfigure,
                canardSTM32ConfigureAcceptanceFilters, Work, Sent, SendMailbox, Aborted,
                AbortMailbox, Disturbed, BusError, Clock,
                driverVars, txSide, rxSide, setup, loopVars, pathVars, busSide
  <2> QED
    BY <2>1, FiltersOrder
<1> QED
  BY <1>1, <1>2, <1>3, <1>4

-----------------------------------------------------------------------------
(* The invariant of the path *)

PathInv == Inv /\ Chosen /\ DriverInv /\ MailInv /\ CountInv /\ OrderInv

LEMMA PathInitInv == PathInit => PathInv
<1> SUFFICES ASSUME PathInit
             PROVE  PathInv
  OBVIOUS
<1>1. Inv /\ Chosen
  BY InitInv DEF PathInit, Chosen
<1>2. Pending = {} /\ \A j \in Fifos : fifo[j] = <<>> /\ Len(fifo[j]) = 0
  BY DEF PathInit, DriverInit, Pending
<1>3. DriverInv
  BY <1>2, STM32Assumption DEF PathInit, DriverInit, DriverInv, STM32Assumption
<1>4. MailInv
  BY <1>2 DEF PathInit, DriverInit, MailInv
<1>5. CountInv
  BY DEF PathInit, DriverInit, CountInv, Uncounted, Fifos
<1>6. OrderInv
  BY <1>2 DEF PathInit, DriverInit, OrderInv, DeliveredInOrder, Unread
<1> QED
  BY <1>1, <1>3, <1>4, <1>5, <1>6 DEF PathInv

LEMMA PathNextInv == PathInv /\ [PathNext]_pathVars => PathInv'
<1> SUFFICES ASSUME PathInv, [PathNext]_pathVars
             PROVE  PathInv'
  OBVIOUS
<1>1. Inv'
  BY PathStep, NextInv DEF PathInv, Chosen
<1>2. Chosen'
  BY ScenarioStays DEF PathInv, Chosen, pathVars, loopVars
<1>3. DriverInv'
  BY DriverStep DEF PathInv
<1>4. MailInv'
  BY MailStep DEF PathInv
<1>5. CountInv'
  BY CountStep DEF PathInv
<1>6. OrderInv'
  BY <1>3, OrderStep DEF PathInv
<1> QED
  BY <1>1, <1>2, <1>3, <1>4, <1>5, <1>6 DEF PathInv

LEMMA PathSpecInv == PathSpec => []PathInv
BY PathInitInv, PathNextInv, PTL DEF PathSpec

(* The loop, the queue, the mailboxes and the FIFOs keep their shape: the pool is never      *)
(* exceeded, only pending frames are aborted, and nothing is transmitted while a FIFO      *)
(* entry is still to be released.                                                 *)
THEOREM PathKeepsShape == PathSpec => []PathTypeOK
<1>1. PathInv => PathTypeOK
  BY DEF PathInv, PathTypeOK, Inv, Chosen, DriverInv, MailInv
<1> QED
  BY <1>1, PathSpecInv, PTL

(* canardSTM32Transmit never lets two frames of one identifier wait in mailboxes. *)
THEOREM NoTwoOfOneIdentifier == PathSpec => []MailboxesDistinct
<1>1. PathInv => MailboxesDistinct
  <2> SUFFICES ASSUME PathInv, NEW i \in Pending
               PROVE  /\ \A j \in Pending \ {i} : mailbox[i].id # mailbox[j].id
                      /\ \A q \in DOMAIN queue :
                            queue[q].id = mailbox[i].id => CameFirst(mailbox[i], queue[q])
    BY DEF MailboxesDistinct, CameFirst
  <2>1. PICK x \in Item : mailbox[i] = x /\ Precedes(x)
    BY DEF PathInv, MailInv
  <2> QED
    BY <2>1 DEF PathInv, MailInv, Precedes, Waiting
<1> QED
  BY <1>1, PathSpecInv, PTL

(* Frames of one identifier reach the wire in the order in which they were made. *)
THEOREM WireKeepsOrder == PathSpec => []WireInOrder
<1>1. PathInv => WireInOrder
  <2> SUFFICES ASSUME PathInv, NEW id \in Ids, wire[id] # <<>>
               PROVE  /\ \A i \in Pending :
                            mailbox[i].id = id => CameFirst(wire[id][1], mailbox[i])
                      /\ \A q \in DOMAIN queue :
                            queue[q].id = id => CameFirst(wire[id][1], queue[q])
    BY DEF WireInOrder, CameFirst
  <2>1. PICK x \in Item :
            /\ wire[id] = <<x>> /\ x.id = id /\ Precedes(x)
            /\ \A i \in Pending : mailbox[i].id = id => CameFirst(x, mailbox[i])
    BY DEF PathInv, MailInv
  <2>2. wire[id][1] = x
    BY <2>1
  <2> QED
    BY <2>1, <2>2 DEF Precedes, Waiting
<1> QED
  BY <1>1, PathSpecInv, PTL

(* Frames of one identifier are delivered in the order of arrival, while the filters      *)
(* stay as they are, for FIFOs of every depth.                                    *)
THEOREM DeliveryKeepsOrder == PathSpec => []DeliveredInOrder
<1>1. PathInv => DeliveredInOrder
  BY DEF PathInv, OrderInv
<1> QED
  BY <1>1, PathSpecInv, PTL

(* rx_overflow_count never counts more than what was lost. *)
THEOREM OverflowsCountLosses == PathSpec => []OverflowsAreLosses
<1>1. PathInv => OverflowsAreLosses
  <2> SUFFICES ASSUME PathInv
               PROVE  OverflowsAreLosses
    OBVIOUS
  <2>1. overflows + (Uncounted(0) + Uncounted(1)) <= lost
    <3>1. Uncounted(0) \in Nat /\ Uncounted(1) \in Nat
      BY DEF Uncounted
    <3> QED
      BY <3>1 DEF PathInv, CountInv
  <2> QED
    BY <2>1, UncountedFifos DEF PathInv, CountInv, OverflowsAreLosses
<1> QED
  BY <1>1, PathSpecInv, PTL
=============================================================================
