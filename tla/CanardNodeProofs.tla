-------------------------- MODULE CanardNodeProofs --------------------------
(***************************************************************************)
(* The memory of a library instance, for every pool, every set of descriptors  *)
(* and every traffic: no block is lost and none has two owners.               *)
(***************************************************************************)
EXTENDS CanardNode, FiniteSetTheorems, TLAPS

(* incrementTransferID stays within the bit-field. *)
LEMMA NextTransferIdType ==
    ASSUME NEW t \in TransferId
    PROVE  NextTransferId(t) \in TransferId
BY TidModAssumption DEF TransferId, NextTransferId

(* The inductive invariant: the statements about the blocks support each other,    *)
(* for a block that is given back must not be free yet, and a state that is        *)
(* prepared for the next transfer must not own any.                           *)
Inv ==
    /\ TypeOK
    /\ OneOwner
    /\ NothingLeaks
    /\ StatisticsExact
    /\ ChainMatchesLength

-----------------------------------------------------------------------------
(* The pool *)

LEMMA BlocksFinite ==
    ASSUME NEW S \in SUBSET Block
    PROVE  IsFiniteSet(S) /\ Cardinality(S) \in Nat
           /\ Cardinality(S) <= Cardinality(Block)
BY FS_Subset, FS_CardinalityType, NodeAssumption DEF NodeAssumption

(* The free list after blocks have been given back and taken. *)
LEMMA FreeCount ==
    ASSUME NEW free0 \in SUBSET Block,
           NEW in \in SUBSET Block, in \cap free0 = {},
           NEW out \in SUBSET (free0 \cup in)
    PROVE  Cardinality((free0 \cup in) \ out)
               = Cardinality(free0) + Cardinality(in) - Cardinality(out)
<1> DEFINE all == free0 \cup in
<1>1. /\ IsFiniteSet(free0) /\ IsFiniteSet(in) /\ IsFiniteSet(all)
      /\ Cardinality(free0) \in Nat /\ Cardinality(in) \in Nat
      /\ Cardinality(out) \in Nat
  BY BlocksFinite
<1>2. Cardinality(free0 \cap in) = 0
  <2>1. free0 \cap in = {}
    OBVIOUS
  <2> QED
    BY <2>1, FS_EmptySet
<1>3. Cardinality(all) = Cardinality(free0) + Cardinality(in) - Cardinality(free0 \cap in)
  BY <1>1, FS_Union
<1>4. all \cap out = out
  OBVIOUS
<1>5. Cardinality(all \ out) = Cardinality(all) - Cardinality(all \cap out)
  <2> HIDE DEF all
  <2> QED
    BY <1>1, FS_Difference
<1>6. Cardinality(all \ out) = Cardinality(all) - Cardinality(out)
  BY <1>4, <1>5
<1> HIDE DEF all
<1>7. Cardinality(all \ out) = Cardinality(free0) + Cardinality(in) - Cardinality(out)
  BY <1>1, <1>2, <1>3, <1>6
<1> QED
  BY <1>7 DEF all

(* allocateBlock and freeBlock keep the statistics right, provided that no free    *)
(* block is given back and only free blocks are taken.                         *)
LEMMA PoolCount ==
    ASSUME TypeOK, StatisticsExact,
           NEW in \in SUBSET Block, in \cap free = {},
           NEW out \in SUBSET (free \cup in),
           NEW high \in Int,
           high <= Cardinality(Block),
           UsageAfter(in, out) <= Greater(peak, high),
           PoolStep(in, out, high)
    PROVE  /\ StatisticsExact'
           /\ free' \in SUBSET Block /\ usage' \in Int /\ peak' \in Int
<1>1. free \in SUBSET Block /\ usage \in Int /\ peak \in Int
  BY DEF TypeOK
<1>2. Cardinality(free') = Cardinality(free) + Cardinality(in) - Cardinality(out)
  BY <1>1, FreeCount DEF PoolStep
<1>3. free' \in SUBSET Block
  BY <1>1 DEF PoolStep
<1>4. /\ Cardinality(free') \in Nat /\ Cardinality(free) \in Nat
      /\ Cardinality(in) \in Nat /\ Cardinality(out) \in Nat
      /\ Cardinality(Block) \in Nat
  BY <1>1, <1>3, BlocksFinite
<1> QED
  BY <1>1, <1>2, <1>3, <1>4 DEF StatisticsExact, PoolStep, UsageAfter, Greater

LEMMA GiveBackCount ==
    ASSUME TypeOK, StatisticsExact,
           NEW in \in SUBSET Block, in \cap free = {},
           GiveBack(in)
    PROVE  /\ StatisticsExact'
           /\ free' \in SUBSET Block /\ usage' \in Int /\ peak' \in Int
           /\ free' = free \cup in
<1>1. usage \in Int /\ peak \in Int /\ usage <= peak /\ peak <= Cardinality(Block)
  BY DEF TypeOK, StatisticsExact
<1>2. Cardinality(in) \in Nat /\ Cardinality({}) = 0
      /\ Cardinality(Block) \in Nat
  BY BlocksFinite, FS_EmptySet
<1>3. PoolStep(in, {}, usage)
  BY DEF GiveBack
<1>4. UsageAfter(in, {}) <= Greater(peak, usage)
  BY <1>1, <1>2 DEF UsageAfter, Greater
<1>5. usage <= Cardinality(Block)
  BY <1>1, <1>2
<1>6. {} \in SUBSET (free \cup in)
  OBVIOUS
<1>7. /\ StatisticsExact'
      /\ free' \in SUBSET Block /\ usage' \in Int /\ peak' \in Int
  BY <1>1, <1>3, <1>4, <1>5, <1>6, PoolCount
<1> QED
  BY <1>3, <1>7 DEF PoolStep

LEMMA ExchangeCount ==
    ASSUME TypeOK, StatisticsExact,
           NEW in \in SUBSET Block, in \cap free = {},
           NEW out \in SUBSET (free \cup in),
           Exchange(in, out)
    PROVE  /\ StatisticsExact'
           /\ free' \in SUBSET Block /\ usage' \in Int /\ peak' \in Int
           /\ free' = (free \cup in) \ out
<1>1. /\ free \in SUBSET Block /\ usage \in Int /\ peak \in Int
      /\ usage = Cardinality(Block) - Cardinality(free)
  BY DEF TypeOK, StatisticsExact
<1>2. (free \cup in) \ out \in SUBSET Block
  BY <1>1
<1>3. /\ Cardinality(in) \in Nat /\ Cardinality(out) \in Nat
      /\ Cardinality(free) \in Nat /\ Cardinality(Block) \in Nat
      /\ Cardinality((free \cup in) \ out) \in Nat
  BY <1>1, <1>2, BlocksFinite
<1>4. Cardinality((free \cup in) \ out)
          = Cardinality(free) + Cardinality(in) - Cardinality(out)
  BY <1>1, FreeCount
<1>5. /\ UsageAfter(in, out) \in Int
      /\ UsageAfter(in, out) <= Cardinality(Block)
      /\ UsageAfter(in, out) <= Greater(peak, UsageAfter(in, out))
  BY <1>1, <1>3, <1>4 DEF UsageAfter, Greater
<1>6. PoolStep(in, out, UsageAfter(in, out))
  BY DEF Exchange
<1>7. /\ StatisticsExact'
      /\ free' \in SUBSET Block /\ usage' \in Int /\ peak' \in Int
  BY <1>5, <1>6, PoolCount
<1> QED
  BY <1>6, <1>7 DEF PoolStep

-----------------------------------------------------------------------------
(* Who owns what *)

(* The blocks of the state of descriptor d. *)
Held(d) == IF d \in DOMAIN rx THEN {rx[d].block} \cup rx[d].blocks ELSE {}

(* A step that changes one state, the free list and the payload of the callback,    *)
(* and redistributes the blocks of these three, keeps every block with one owner.  *)
LEMMA OwnershipStep ==
    ASSUME TypeOK, OneOwner, NothingLeaks,
           NEW d \in Descs, NEW st \in State,
           rx' = Put(d, st), UNCHANGED tx,
           free \cup payload \cup Held(d) = free' \cup payload' \cup st.blocks \cup {st.block},
           free' \cap payload' = {},
           (free' \cup payload') \cap st.blocks = {},
           st.block \notin free' \cup payload' \cup st.blocks
    PROVE  OneOwner' /\ NothingLeaks'
<1> DEFINE Rest == DOMAIN rx \ {d}
           Mine == free \cup payload \cup Held(d)
           OtherStates == {rx[e].block : e \in Rest}
           OtherChains == UNION {rx[e].blocks : e \in Rest}
           Others == OtherStates \cup OtherChains \cup TxBlocks
<1>1. /\ DOMAIN rx' = Rest \cup {d}
      /\ rx'[d] = st
      /\ \A e \in Rest : rx'[e] = rx[e]
  BY DEF Put
<1>2. /\ \A x : x \in StateBlocks <=> \E e \in DOMAIN rx : x = rx[e].block
      /\ \A x : x \in ChainBlocks <=> \E e \in DOMAIN rx : x \in rx[e].blocks
      /\ \A x : x \in OtherStates <=> \E e \in Rest : x = rx[e].block
      /\ \A x : x \in OtherChains <=> \E e \in Rest : x \in rx[e].blocks
  BY DEF StateBlocks, ChainBlocks
<1>3. /\ \A x : x \in StateBlocks' <=> \E e \in DOMAIN rx' : x = rx'[e].block
      /\ \A x : x \in ChainBlocks' <=> \E e \in DOMAIN rx' : x \in rx'[e].blocks
  BY DEF StateBlocks, ChainBlocks
<1>4. TxBlocks' = TxBlocks
  BY DEF TxBlocks
<1> HIDE DEF OtherStates, OtherChains
<1>5. StateBlocks' = OtherStates \cup {st.block}
  <2>1. \A x : x \in StateBlocks' <=> x \in OtherStates \cup {st.block}
    BY <1>1, <1>2, <1>3
  <2> QED
    BY <2>1
<1>6. ChainBlocks' = OtherChains \cup st.blocks
  <2>1. \A x : x \in ChainBlocks' <=> x \in OtherChains \cup st.blocks
    BY <1>1, <1>2, <1>3
  <2> QED
    BY <2>1
<1>7. /\ OtherStates \cap Held(d) = {}
      /\ OtherChains \cap Held(d) = {}
  <2>1. \A e \in Rest : rx[e].block \notin Held(d) /\ rx[e].blocks \cap Held(d) = {}
    BY <1>2 DEF Held, OneOwner
  <2> QED
    BY <2>1, <1>2
<1>8. /\ OtherStates \subseteq StateBlocks
      /\ OtherChains \subseteq ChainBlocks
      /\ Held(d) \subseteq StateBlocks \cup ChainBlocks
      /\ StateBlocks \cup ChainBlocks = OtherStates \cup OtherChains \cup Held(d)
  BY <1>2 DEF Held
<1>9. /\ Others \cap Mine = {}
      /\ Block = Others \cup Mine
  BY <1>7, <1>8 DEF OneOwner, NothingLeaks
<1>10. Mine = free' \cup payload' \cup st.blocks \cup {st.block}
  OBVIOUS
<1>11. OneOwner'
  <2>1. \A x, y \in DOMAIN rx' : x # y =>
            rx'[x].block # rx'[y].block /\ rx'[x].blocks \cap rx'[y].blocks = {}
    <3>1. \A e \in Rest : /\ rx[e].block # st.block
                          /\ rx[e].blocks \cap st.blocks = {}
      BY <1>2, <1>9, <1>10
    <3>2. \A x, y \in Rest : x # y =>
            rx[x].block # rx[y].block /\ rx[x].blocks \cap rx[y].blocks = {}
      BY DEF OneOwner
    <3> SUFFICES ASSUME NEW x \in Rest \cup {d}, NEW y \in Rest \cup {d}, x # y
                 PROVE  rx'[x].block # rx'[y].block /\ rx'[x].blocks \cap rx'[y].blocks = {}
      BY <1>1
    <3>3. CASE x \in Rest /\ y \in Rest
      BY <3>2, <3>3, <1>1
    <3>4. CASE x = d /\ y \in Rest
      BY <3>1, <3>4, <1>1
    <3>5. CASE x \in Rest /\ y = d
      BY <3>1, <3>5, <1>1
    <3> QED
      BY <3>3, <3>4, <3>5
  <2>2. \A x, y \in tx' : x # y => x.block # y.block
    BY DEF OneOwner
  <2> HIDE DEF Mine
  <2>3. free' \cap (StateBlocks' \cup ChainBlocks' \cup TxBlocks' \cup payload') = {}
    BY <1>4, <1>5, <1>6, <1>9, <1>10
  <2>4. /\ OtherStates \cap (OtherChains \cup TxBlocks) = {}
        /\ OtherChains \cap TxBlocks = {}
    BY <1>8 DEF OneOwner
  <2>5. StateBlocks' \cap (ChainBlocks' \cup TxBlocks' \cup payload') = {}
    BY <1>4, <1>5, <1>6, <1>9, <1>10, <2>4
  <2>6. ChainBlocks' \cap (TxBlocks' \cup payload') = {}
    BY <1>4, <1>5, <1>6, <1>9, <1>10, <2>4
  <2>7. TxBlocks' \cap payload' = {}
    BY <1>4, <1>9, <1>10
  <2> QED
    BY <2>1, <2>2, <2>3, <2>5, <2>6, <2>7 DEF OneOwner
<1>12. NothingLeaks'
  <2> HIDE DEF Mine
  <2>1. Block = free' \cup StateBlocks' \cup ChainBlocks' \cup TxBlocks' \cup payload'
    BY <1>4, <1>5, <1>6, <1>9, <1>10
  <2> QED
    BY <2>1 DEF NothingLeaks
<1> QED
  BY <1>11, <1>12

-----------------------------------------------------------------------------
(* The state a frame finds or opens *)

(* A state without payload needs no block. *)
LEMMA EmptyFits ==
    ASSUME NEW st, st.blocks = {}, st.len = 0
    PROVE  ChainFits(st)
<1>1. Cardinality(st.blocks) = 0
  BY FS_EmptySet
<1> QED
  BY <1>1, SessionAssumption DEF ChainFits, Fitting, Room, SessionAssumption

LEMMA NoBytes == LenMod \in Nat \ {0} /\ 0 \in 0 .. LenMod - 1
BY SessionAssumption DEF SessionAssumption

LEMMA StateUpdates ==
    ASSUME NEW st \in State, NEW f \in Frame, NEW now0 \in Nat
    PROVE  /\ Released(st) \in State
           /\ Restarted(st, f) \in State
           /\ Synchronised(st, f, now0) \in State
           /\ SkipTransfer(st, f) \in State
           /\ PreparedForNext(st) \in State
           /\ Toggled(st) \in State
<1>1. /\ f.tid \in TransferId /\ f.iface \in Nat
      /\ st.tid \in TransferId /\ 0 \in 0 .. LenMod - 1
  BY NodeAssumption, NoBytes DEF Frame, State, NodeAssumption
<1>2. /\ NextTransferId(f.tid) \in TransferId
      /\ NextTransferId(st.tid) \in TransferId
  BY <1>1, NextTransferIdType
<1>3. Released(st) \in State
  BY <1>1 DEF Released, State
<1>4. Restarted(st, f) \in State
  BY <1>1, <1>3 DEF Restarted, State
<1>5. Synchronised(st, f, now0) \in State
  BY <1>4 DEF Synchronised
<1>6. SkipTransfer(st, f) \in State
  BY <1>2, <1>4 DEF SkipTransfer, State
<1>7. PreparedForNext(st) \in State
  BY <1>1, <1>2 DEF PreparedForNext, State
<1>8. Toggled(st) \in State
  BY DEF Toggled, State
<1> QED
  BY <1>3, <1>4, <1>5, <1>6, <1>7, <1>8

LEMMA NewStateType ==
    ASSUME NEW b \in Block
    PROVE  NewState(b) \in State
BY TidModAssumption, NoBytes DEF NewState, State, TransferId

(* What the handler works on: a state that exists or a new one, its chain, and the   *)
(* part of the chain that a restart has dropped.                               *)
LEMMA FrameFacts ==
    ASSUME Inv, Idle, NEW f \in Frame, NEW b \in Block, Opens(f, b)
    PROVE  /\ f.desc \in Descs /\ f.desc # NoDesc /\ payload = {}
           /\ Base(f, b) \in State /\ Base(f, b).block = b
           /\ Current(f, b) \in State /\ Current(f, b).block = b
           /\ Taken(f, b) \subseteq free \cap {b}
           /\ b \notin free \ Taken(f, b)
           /\ Held(f.desc) \cup Taken(f, b) = {b} \cup Base(f, b).blocks
           /\ b \notin Base(f, b).blocks
           /\ Base(f, b).blocks \subseteq Block \ free
           /\ Dropped(f, b) \subseteq Base(f, b).blocks
           /\ Current(f, b).blocks = Base(f, b).blocks \ Dropped(f, b)
           /\ ChainFits(Current(f, b))
           /\ f.sot /\ f.iface = Current(f, b).iface => Current(f, b).blocks = {}
           /\ ~Restarts(f, b) => Current(f, b) = Base(f, b)
<1>1. /\ f.desc \in Descs /\ f.desc # NoDesc /\ payload = {}
      /\ now \in Nat
  BY NodeAssumption DEF Frame, Inv, TypeOK, NodeAssumption
<1>2. /\ Base(f, b) \in State /\ Base(f, b).block = b
      /\ Taken(f, b) \subseteq free \cap {b}
      /\ b \notin free \ Taken(f, b)
      /\ Held(f.desc) \cup Taken(f, b) = {b} \cup Base(f, b).blocks
      /\ b \notin Base(f, b).blocks
      /\ Base(f, b).blocks \subseteq Block \ free
      /\ ChainFits(Base(f, b))
  <2>1. CASE Known(f)
    <3>1. /\ f.desc \in DOMAIN rx /\ b = rx[f.desc].block
          /\ Base(f, b) = rx[f.desc] /\ Taken(f, b) = {}
      BY <2>1 DEF Known, Opens, Base, Taken
    <3>2. /\ rx[f.desc] \in State
          /\ rx[f.desc].block \in StateBlocks
          /\ rx[f.desc].blocks \subseteq ChainBlocks
      BY <3>1 DEF Inv, TypeOK, StateBlocks, ChainBlocks
    <3>3. /\ free \cap (StateBlocks \cup ChainBlocks) = {}
          /\ StateBlocks \cap ChainBlocks = {}
      BY DEF Inv, OneOwner
    <3>4. ChainFits(rx[f.desc])
      BY <1>1, <3>1 DEF Inv, ChainMatchesLength, Idle
    <3>5. rx[f.desc].blocks \subseteq Block
      BY <3>2 DEF State
    <3> QED
      BY <3>1, <3>2, <3>3, <3>4, <3>5 DEF Held
  <2>2. CASE ~Known(f)
    <3>1. /\ b \in free /\ Base(f, b) = NewState(b) /\ Taken(f, b) = {b}
          /\ Held(f.desc) = {}
      BY <2>2 DEF Known, Opens, Base, Taken, Held
    <3>2. /\ NewState(b).block = b /\ NewState(b).blocks = {}
          /\ NewState(b).len = 0
      BY DEF NewState
    <3> QED
      BY <3>1, <3>2, NewStateType, EmptyFits
  <2> QED
    BY <2>1, <2>2
<1>3. /\ Current(f, b) \in State
      /\ Current(f, b).block = b
      /\ Dropped(f, b) \subseteq Base(f, b).blocks
      /\ Current(f, b).blocks = Base(f, b).blocks \ Dropped(f, b)
      /\ ChainFits(Current(f, b))
      /\ f.sot /\ f.iface = Current(f, b).iface => Current(f, b).blocks = {}
      /\ ~Restarts(f, b) => Current(f, b) = Base(f, b)
  <2>1. CASE Restarts(f, b)
    <3>1. /\ Current(f, b) = Restarted(Base(f, b), f)
          /\ Dropped(f, b) = Base(f, b).blocks
      BY <2>1 DEF Restarts, Current, Synchronised, Dropped
    <3>2. /\ Restarted(Base(f, b), f).block = Base(f, b).block
          /\ Restarted(Base(f, b), f).blocks = {}
          /\ Restarted(Base(f, b), f).len = 0
      BY <1>2 DEF Restarted, Released, State
    <3> QED
      BY <1>1, <1>2, <2>1, <3>1, <3>2, StateUpdates, EmptyFits
  <2>2. CASE ~Restarts(f, b)
    <3>1. Current(f, b) = Base(f, b) /\ Dropped(f, b) = {}
      BY <2>2 DEF Restarts, Current, Synchronised, Dropped
    <3>2. f.sot /\ f.iface = Current(f, b).iface => Current(f, b).blocks = {}
      BY <2>2, <3>1 DEF Restarts, NeedRestart, IncompleteFrame
    <3> QED
      BY <1>2, <3>1, <3>2
  <2> QED
    BY <2>1, <2>2
<1> QED
  BY <1>1, <1>2, <1>3

(* A step of the handler or of the callback, whatever it does to the one state it     *)
(* touches.                                                                  *)
LEMMA HandlerStep ==
    ASSUME Inv, NEW d \in Descs, NEW st \in State,
           rx' = Put(d, st), UNCHANGED <<local, tx, now>>,
           payload' \in SUBSET Block, handling' \in {d, NoDesc},
           handling' = NoDesc => payload' = {},
           handling \in {d, NoDesc}, d # NoDesc,
           StatisticsExact',
           free' \in SUBSET Block, usage' \in Int, peak' \in Int,
           IF d = handling' THEN st.blocks = {} ELSE ChainFits(st),
           free \cup payload \cup Held(d) = free' \cup payload' \cup st.blocks \cup {st.block},
           free' \cap payload' = {},
           (free' \cup payload') \cap st.blocks = {},
           st.block \notin free' \cup payload' \cup st.blocks
    PROVE  Inv'
<1>1. OneOwner' /\ NothingLeaks'
  BY OwnershipStep DEF Inv
<1>2. /\ DOMAIN rx' = DOMAIN rx \cup {d}
      /\ rx'[d] = st
      /\ \A e \in DOMAIN rx \ {d} : rx'[e] = rx[e]
      /\ rx' = [e \in DOMAIN rx' |-> rx'[e]]
  BY DEF Put
<1>3. TypeOK'
  <2>1. DOMAIN rx' \subseteq Descs /\ rx' \in [DOMAIN rx' -> State]
    BY <1>2 DEF Inv, TypeOK
  <2>2. handling' \in DOMAIN rx' \cup {NoDesc}
    BY <1>2
  <2> QED
    BY <2>1, <2>2 DEF Inv, TypeOK, Idle
<1>4. ChainMatchesLength'
  <2> SUFFICES ASSUME NEW e \in DOMAIN rx'
               PROVE  IF e = handling' THEN rx'[e].blocks = {} ELSE ChainFits(rx'[e])
    BY DEF ChainMatchesLength, ChainFits, Fitting, Room
  <2>1. CASE e = d
    BY <2>1, <1>2
  <2>2. CASE e # d
    <3>1. e \in DOMAIN rx /\ rx'[e] = rx[e]
      BY <2>2, <1>2
    <3>2. e # NoDesc
      BY <3>1, NodeAssumption DEF Inv, TypeOK, NodeAssumption
    <3>3. e # handling /\ e # handling'
      BY <2>2, <3>2
    <3> QED
      BY <3>1, <3>3 DEF Inv, ChainMatchesLength
  <2> QED
    BY <2>1, <2>2
<1> QED
  BY <1>1, <1>3, <1>4 DEF Inv

-----------------------------------------------------------------------------
(* canardHandleRxFrame *)

LEMMA RestartInTheMiddleStep ==
    ASSUME Inv, Idle, NEW f \in Frame, RestartInTheMiddle(f)
    PROVE  Inv'
<1> DEFINE st == SkipTransfer(rx[f.desc], f)
<1>1. PICK b \in Block : b = rx[f.desc].block
  BY DEF RestartInTheMiddle, Known, Inv, TypeOK, State
<1>2. /\ Opens(f, b) /\ Base(f, b) = rx[f.desc] /\ Taken(f, b) = {}
      /\ f.desc \in DOMAIN rx
  BY <1>1 DEF RestartInTheMiddle, Opens, Known, Base, Taken
<1>3. /\ f.desc \in Descs /\ f.desc # NoDesc /\ payload = {}
      /\ rx[f.desc] \in State
      /\ Held(f.desc) = {b} \cup rx[f.desc].blocks
      /\ b \notin free /\ b \notin rx[f.desc].blocks
      /\ rx[f.desc].blocks \subseteq Block \ free
  BY <1>2, FrameFacts
<1>4. st \in State /\ st.block = b /\ st.blocks = {} /\ st.len = 0
  <2>1. now \in Nat
    BY DEF Inv, TypeOK
  <2>2. st \in State
    BY <2>1, <1>3, StateUpdates
  <2> QED
    BY <2>2, <1>1, <1>3 DEF SkipTransfer, Restarted, Released, State
<1>5. ChainFits(st)
  BY <1>4, EmptyFits
<1>6. /\ rx' = Put(f.desc, st) /\ GiveBack(rx[f.desc].blocks)
      /\ UNCHANGED <<local, tx, handling, payload, now>>
  BY DEF RestartInTheMiddle
<1>7. /\ StatisticsExact'
      /\ free' \in SUBSET Block /\ usage' \in Int /\ peak' \in Int
      /\ free' = free \cup rx[f.desc].blocks
  BY <1>3, <1>6, GiveBackCount DEF Inv
<1> HIDE DEF st
<1> QED
  BY <1>3, <1>4, <1>5, <1>6, <1>7, HandlerStep DEF Idle

LEMMA RejectStep ==
    ASSUME Inv, Idle, NEW f \in Frame, NEW b \in Block, Reject(f, b)
    PROVE  Inv'
<1> DEFINE st == Current(f, b)
<1>1. /\ Opens(f, b) /\ rx' = Put(f.desc, st)
      /\ Exchange(Dropped(f, b), Taken(f, b))
      /\ UNCHANGED <<local, tx, handling, payload, now>>
  BY DEF Reject, Expected
<1>2. /\ StatisticsExact'
      /\ free' \in SUBSET Block /\ usage' \in Int /\ peak' \in Int
      /\ free' = (free \cup Dropped(f, b)) \ Taken(f, b)
  BY <1>1, FrameFacts, ExchangeCount DEF Inv
<1>3. /\ f.desc \in Descs /\ f.desc # NoDesc /\ payload = {}
      /\ st \in State /\ st.block = b
      /\ ChainFits(st)
  BY <1>1, FrameFacts
<1>4. /\ free \cup Held(f.desc) = free' \cup st.blocks \cup {b}
      /\ free' \cap st.blocks = {}
      /\ b \notin free' \cup st.blocks
  BY <1>1, <1>2, FrameFacts
<1> HIDE DEF st
<1> QED
  BY <1>1, <1>2, <1>3, <1>4, HandlerStep DEF Idle

(* A frame that ends a transfer and hands the blocks `middle' to the callback. *)
LEMMA ReceptionStep ==
    ASSUME Inv, Idle, NEW f \in Frame, NEW b \in Block, Opens(f, b),
           NEW st \in State, NEW middle \in SUBSET Block,
           OnReception(f, b, st, middle),
           st.block = b, st.blocks = {}, middle = Current(f, b).blocks
    PROVE  Inv'
<1>1. /\ rx' = Put(f.desc, st) /\ handling' = f.desc /\ payload' = middle
      /\ Exchange(Dropped(f, b), Taken(f, b))
      /\ UNCHANGED <<local, tx, now>>
  BY DEF OnReception
<1>2. /\ StatisticsExact'
      /\ free' \in SUBSET Block /\ usage' \in Int /\ peak' \in Int
      /\ free' = (free \cup Dropped(f, b)) \ Taken(f, b)
  BY <1>1, FrameFacts, ExchangeCount DEF Inv
<1>3. /\ f.desc \in Descs /\ f.desc # NoDesc /\ payload = {}
  BY FrameFacts
<1>4. /\ free \cup Held(f.desc) = free' \cup middle \cup {b}
      /\ free' \cap middle = {}
      /\ b \notin free' \cup middle
  BY <1>2, FrameFacts
<1> QED
  BY <1>1, <1>2, <1>3, <1>4, HandlerStep DEF Idle

LEMMA SingleFrameStep ==
    ASSUME Inv, Idle, NEW f \in Frame, NEW b \in Block, SingleFrame(f, b)
    PROVE  Inv'
<1> DEFINE st == [Current(f, b) EXCEPT !.timestamp = now, !.heard = now]
<1>1. Opens(f, b) /\ f.sot /\ f.iface = Current(f, b).iface /\ OnReception(f, b, st, {})
  BY DEF SingleFrame, Expected
<1>2. Current(f, b).blocks = {}
  BY <1>1, FrameFacts
<1>3. st \in State /\ st.block = b /\ st.blocks = {}
  <2>1. Current(f, b) \in State /\ Current(f, b).block = b /\ now \in Nat
    BY <1>1, FrameFacts DEF Inv, TypeOK
  <2> QED
    BY <2>1, <1>2 DEF State
<1> HIDE DEF st
<1> QED
  BY <1>1, <1>2, <1>3, ReceptionStep

LEMMA EndOfTransferFacts ==
    ASSUME Inv, Idle, NEW f \in Frame, NEW b \in Block, EndOfTransfer(f, b)
    PROVE  /\ Opens(f, b) /\ Known(f) /\ Dropped(f, b) = {} /\ Taken(f, b) = {}
           /\ Current(f, b) = Base(f, b)
<1>1. Opens(f, b) /\ ~f.sot /\ ~Restarts(f, b)
  BY DEF EndOfTransfer, Matches, Expected
<1>2. Known(f)
  BY <1>1 DEF Opens
<1> QED
  BY <1>1, <1>2, FrameFacts DEF Dropped, Taken

LEMMA EndGoodStep ==
    ASSUME Inv, Idle, NEW f \in Frame, NEW b \in Block, EndGood(f, b)
    PROVE  Inv'
<1> DEFINE st == [Current(f, b) EXCEPT !.blocks = {}]
<1>1. Opens(f, b) /\ OnReception(f, b, st, Current(f, b).blocks)
  BY EndOfTransferFacts DEF EndGood
<1>2. Current(f, b) \in State /\ Current(f, b).block = b
  BY <1>1, FrameFacts
<1>3. /\ st \in State /\ st.block = b /\ st.blocks = {}
      /\ Current(f, b).blocks \in SUBSET Block
  BY <1>2 DEF State
<1> HIDE DEF st
<1> QED
  BY <1>1, <1>3, ReceptionStep

LEMMA EndBadCrcStep ==
    ASSUME Inv, Idle, NEW f \in Frame, NEW b \in Block, EndBadCrc(f, b)
    PROVE  Inv'
<1> DEFINE st == PreparedForNext([Current(f, b) EXCEPT !.blocks = {}])
<1>1. /\ Opens(f, b) /\ Dropped(f, b) = {} /\ Taken(f, b) = {}
      /\ rx' = Put(f.desc, st) /\ GiveBack(Current(f, b).blocks)
      /\ UNCHANGED <<local, tx, handling, payload, now>>
  BY EndOfTransferFacts DEF EndBadCrc
<1>2. /\ Current(f, b) \in State /\ Current(f, b).block = b
      /\ f.desc \in Descs /\ f.desc # NoDesc /\ payload = {}
      /\ Current(f, b).blocks \in SUBSET Block
      /\ Current(f, b).blocks \cap free = {}
      /\ Held(f.desc) = {b} \cup Current(f, b).blocks
      /\ b \notin free \cup Current(f, b).blocks
  BY <1>1, FrameFacts
<1>3. st \in State /\ st.block = b /\ st.blocks = {} /\ st.len = 0
  <2>1. [Current(f, b) EXCEPT !.blocks = {}] \in State /\ now \in Nat
    BY <1>2 DEF State, Inv, TypeOK
  <2>2. st \in State
    BY <2>1, StateUpdates
  <2> QED
    BY <2>2, <1>2 DEF PreparedForNext, State
<1>4. /\ StatisticsExact'
      /\ free' \in SUBSET Block /\ usage' \in Int /\ peak' \in Int
      /\ free' = free \cup Current(f, b).blocks
  BY <1>1, <1>2, GiveBackCount DEF Inv
<1>5. ChainFits(st)
  BY <1>3, EmptyFits
<1> HIDE DEF st
<1> QED
  BY <1>1, <1>2, <1>3, <1>4, <1>5, HandlerStep DEF Idle

LEMMA Division ==
    ASSUME NEW x \in Int, NEW d \in Nat \ {0}
    PROVE  /\ x \div d \in Int
           /\ d * (x \div d) <= x /\ x < d * (x \div d) + d
           /\ x % d = x - d * (x \div d)
OBVIOUS

LEMMA Quotient ==
    ASSUME NEW x \in Int, NEW d \in Nat \ {0}, NEW q \in Int,
           d * q <= x, x < d * q + d
    PROVE  x \div d = q /\ x % d = x - d * q
<1> DEFINE r == x \div d
<1>1. r \in Int /\ d * r <= x /\ x < d * r + d /\ x % d = x - d * r
  BY Division
<1> HIDE DEF r
<1>2. d * (q - r) < d /\ d * (r - q) < d
  BY <1>1
<1>3. q - r < 1
  BY <1>1, <1>2
<1>4. r - q < 1
  BY <1>1, <1>2
<1>5. r = q
  BY <1>1, <1>3, <1>4
<1> QED
  BY <1>1, <1>5 DEF r

LEMMA RoomNext ==
    ASSUME NEW n \in Int
    PROVE  Room(n) \in Int /\ Room(n + 1) = Room(n) + BlockSize
BY SessionAssumption DEF Room, SessionAssumption

(* The loop of bufferBlockPushBytes writes `rest' bytes from byte `index' of the last    *)
(* block on, which begins at Room(m): the blocks it takes are those that it needs.   *)
LEMMA LoopTakes ==
    ASSUME NEW m \in Int, NEW index \in 0 .. BlockSize - 1, NEW rest \in Nat \ {0},
           NEW q, q = (index + rest - 1) \div BlockSize
    PROVE  /\ q \in Nat
           /\ Room(m + q) < Room(m) + index + rest
           /\ Room(m) + index + rest <= Room(m + q + 1)
<1>1. BlockSize \in Nat \ {0} /\ HeadSize \in Nat
  BY SessionAssumption DEF SessionAssumption
<1> DEFINE x == index + rest - 1
<1>2. x \in Nat
  BY <1>1
<1>3. q \in Int /\ BlockSize * q <= x /\ x < BlockSize * q + BlockSize
  BY <1>1, <1>2, Division
<1>4. BlockSize * (q + 1) = BlockSize * q + BlockSize
  BY <1>1, <1>3
<1>5. q + 1 > 0
  <2> SUFFICES ASSUME q + 1 <= 0 PROVE FALSE
    BY <1>3
  <2>1. BlockSize * (q + 1) <= 0
    BY <1>1, <1>3
  <2> QED
    BY <1>1, <1>2, <1>3, <1>4, <2>1
<1>6. Room(m + q) = Room(m) + BlockSize * q /\ Room(m) \in Int
  BY <1>1, <1>3 DEF Room
<1>7. Room(m + q + 1) = Room(m) + BlockSize * q + BlockSize
  BY <1>1, <1>3 DEF Room
<1>8. BlockSize * q \in Int
  BY <1>1, <1>3
<1> QED
  BY <1>1, <1>3, <1>5, <1>6, <1>7, <1>8

(* The byte at which a payload of len bytes ends, in the block that begins at Room(m). *)
LEMMA IndexIs ==
    ASSUME NEW m \in Nat, NEW index \in 0 .. BlockSize - 1, NEW len \in Int,
           len = Room(m) + index
    PROVE  (len - HeadSize) % BlockSize = index /\ (len - HeadSize) \div BlockSize = m
<1>1. BlockSize \in Nat \ {0} /\ HeadSize \in Nat
  BY SessionAssumption DEF SessionAssumption
<1> DEFINE p == BlockSize * m
<1>2. p \in Int /\ len - HeadSize = p + index
  BY <1>1 DEF Room
<1>3. BlockSize * m <= len - HeadSize /\ len - HeadSize < BlockSize * m + BlockSize
  BY <1>1, <1>2
<1>4. /\ (len - HeadSize) \div BlockSize = m
      /\ (len - HeadSize) % BlockSize = len - HeadSize - BlockSize * m
  BY <1>1, <1>3, Quotient
<1> QED
  BY <1>1, <1>2, <1>4

(* bufferBlockPushBytes keeps the chain right. *)
LEMMA PushedFits ==
    ASSUME NEW n \in Nat, NEW len \in Nat, NEW k \in Nat, Fitting(n, len),
           k = 0 => 0 \in Bytes,
           k >= BlockSize => \E bytes \in Bytes : bytes >= BlockSize
    PROVE  /\ BlocksAfter(n, len, k) \in Nat /\ BlocksAfter(n, len, k) >= n
           /\ Fitting(BlocksAfter(n, len, k), len + k)
<1> DEFINE long == \E bytes \in Bytes : bytes >= BlockSize
           next == BlocksAfter(n, len, k)
<1> SUFFICES next \in Nat /\ next >= n /\ Fitting(next, len + k)
  OBVIOUS
<1> HIDE DEF next
<1>1. BlockSize \in Nat \ {0} /\ HeadSize \in Nat
  BY SessionAssumption DEF SessionAssumption
<1>2. /\ \A i \in Int : Room(i) \in Int /\ Room(i + 1) = Room(i) + BlockSize
      /\ Room(0) = HeadSize
  BY <1>1, RoomNext DEF Room
<1>3. n > 0 => len >= HeadSize
  <2> SUFFICES ASSUME n > 0, len < HeadSize PROVE FALSE
    BY <1>1
  <2>1. \A i \in Nat : i * BlockSize >= 0
    BY <1>1
  <2>2. \A i \in Nat : HeadSize <= Room(i)
    BY <1>1, <2>1 DEF Room
  <2>3. n - 1 \in Nat /\ (n > 1 => n - 2 \in Nat)
    OBVIOUS
  <2>4. HeadSize <= Room(n - 1) /\ (n > 1 => HeadSize <= Room(n - 2))
    BY <2>2, <2>3
  <2>5. Room(n - 1) \in Int /\ Room(n - 2) \in Int
    BY <1>2
  <2> QED
    BY <1>1, <2>4, <2>5 DEF Fitting
<1>4. CASE StaysInHead(len, k)
  <2>1. next = n
    BY <1>4 DEF BlocksAfter, next
  <2>2. CASE k = 0
    BY <2>1, <2>2
  <2>3. CASE k # 0
    <3>1. len + k <= HeadSize /\ len < HeadSize /\ n = 0
      BY <1>1, <1>3, <1>4, <2>3 DEF StaysInHead
    <3> QED
      BY <1>1, <1>2, <2>1, <3>1 DEF Fitting
  <2> QED
    BY <2>2, <2>3
<1>5. CASE ~StaysInHead(len, k) /\ n = 0
  <2> DEFINE rest == len + k - HeadSize
             q == (0 + rest - 1) \div BlockSize
  <2>1. rest \in Nat /\ len <= HeadSize /\ (rest = 0 => k = 0)
    BY <1>1, <1>2, <1>5 DEF StaysInHead, Fitting
  <2>2. ForBlocks(len, k) = rest /\ IndexAtNthBlock(n, len) = 0
    BY <1>1, <1>5, <2>1 DEF ForBlocks, IndexAtNthBlock
  <2>3. OpensBlock(n, len, k)
    <3>1. rest \div BlockSize \in Nat
      BY <1>1, <2>1
    <3>2. rest \div BlockSize + 1 > n
      BY <1>5, <3>1
    <3> QED
      BY <2>2, <3>2 DEF OpensBlock
  <2>4. next = 1 + (IF rest = 0 THEN 0 ELSE q)
    BY <1>5, <2>2, <2>3 DEF BlocksAfter, next
  <2> HIDE DEF q
  <2>5. CASE rest = 0
    <3>1. next = 1 /\ len + k = HeadSize /\ 0 \in Bytes
      BY <1>1, <2>1, <2>4, <2>5
    <3> QED
      BY <1>1, <1>2, <1>5, <3>1 DEF Fitting
  <2>6. CASE rest # 0
    <3>1. /\ rest \in Nat \ {0} /\ 0 \in Int /\ 0 \in 0 .. BlockSize - 1
          /\ q = (0 + rest - 1) \div BlockSize
      BY <1>1, <2>1, <2>6 DEF q
    <3> HIDE DEF rest
    <3>2. /\ q \in Nat /\ Room(0 + q) < Room(0) + 0 + rest
          /\ Room(0) + 0 + rest <= Room(0 + q + 1)
      BY <3>1, LoopTakes, Zenon
    <3>3. next = q + 1 /\ next \in Nat /\ next - 1 = q
      BY <2>4, <2>6, <3>2
    <3>4. Room(0) + 0 + rest = len + k
      BY <1>1, <1>2, <2>1 DEF rest
    <3>5. len + k <= Room(next) /\ len + k > Room(next - 1)
      BY <3>2, <3>3, <3>4
    <3> QED
      BY <1>5, <3>3, <3>5 DEF Fitting
  <2> QED
    BY <2>5, <2>6
<1>6. CASE ~StaysInHead(len, k) /\ n > 0
  <2> DEFINE q(index) == (index + k - 1) \div BlockSize
  <2>1. ForBlocks(len, k) = k /\ IndexAtNthBlock(n, len) = (len - HeadSize) % BlockSize
    BY <1>1, <1>3, <1>6 DEF ForBlocks, IndexAtNthBlock
  <2>2. k = 0 => len = HeadSize
    BY <1>6 DEF StaysInHead
  (* What the next chain is, when the payload ends in the block that begins at Room(m). *)
  <2>3. ASSUME NEW m \in Nat, NEW index \in 0 .. BlockSize - 1, len = Room(m) + index
        PROVE  /\ k > 0 => /\ q(index) \in Nat
                           /\ Room(m + q(index)) < len + k
                           /\ len + k <= Room(m + q(index) + 1)
               /\ next = (IF OpensBlock(n, len, k) THEN n + 1 ELSE n)
                         + (IF k = 0 THEN 0 ELSE q(index))
               /\ OpensBlock(n, len, k)
                     <=> index = 0 /\ m + (k \div BlockSize) + 1 > n
    <3>1. (len - HeadSize) % BlockSize = index
      BY <2>3, IndexIs
    <3>2. k > 0 => /\ q(index) \in Nat
                   /\ Room(m + q(index)) < Room(m) + index + k
                   /\ Room(m) + index + k <= Room(m + q(index) + 1)
      <4> SUFFICES ASSUME k > 0
                   PROVE  /\ q(index) \in Nat
                          /\ Room(m + q(index)) < Room(m) + index + k
                          /\ Room(m) + index + k <= Room(m + q(index) + 1)
        OBVIOUS
      <4>1. k \in Nat \ {0} /\ m \in Int
        OBVIOUS
      <4> QED
        BY <4>1, LoopTakes
    <3>3. next = (IF OpensBlock(n, len, k) THEN n + 1 ELSE n)
                 + (IF k = 0 THEN 0 ELSE q(index))
      BY <1>6, <2>1, <3>1 DEF BlocksAfter, next
    <3>4. index = 0 => (len + k - HeadSize) \div BlockSize = m + (k \div BlockSize)
      <4> DEFINE j == k \div BlockSize
      <4>1. j \in Int /\ BlockSize * j <= k /\ k < BlockSize * j + BlockSize
        BY <1>1, Division
      <4> HIDE DEF j
      <4>2. BlockSize * (m + j) = m * BlockSize + BlockSize * j
        BY <1>1, <4>1
      <4>3. m * BlockSize \in Int /\ BlockSize * j \in Int
        BY <1>1, <4>1
      <4> SUFFICES ASSUME index = 0 PROVE (len + k - HeadSize) \div BlockSize = m + j
        BY DEF j
      <4>4. len + k - HeadSize = m * BlockSize + k
        BY <1>1, <2>3, <4>3 DEF Room
      <4>5. /\ BlockSize * (m + j) <= len + k - HeadSize
            /\ len + k - HeadSize < BlockSize * (m + j) + BlockSize
            /\ m + j \in Int /\ len + k - HeadSize \in Int
        BY <1>1, <4>1, <4>2, <4>3, <4>4
      <4> QED
        BY <1>1, <4>5, Quotient
    <3> QED
      BY <2>1, <2>3, <3>1, <3>2, <3>3, <3>4 DEF OpensBlock
  <2> HIDE DEF q
  <2>4. k \div BlockSize \in Nat /\ (k \div BlockSize > 0 <=> k >= BlockSize)
    <3> DEFINE j == k \div BlockSize
    <3>1. j \in Int /\ BlockSize * j <= k /\ k < BlockSize * j + BlockSize
      BY <1>1, Division
    <3> HIDE DEF j
    <3>2. j >= 1 => BlockSize * j >= BlockSize
      BY <1>1, <3>1
    <3>3. j <= 0 => BlockSize * j <= 0
      BY <1>1, <3>1
    <3>4. j <= -1 => BlockSize * j <= -BlockSize
      BY <1>1, <3>1
    <3>5. BlockSize * j \in Int
      BY <1>1, <3>1
    <3> QED
      BY <1>1, <3>1, <3>2, <3>3, <3>4, <3>5 DEF j
  <2>5. \A i \in Int : /\ Room(i) \in Int /\ Room(i + 1) = Room(i) + BlockSize
                       /\ Room(i - 1) \in Int /\ Room(i) = Room(i - 1) + BlockSize
    BY <1>1, RoomNext DEF Room
  <2>6. CASE len > Room(n - 1)
    <3>1. len <= Room(n) /\ n - 1 \in Nat
      BY <1>6 DEF Fitting
    <3>2. k > 0
      <4>1. Room(n - 1) >= HeadSize
        <5>1. (n - 1) * BlockSize >= 0
          BY <1>1, <3>1
        <5> QED
          BY <1>1, <3>1, <5>1 DEF Room
      <4> QED
        BY <1>1, <2>2, <2>5, <2>6, <4>1
    <3>3. CASE len = Room(n)
      <4>1. len = Room(n) + 0 /\ 0 \in 0 .. BlockSize - 1
        BY <1>1, <3>3
      <4>2. /\ q(0) \in Nat /\ Room(n + q(0)) < len + k
            /\ len + k <= Room(n + q(0) + 1) /\ next = n + 1 + q(0)
        BY <2>3, <2>4, <3>2, <4>1
      <4>3. next \in Nat /\ next - 1 = n + q(0) /\ next >= n /\ next = n + q(0) + 1
        BY <4>2
      <4> QED
        BY <4>2, <4>3 DEF Fitting
    <3>4. CASE len # Room(n)
      <4> DEFINE index == len - Room(n - 1)
      <4>0. Room(n - 1) \in Int /\ Room(n) = Room(n - 1) + BlockSize
        BY <2>5
      <4>1. len = Room(n - 1) + index /\ index \in 0 .. BlockSize - 1 /\ index # 0
        BY <1>1, <4>0, <2>6, <3>1, <3>4
      <4> HIDE DEF index
      <4>2. /\ q(index) \in Nat /\ Room(n - 1 + q(index)) < len + k
            /\ len + k <= Room(n - 1 + q(index) + 1) /\ next = n + q(index)
        BY <2>3, <3>1, <3>2, <4>1
      <4>3. /\ next \in Nat /\ next - 1 = n - 1 + q(index) /\ next >= n
            /\ next = n - 1 + q(index) + 1
        BY <4>2
      <4> QED
        BY <4>2, <4>3 DEF Fitting
    <3> QED
      BY <3>3, <3>4
  <2>7. CASE ~(len > Room(n - 1))
    <3> DEFINE m == n - 1
    <3>1. /\ m \in Nat /\ len <= Room(m) /\ 0 \in Bytes
          /\ (m = 0 /\ len = HeadSize) \/ (long /\ m > 0 /\ len > Room(m - 1))
      <4>1. n - 2 = m - 1 /\ n = m + 1
        OBVIOUS
      <4>2. \/ 0 \in Bytes /\ n = 1 /\ len = HeadSize
            \/ 0 \in Bytes /\ long /\ n > 1 /\ len > Room(m - 1)
        BY <1>6, <2>7, <4>1 DEF Fitting
      <4> HIDE DEF long
      <4>3. CASE 0 \in Bytes /\ n = 1 /\ len = HeadSize
        BY <1>1, <1>2, <4>3
      <4>4. CASE 0 \in Bytes /\ long /\ n > 1 /\ len > Room(m - 1)
        <5>1. ~(len > Room(m)) /\ Room(m) \in Int
          BY <2>5, <2>7
        <5> QED
          BY <4>4, <5>1
      <4> QED
        BY <4>2, <4>3, <4>4
    <3>2. CASE len = Room(m)
      <4>1. len = Room(m) + 0 /\ 0 \in 0 .. BlockSize - 1
        BY <1>1, <2>5, <3>1, <3>2
      <4>2. CASE k >= BlockSize
        <5>1. /\ q(0) \in Nat /\ Room(m + q(0)) < len + k
              /\ len + k <= Room(m + q(0) + 1) /\ next = n + 1 + q(0)
          BY <1>1, <2>3, <2>4, <3>1, <4>1, <4>2
        <5>2. /\ next \in Nat /\ next - 2 = m + q(0) /\ next >= n /\ next > 1
              /\ next = m + q(0) + 1 + 1
          BY <1>6, <3>1, <5>1
        <5>3. len + k <= Room(next)
          <6>1. m + q(0) + 1 \in Int
            BY <3>1, <5>1
          <6> QED
            BY <1>1, <2>5, <5>1, <5>2, <6>1
        <5>4. long
          BY <4>2
        <5> QED
          BY <3>1, <5>1, <5>2, <5>3, <5>4 DEF Fitting
      <4>3. CASE k < BlockSize /\ k > 0
        <5>1. q(0) = 0
          <6> DEFINE x == 0 + k - 1
          <6>1. x \in Int /\ BlockSize * 0 <= x /\ x < BlockSize * 0 + BlockSize
            BY <1>1, <4>3
          <6> HIDE DEF x
          <6>2. x \div BlockSize = 0
            BY <1>1, <6>1, Quotient
          <6> QED
            BY <6>2 DEF q, x
        <5>2. k \div BlockSize = 0
          BY <1>1, <2>4, <4>3
        <5>3. /\ Room(m + 0) < len + k /\ len + k <= Room(m + 0 + 1) /\ next = n + 0
          BY <2>3, <3>1, <4>1, <4>3, <5>1, <5>2
        <5>4. m + 0 = n - 1 /\ m + 0 + 1 = n /\ next = n
          BY <5>3
        <5> QED
          BY <5>3, <5>4 DEF Fitting
      <4>4. CASE k = 0
        <5>1. k \div BlockSize = 0
          BY <1>1, <2>4, <4>4
        <5>2. next = n
          BY <2>3, <3>1, <4>1, <4>4, <5>1
        <5> QED
          BY <4>4, <5>2
      <4> QED
        BY <1>1, <4>2, <4>3, <4>4
    <3>3. CASE len # Room(m)
      <4> DEFINE index == len - Room(m - 1)
      <4>1. /\ m > 0 /\ long /\ m - 1 \in Nat
            /\ len = Room(m - 1) + index /\ index \in 0 .. BlockSize - 1 /\ index # 0
        <5>1. /\ m > 0 /\ long /\ len > Room(m - 1) /\ len < Room(m)
          <6>1. ~(m = 0 /\ len = HeadSize)
            BY <1>2, <3>3
          <6>2. Room(m) \in Int
            BY <2>5, <3>1
          <6>3. len < Room(m)
            BY <3>1, <3>3, <6>2
          <6> HIDE DEF long
          <6> QED
            BY <3>1, <6>1, <6>3
        <5>2. Room(m - 1) \in Int /\ Room(m) = Room(m - 1) + BlockSize
          BY <2>5, <3>1
        <5> QED
          BY <1>1, <3>1, <5>1, <5>2
      <4>2. k > 0
        <5>1. Room(m - 1) >= HeadSize
          <6>1. (m - 1) * BlockSize >= 0
            BY <1>1, <4>1
          <6> QED
            BY <1>1, <4>1, <6>1 DEF Room
        <5> QED
          BY <1>1, <2>2, <2>5, <4>1, <5>1
      <4> HIDE DEF index
      <4>3. /\ q(index) \in Nat /\ Room(m - 1 + q(index)) < len + k
            /\ len + k <= Room(m - 1 + q(index) + 1) /\ next = n + q(index)
        BY <2>3, <4>1, <4>2
      <4>4. /\ next \in Nat /\ next - 2 = m - 1 + q(index) /\ next >= n /\ next > 1
            /\ next = m - 1 + q(index) + 1 + 1
        BY <4>1, <4>3
      <4>5. len + k <= Room(next)
        <5>1. m - 1 + q(index) + 1 \in Int
          BY <4>1, <4>3
        <5> QED
          BY <1>1, <2>5, <4>3, <4>4, <5>1
      <4> QED
        BY <3>1, <4>1, <4>3, <4>4, <4>5 DEF Fitting
    <3> QED
      BY <3>2, <3>3
  <2> QED
    BY <2>6, <2>7
<1> QED
  BY <1>4, <1>5, <1>6

LEMMA PushStep ==
    ASSUME Inv, Idle, NEW f \in Frame, NEW b \in Block, Push(f, b)
    PROVE  Inv'
<1>1. PICK new \in SUBSET Available(f, b) :
          /\ Cardinality(new) = Needed(f, b)
          /\ rx' = Put(f.desc, Pushed(f, b, new))
          /\ Exchange(Dropped(f, b), Taken(f, b) \cup new)
  BY DEF Push
<1> DEFINE pushed == [Current(f, b) EXCEPT
                !.timestamp = IF f.sot THEN now ELSE @, !.heard = now,
                !.len = Lengthened(LenBefore(f, b), Carried(f)),
                !.wrapped = (@ /\ ~f.sot) \/ LenBefore(f, b) + Carried(f) >= LenMod,
                !.blocks = @ \cup new]
           st == Pushed(f, b, new)
<1>0. st = Toggled(pushed)
  BY DEF Pushed
<1>2. /\ Opens(f, b) /\ ~Short(f) /\ f.iface = Current(f, b).iface
      /\ UNCHANGED <<local, tx, handling, payload, now>>
  BY DEF Push, Stores, Matches, Expected
<1>3. /\ Current(f, b) \in State /\ Current(f, b).block = b
      /\ f.desc \in Descs /\ f.desc # NoDesc /\ payload = {}
      /\ ChainFits(Current(f, b))
      /\ f.sot => Current(f, b).blocks = {}
  BY <1>2, FrameFacts
<1>4. /\ LenBefore(f, b) \in Nat /\ Carried(f) \in Nat
      /\ Carried(f) = 0 => 0 \in Bytes
      /\ Carried(f) >= BlockSize => \E bytes \in Bytes : bytes >= BlockSize
      /\ Lengthened(LenBefore(f, b), Carried(f)) \in 0 .. LenMod - 1
      /\ LenBefore(f, b) + Carried(f) < LenMod =>
            Lengthened(LenBefore(f, b), Carried(f)) = LenBefore(f, b) + Carried(f)
  <2>0. /\ BlockSize \in Nat /\ LenMod \in Nat \ {0}
        /\ f.bytes \in Bytes /\ Current(f, b).len \in 0 .. LenMod - 1
    BY <1>3, NoBytes, SessionAssumption DEF Frame, State, SessionAssumption
  <2>1. /\ f.bytes \in Nat /\ f.bytes \in Bytes /\ Current(f, b).len \in Nat
        /\ BlockSize \in Nat /\ LenMod \in Nat \ {0}
    <3>1. f.bytes \in Nat
      BY <2>0, NodeAssumption DEF NodeAssumption
    <3>2. Current(f, b).len \in Nat
      BY <2>0
    <3> QED
      BY <2>0, <3>1, <3>2
  <2>2. LenBefore(f, b) \in Nat
    BY <2>1 DEF LenBefore
  <2>3. Carried(f) \in Nat /\ (Carried(f) = 0 => f.bytes = 0) /\ Carried(f) <= f.bytes
    BY <1>2, <2>1 DEF Carried, Short
  <2>4. Carried(f) >= BlockSize => f.bytes >= BlockSize
    BY <2>1, <2>3
  <2> DEFINE sum == LenBefore(f, b) + Carried(f)
  <2>5. sum \in Nat
    BY <2>2, <2>3
  <2> HIDE DEF sum
  <2>6. sum % LenMod \in 0 .. LenMod - 1 /\ (sum < LenMod => sum % LenMod = sum)
    BY <2>1, <2>5
  <2> QED
    BY <2>1, <2>2, <2>3, <2>4, <2>6 DEF Lengthened, sum
<1>5. /\ new \in SUBSET Block
      /\ new \cap Current(f, b).blocks = {}
      /\ new \cap Taken(f, b) = {}
      /\ Taken(f, b) \cup new \in SUBSET (free \cup Dropped(f, b))
      /\ b \notin new
      /\ Dropped(f, b) \in SUBSET Block /\ Dropped(f, b) \cap free = {}
  BY <1>2, FrameFacts DEF Available, Inv, TypeOK
<1>6. pushed \in State
  <2>1. now \in Nat /\ Current(f, b).blocks \cup new \in SUBSET Block
    BY <1>3, <1>5 DEF Inv, TypeOK, State
  <2> QED
    BY <2>1, <1>3, <1>4 DEF State
<1>7. /\ st \in State /\ st.block = b
      /\ st.blocks = Current(f, b).blocks \cup new
      /\ st.len = Lengthened(LenBefore(f, b), Carried(f))
      /\ st.wrapped = ((Current(f, b).wrapped /\ ~f.sot)
                          \/ LenBefore(f, b) + Carried(f) >= LenMod)
  <2>1. now \in Nat
    BY DEF Inv, TypeOK
  <2>2. st \in State
    BY <2>1, <1>0, <1>6, StateUpdates
  <2> HIDE DEF st
  <2> QED
    BY <2>2, <1>0, <1>3 DEF Toggled, State
<1>8. ChainFits(st)
  <2> SUFFICES ASSUME ~st.wrapped PROVE Fitting(Cardinality(st.blocks), st.len)
    BY DEF ChainFits
  <2>1. /\ IsFiniteSet(Current(f, b).blocks) /\ IsFiniteSet(new)
        /\ Cardinality(Current(f, b).blocks) \in Nat /\ Cardinality(new) \in Nat
    BY <1>3, <1>5, BlocksFinite DEF State
  <2>2. Cardinality(Current(f, b).blocks \cap new) = 0
    <3>1. Current(f, b).blocks \cap new = {}
      BY <1>5
    <3> QED
      BY <3>1, FS_EmptySet
  <2>3. Cardinality(Current(f, b).blocks \cup new)
            = Cardinality(Current(f, b).blocks) + Cardinality(new)
              - Cardinality(Current(f, b).blocks \cap new)
    BY <2>1, FS_Union
  <2>4. Fitting(Chain(f, b), LenBefore(f, b))
    <3>1. CASE f.sot
      <4>1. Current(f, b).blocks = {} /\ LenBefore(f, b) = 0
        BY <1>3, <3>1 DEF LenBefore
      <4>2. Chain(f, b) = 0
        BY <4>1, FS_EmptySet DEF Chain
      <4> QED
        BY <4>1, <4>2, SessionAssumption DEF Fitting, Room, SessionAssumption
    <3>2. CASE ~f.sot
      <4>1. ~Current(f, b).wrapped
        BY <1>7, <3>2
      <4> QED
        BY <1>3, <3>2, <4>1 DEF ChainFits, Chain, LenBefore
    <3> QED
      BY <3>1, <3>2
  <2> DEFINE next == BlocksAfter(Chain(f, b), LenBefore(f, b), Carried(f))
  <2>5. next \in Nat /\ Fitting(next, LenBefore(f, b) + Carried(f))
    <3>1. Chain(f, b) \in Nat
      BY <2>1 DEF Chain
    <3> QED
      BY <1>4, <2>4, <3>1, PushedFits
  <2>6. Cardinality(new) = next - Chain(f, b)
    BY <1>1 DEF Needed
  <2> HIDE DEF next
  <2>7. Cardinality(Current(f, b).blocks \cup new) = next
    BY <2>1, <2>2, <2>3, <2>5, <2>6 DEF Chain
  <2>8. LenBefore(f, b) + Carried(f) < LenMod
    <3>1. ~(LenBefore(f, b) + Carried(f) >= LenMod)
      BY <1>7
    <3> QED
      BY <1>4, <3>1, SessionAssumption DEF SessionAssumption
  <2> HIDE DEF st
  <2> QED
    BY <1>4, <1>7, <2>5, <2>7, <2>8
<1>9. /\ StatisticsExact'
      /\ free' \in SUBSET Block /\ usage' \in Int /\ peak' \in Int
      /\ free' = (free \cup Dropped(f, b)) \ (Taken(f, b) \cup new)
  BY <1>1, <1>5, ExchangeCount DEF Inv
<1>10. /\ free \cup Held(f.desc) = free' \cup st.blocks \cup {b}
       /\ free' \cap st.blocks = {}
       /\ b \notin free' \cup st.blocks
  <2>1. /\ Taken(f, b) \subseteq free \cap {b}
        /\ b \notin free \ Taken(f, b)
        /\ Held(f.desc) \cup Taken(f, b) = {b} \cup Base(f, b).blocks
        /\ b \notin Base(f, b).blocks
        /\ Base(f, b).blocks \subseteq Block \ free
        /\ Dropped(f, b) \subseteq Base(f, b).blocks
        /\ Current(f, b).blocks = Base(f, b).blocks \ Dropped(f, b)
    BY <1>2, FrameFacts
  <2>2. new \subseteq (free \cup Dropped(f, b)) \ Taken(f, b)
    BY DEF Available
  <2> HIDE DEF st
  <2> QED
    BY <1>7, <1>9, <2>1, <2>2
<1>11. /\ rx' = Put(f.desc, st) /\ UNCHANGED <<local, tx, now>>
       /\ payload = {} /\ payload' = {} /\ handling = NoDesc /\ handling' = NoDesc
  BY <1>1, <1>2, <1>3 DEF Idle
<1> HIDE DEF st
<1>12. /\ free \cup payload \cup Held(f.desc)
              = free' \cup payload' \cup st.blocks \cup {st.block}
       /\ st.block \notin free' \cup payload' \cup st.blocks
       /\ free' \cap payload' = {}
       /\ (free' \cup payload') \cap st.blocks = {}
  BY <1>7, <1>10, <1>11
<1>13. IF f.desc = handling' THEN st.blocks = {} ELSE ChainFits(st)
  BY <1>3, <1>8, <1>11
<1> QED
  BY <1>3, <1>7, <1>9, <1>11, <1>12, <1>13, HandlerStep

LEMMA PushFailsStep ==
    ASSUME Inv, Idle, NEW f \in Frame, NEW b \in Block, PushFails(f, b)
    PROVE  Inv'
<1> DEFINE old == [Current(f, b) EXCEPT !.timestamp = IF f.sot THEN now ELSE @]
           st == PreparedForNext(Released(old))
<1>1. /\ Opens(f, b) /\ rx' = Put(f.desc, st)
      /\ PoolStep(Base(f, b).blocks, Taken(f, b), Capacity)
      /\ UNCHANGED <<local, tx, handling, payload, now>>
  BY DEF PushFails, Stores, Matches, Expected
<1>2. /\ Current(f, b) \in State /\ Current(f, b).block = b
      /\ f.desc \in Descs /\ f.desc # NoDesc /\ payload = {}
      /\ Taken(f, b) \subseteq free \cap {b}
      /\ b \notin free \ Taken(f, b)
      /\ Held(f.desc) \cup Taken(f, b) = {b} \cup Base(f, b).blocks
      /\ b \notin Base(f, b).blocks
      /\ Base(f, b).blocks \subseteq Block \ free
  BY <1>1, FrameFacts
<1>3. st \in State /\ st.block = b /\ st.blocks = {} /\ st.len = 0
  <2>1. now \in Nat
    BY DEF Inv, TypeOK
  <2>2. old \in State /\ old.block = b
    BY <1>2, <2>1 DEF State
  <2>3. Released(old) \in State /\ st \in State
    BY <2>1, <2>2, StateUpdates
  <2> HIDE DEF old
  <2> QED
    BY <2>2, <2>3 DEF PreparedForNext, Released, State
<1>4. ChainFits(st)
  BY <1>3, EmptyFits
<1>5. /\ StatisticsExact'
      /\ free' \in SUBSET Block /\ usage' \in Int /\ peak' \in Int
      /\ free' = (free \cup Base(f, b).blocks) \ Taken(f, b)
  <2> DEFINE in == Base(f, b).blocks
             out == Taken(f, b)
  <2>1. /\ free \in SUBSET Block /\ peak \in Int
        /\ usage = Cardinality(Block) - Cardinality(free)
    BY DEF Inv, TypeOK, StatisticsExact
  <2>2. /\ in \in SUBSET Block /\ in \cap free = {} /\ out \in SUBSET (free \cup in)
        /\ (free \cup in) \ out \in SUBSET Block
    BY <1>2, <2>1
  <2> HIDE DEF in, out
  <2>3. /\ Cardinality(in) \in Nat /\ Cardinality(out) \in Nat
        /\ Cardinality(free) \in Nat /\ Cardinality(Block) \in Nat
        /\ Cardinality((free \cup in) \ out) \in Nat
    BY <2>1, <2>2, BlocksFinite
  <2>4. Cardinality((free \cup in) \ out)
            = Cardinality(free) + Cardinality(in) - Cardinality(out)
    BY <2>1, <2>2, FreeCount
  <2>5. UsageAfter(in, out) <= Greater(peak, Capacity) /\ Capacity \in Int
        /\ Capacity <= Cardinality(Block)
    BY <2>1, <2>3, <2>4 DEF UsageAfter, Greater, Capacity
  <2>6. PoolStep(in, out, Capacity)
    BY <1>1 DEF in, out
  <2>7. /\ StatisticsExact'
        /\ free' \in SUBSET Block /\ usage' \in Int /\ peak' \in Int
    BY <2>2, <2>5, <2>6, PoolCount DEF Inv
  <2> QED
    BY <2>6, <2>7 DEF PoolStep, in, out
<1>6. /\ free \cup Held(f.desc) = free' \cup {b}
      /\ b \notin free'
  BY <1>2, <1>5
<1>7. /\ f.desc \in Descs /\ f.desc # NoDesc /\ payload = {} /\ payload' = {}
      /\ handling = NoDesc /\ handling' = NoDesc
      /\ rx' = Put(f.desc, st) /\ UNCHANGED <<local, tx, now>>
  BY <1>1, <1>2 DEF Idle
<1> HIDE DEF st
<1>8. /\ free \cup payload \cup Held(f.desc)
             = free' \cup payload' \cup st.blocks \cup {st.block}
      /\ st.block \notin free' \cup payload' \cup st.blocks
      /\ free' \cap payload' = {}
      /\ (free' \cup payload') \cap st.blocks = {}
  BY <1>3, <1>6, <1>7
<1>9. IF f.desc = handling' THEN st.blocks = {} ELSE ChainFits(st)
  BY <1>4, <1>7
<1> QED
  BY <1>3, <1>5, <1>7, <1>8, <1>9, HandlerStep

LEMMA StutterStep ==
    ASSUME Inv, UNCHANGED vars
    PROVE  Inv'
<1>1. ChainMatchesLength'
  BY DEF vars, Inv, ChainMatchesLength, ChainFits, Fitting, Room
<1> QED
  BY <1>1 DEF vars, Inv, TypeOK, OneOwner, NothingLeaks, StatisticsExact,
              StateBlocks, ChainBlocks, TxBlocks, Idle

LEMMA HandleRxFrameStep ==
    ASSUME Inv, NEW f \in Frame, HandleRxFrame(f)
    PROVE  Inv'
<1> USE DEF HandleRxFrame
<1>1. CASE Ignore(f)
  BY <1>1, StutterStep DEF Ignore
<1>2. CASE RestartInTheMiddle(f)
  BY <1>2, RestartInTheMiddleStep
<1>3. ASSUME NEW b \in Block,
             \/ SingleFrame(f, b) \/ Reject(f, b)
             \/ Push(f, b) \/ PushFails(f, b)
             \/ EndGood(f, b) \/ EndBadCrc(f, b)
      PROVE  Inv'
  BY <1>3, SingleFrameStep, RejectStep, PushStep, PushFailsStep, EndGoodStep,
     EndBadCrcStep
<1> QED
  BY <1>1, <1>2, <1>3

-----------------------------------------------------------------------------
(* The callback *)

LEMMA ReleasePayloadStep ==
    ASSUME Inv, ReleasePayload
    PROVE  Inv'
<1> DEFINE d == handling
           st == rx[handling]
<1>1. /\ d \in DOMAIN rx /\ d \in Descs /\ d # NoDesc /\ st \in State
      /\ payload \in SUBSET Block /\ payload' = {} /\ GiveBack(payload)
      /\ UNCHANGED <<local, rx, tx, handling, now>>
  BY NodeAssumption DEF ReleasePayload, Idle, Inv, TypeOK, NodeAssumption
<1>2. rx' = Put(d, st)
  <2>1. rx = [e \in DOMAIN rx |-> rx[e]] /\ DOMAIN rx \cup {d} = DOMAIN rx
    BY <1>1 DEF Inv, TypeOK
  <2> QED
    BY <1>1, <2>1 DEF Put
<1>3. /\ payload \cap free = {}
      /\ st.blocks = {}
      /\ st.block \notin free \cup payload \cup st.blocks
      /\ st.blocks \cap (free \cup payload) = {}
  <2>1. st.block \in StateBlocks /\ st.blocks \subseteq ChainBlocks
    BY <1>1 DEF StateBlocks, ChainBlocks
  <2> QED
    BY <1>1, <2>1 DEF Inv, OneOwner, ChainMatchesLength
<1>4. /\ StatisticsExact'
      /\ free' \in SUBSET Block /\ usage' \in Int /\ peak' \in Int
      /\ free' = free \cup payload
  BY <1>1, <1>3, GiveBackCount DEF Inv
<1>5. Held(d) = {st.block} \cup st.blocks
  BY <1>1 DEF Held
<1> QED
  BY <1>1, <1>2, <1>3, <1>4, <1>5, HandlerStep

LEMMA CallbackReturnsStep ==
    ASSUME Inv, CallbackReturns
    PROVE  Inv'
<1> DEFINE d == handling
           old == rx[handling]
           st == PreparedForNext(old)
<1>1. /\ d \in DOMAIN rx /\ d \in Descs /\ d # NoDesc /\ old \in State
      /\ payload \in SUBSET Block /\ payload' = {} /\ GiveBack(payload)
      /\ handling' = NoDesc /\ rx' = Put(d, st)
      /\ UNCHANGED <<local, tx, now>>
  BY NodeAssumption DEF CallbackReturns, Idle, Inv, TypeOK, NodeAssumption
<1>2. /\ payload \cap free = {}
      /\ old.blocks = {}
      /\ old.block \notin free \cup payload \cup old.blocks
      /\ old.blocks \cap (free \cup payload) = {}
  <2>1. old.block \in StateBlocks /\ old.blocks \subseteq ChainBlocks
    BY <1>1 DEF StateBlocks, ChainBlocks
  <2> QED
    BY <1>1, <2>1 DEF Inv, OneOwner, ChainMatchesLength
<1>3. /\ StatisticsExact'
      /\ free' \in SUBSET Block /\ usage' \in Int /\ peak' \in Int
      /\ free' = free \cup payload
  BY <1>1, <1>2, GiveBackCount DEF Inv
<1>4. Held(d) = {old.block} \cup old.blocks
  BY <1>1 DEF Held
<1>5. st \in State /\ st.block = old.block /\ st.blocks = old.blocks /\ st.len = 0
  <2>1. st \in State
    <3>1. old.tid \in TransferId
      BY <1>1 DEF State
    <3>2. NextTransferId(old.tid) \in TransferId
      BY <3>1, NextTransferIdType
    <3> QED
      BY <1>1, <3>2, NoBytes DEF PreparedForNext, State
  <2> QED
    BY <2>1, <1>1 DEF PreparedForNext, State
<1>6. ChainFits(st)
  BY <1>2, <1>5, EmptyFits
<1> HIDE DEF st, old
<1> QED
  BY <1>1, <1>2, <1>3, <1>4, <1>5, <1>6, HandlerStep

-----------------------------------------------------------------------------
(* The TX queue, the cleanup and the rest *)

LEMMA SendStep ==
    ASSUME Inv, NEW count \in FrameCounts, NEW life \in Lifetimes, Send(count, life)
    PROVE  Inv'
<1>1. PICK new \in SUBSET free :
          /\ tx' = tx \cup [block : new, deadline : {now + life}]
          /\ Exchange({}, new)
  BY DEF Send
<1>2. UNCHANGED <<local, rx, handling, payload, now>>
  BY DEF Send
<1>3. new \in SUBSET Block /\ now + life \in Nat
  BY <1>1, NodeAssumption DEF Inv, TypeOK, NodeAssumption
<1>4. /\ StatisticsExact'
      /\ free' \in SUBSET Block /\ usage' \in Int /\ peak' \in Int
      /\ free' = free \ new
  <2>1. /\ {} \in SUBSET Block /\ {} \cap free = {}
        /\ new \in SUBSET (free \cup {}) /\ (free \cup {}) \ new = free \ new
    BY <1>1
  <2> QED
    BY <1>1, <2>1, ExchangeCount DEF Inv
<1>5. StateBlocks' = StateBlocks /\ ChainBlocks' = ChainBlocks
  BY <1>2 DEF StateBlocks, ChainBlocks
<1>6. TxBlocks' = TxBlocks \cup new
  <2>1. \A x : x \in TxBlocks' <=> \E item \in tx' : x = item.block
    BY DEF TxBlocks
  <2>2. \A x : x \in TxBlocks <=> \E item \in tx : x = item.block
    BY DEF TxBlocks
  <2>3. \A x \in new : \E item \in [block : new, deadline : {now + life}] : x = item.block
    <3> SUFFICES ASSUME NEW x \in new
                 PROVE  \E item \in [block : new, deadline : {now + life}] : x = item.block
      OBVIOUS
    <3> WITNESS [block |-> x, deadline |-> now + life]
                    \in [block : new, deadline : {now + life}]
    <3> QED
      OBVIOUS
  <2>4. \A item \in [block : new, deadline : {now + life}] : item.block \in new
    OBVIOUS
  <2> QED
    BY <1>1, <2>1, <2>2, <2>3, <2>4
<1>7. /\ new \cap (StateBlocks \cup ChainBlocks \cup TxBlocks \cup payload) = {}
      /\ new \subseteq free
  BY <1>1 DEF Inv, OneOwner
<1>8. TypeOK'
  BY <1>1, <1>2, <1>3, <1>4 DEF Inv, TypeOK, Idle
<1>9. OneOwner'
  <2>1. \A x, y \in tx' : x # y => x.block # y.block
    <3> SUFFICES ASSUME NEW x \in tx', NEW y \in tx', x # y
                 PROVE  x.block # y.block
      OBVIOUS
    <3>1. \A z \in tx : z.block \in TxBlocks
      BY DEF TxBlocks
    <3>2. \A z \in [block : new, deadline : {now + life}] :
              z.block \in new /\ z = [block |-> z.block, deadline |-> now + life]
      OBVIOUS
    <3> QED
      BY <1>1, <1>7, <3>1, <3>2 DEF Inv, OneOwner
  <2>2. \A d, e \in DOMAIN rx' : d # e =>
            rx'[d].block # rx'[e].block /\ rx'[d].blocks \cap rx'[e].blocks = {}
    BY <1>2 DEF Inv, OneOwner
  <2>3. /\ free \cap (StateBlocks \cup ChainBlocks \cup TxBlocks \cup payload) = {}
        /\ StateBlocks \cap (ChainBlocks \cup TxBlocks \cup payload) = {}
        /\ ChainBlocks \cap (TxBlocks \cup payload) = {}
        /\ TxBlocks \cap payload = {}
    BY DEF Inv, OneOwner
  <2>4. /\ free' \cap (StateBlocks' \cup ChainBlocks' \cup TxBlocks' \cup payload') = {}
        /\ StateBlocks' \cap (ChainBlocks' \cup TxBlocks' \cup payload') = {}
        /\ ChainBlocks' \cap (TxBlocks' \cup payload') = {}
        /\ TxBlocks' \cap payload' = {}
    BY <1>2, <1>4, <1>5, <1>6, <1>7, <2>3
  <2> QED
    BY <2>1, <2>2, <2>4 DEF OneOwner
<1>10. NothingLeaks'
  <2>1. Block = free' \cup StateBlocks' \cup ChainBlocks' \cup TxBlocks' \cup payload'
    BY <1>2, <1>4, <1>5, <1>6, <1>7 DEF Inv, NothingLeaks
  <2> QED
    BY <2>1 DEF NothingLeaks
<1>11. ChainMatchesLength'
  BY <1>2 DEF Inv, ChainMatchesLength
<1> QED
  BY <1>4, <1>8, <1>9, <1>10, <1>11 DEF Inv

(* What a set of states and a set of frames own. *)
Owned(Gone, Dead) ==
    {item.block : item \in Dead}
    \cup UNION {rx[d].blocks \cup {rx[d].block} : d \in Gone}

(* A step that removes a set of states, with their chains, and a set of frames of the   *)
(* queue, and gives back what they owned.                                       *)
LEMMA RemovalStep ==
    ASSUME Inv, Idle,
           NEW Gone \in SUBSET DOMAIN rx, NEW Dead \in SUBSET tx,
           rx' \in [DOMAIN rx \ Gone -> State],
           \A d \in DOMAIN rx \ Gone : rx'[d] = rx[d],
           tx' = tx \ Dead,
           NEW in, in = Owned(Gone, Dead),
           GiveBack(in),
           UNCHANGED <<local, handling, payload, now>>
    PROVE  Inv'
<1> DEFINE ofGone == UNION {rx[d].blocks \cup {rx[d].block} : d \in Gone}
           ofDead == {item.block : item \in Dead}
<1>1. /\ DOMAIN rx' = DOMAIN rx \ Gone
      /\ \A d \in DOMAIN rx \ Gone : rx'[d] = rx[d]
  OBVIOUS
<1>2. /\ \A x : x \in ofGone <=> \E d \in Gone : x \in rx[d].blocks \/ x = rx[d].block
      /\ \A x : x \in ofDead <=> \E item \in Dead : x = item.block
      /\ \A x : x \in StateBlocks <=> \E d \in DOMAIN rx : x = rx[d].block
      /\ \A x : x \in ChainBlocks <=> \E d \in DOMAIN rx : x \in rx[d].blocks
      /\ \A x : x \in TxBlocks <=> \E item \in tx : x = item.block
  BY DEF StateBlocks, ChainBlocks, TxBlocks
<1>3. /\ \A x : x \in StateBlocks' <=> \E d \in DOMAIN rx \ Gone : x = rx[d].block
      /\ \A x : x \in ChainBlocks' <=> \E d \in DOMAIN rx \ Gone : x \in rx[d].blocks
      /\ \A x : x \in TxBlocks' <=> \E item \in tx \ Dead : x = item.block
  BY <1>1 DEF StateBlocks, ChainBlocks, TxBlocks
<1> HIDE DEF ofGone, ofDead
<1>4. /\ \A d, e \in DOMAIN rx : d # e =>
            rx[d].block # rx[e].block /\ rx[d].blocks \cap rx[e].blocks = {}
      /\ \A x, y \in tx : x # y => x.block # y.block
      /\ free \cap (StateBlocks \cup ChainBlocks \cup TxBlocks \cup payload) = {}
      /\ StateBlocks \cap (ChainBlocks \cup TxBlocks \cup payload) = {}
      /\ ChainBlocks \cap (TxBlocks \cup payload) = {}
      /\ TxBlocks \cap payload = {}
      /\ Block = free \cup StateBlocks \cup ChainBlocks \cup TxBlocks \cup payload
  BY DEF Inv, OneOwner, NothingLeaks
<1>5. /\ ofGone \subseteq StateBlocks \cup ChainBlocks
      /\ ofDead \subseteq TxBlocks
  BY <1>2
<1>6. /\ StateBlocks' \cup ChainBlocks' \cup ofGone = StateBlocks \cup ChainBlocks
      /\ StateBlocks' \subseteq StateBlocks
      /\ ChainBlocks' \subseteq ChainBlocks
  BY <1>2, <1>3
<1>7. /\ TxBlocks' \cup ofDead = TxBlocks
      /\ TxBlocks' \cap ofDead = {}
  BY <1>2, <1>3, <1>4
<1>8. ofGone \cap (StateBlocks' \cup ChainBlocks') = {}
  <2>1. \A d \in Gone : \A e \in DOMAIN rx \ Gone :
            /\ rx[d].block # rx[e].block
            /\ rx[d].blocks \cap rx[e].blocks = {}
            /\ rx[d].block \notin rx[e].blocks
            /\ rx[e].block \notin rx[d].blocks
    BY <1>2, <1>4
  <2> QED
    BY <2>1, <1>2, <1>3
<1>14. in = ofGone \cup ofDead
  BY DEF Owned, ofGone, ofDead
<1>9. /\ StatisticsExact'
      /\ free' \in SUBSET Block /\ usage' \in Int /\ peak' \in Int
      /\ free' = free \cup in
  <2>1. in \in SUBSET Block /\ in \cap free = {}
    BY <1>4, <1>5, <1>14
  <2> QED
    BY <2>1, GiveBackCount DEF Inv
<1>10. TypeOK'
  <2>1. DOMAIN rx' \subseteq Descs /\ rx' \in [DOMAIN rx' -> State]
    BY <1>1 DEF Inv, TypeOK
  <2> QED
    BY <2>1, <1>9 DEF Inv, TypeOK, Idle
<1>11. OneOwner'
  <2>1. \A x, y \in tx' : x # y => x.block # y.block
    BY <1>4
  <2>2. \A d, e \in DOMAIN rx' : d # e =>
            rx'[d].block # rx'[e].block /\ rx'[d].blocks \cap rx'[e].blocks = {}
    BY <1>1, <1>4
  <2>3. free' \cap (StateBlocks' \cup ChainBlocks' \cup TxBlocks' \cup payload') = {}
    BY <1>4, <1>5, <1>6, <1>7, <1>8, <1>14, <1>9
  <2>4. /\ StateBlocks' \cap (ChainBlocks' \cup TxBlocks' \cup payload') = {}
        /\ ChainBlocks' \cap (TxBlocks' \cup payload') = {}
        /\ TxBlocks' \cap payload' = {}
    BY <1>4, <1>6, <1>7
  <2> QED
    BY <2>1, <2>2, <2>3, <2>4 DEF OneOwner
<1>12. NothingLeaks'
  <2>1. Block = free' \cup StateBlocks' \cup ChainBlocks' \cup TxBlocks' \cup payload'
    BY <1>4, <1>6, <1>7, <1>14, <1>9
  <2> QED
    BY <2>1 DEF NothingLeaks
<1>13. ChainMatchesLength'
  BY <1>1 DEF Inv, ChainMatchesLength
<1> QED
  BY <1>9, <1>10, <1>11, <1>12, <1>13 DEF Inv

LEMMA PopTxQueueStep ==
    ASSUME Inv, PopTxQueue
    PROVE  Inv'
<1>1. PICK item \in tx : tx' = tx \ {item} /\ GiveBack({item.block})
  BY DEF PopTxQueue
<1>2. Idle /\ UNCHANGED <<local, rx, handling, payload, now>>
  BY DEF PopTxQueue
<1>3. /\ rx' \in [DOMAIN rx \ {} -> State]
      /\ \A d \in DOMAIN rx \ {} : rx'[d] = rx[d]
  BY <1>2 DEF Inv, TypeOK
<1>4. {item.block} = Owned({}, {item})
  BY DEF Owned
<1>5. {} \in SUBSET DOMAIN rx /\ {item} \in SUBSET tx
  OBVIOUS
<1> QED
  BY <1>1, <1>2, <1>3, <1>4, <1>5, RemovalStep

LEMMA CleanupStep ==
    ASSUME Inv, Cleanup
    PROVE  Inv'
<1>1. GiveBack(Reclaimed)
  BY DEF Cleanup
<1>2. Reclaimed = Owned(StaleStates, ExpiredItems)
  BY DEF Reclaimed, Owned
<1>3. /\ Idle
      /\ tx' = tx \ ExpiredItems
      /\ UNCHANGED <<local, handling, payload, now>>
  BY DEF Cleanup
<1>4. /\ rx' \in [DOMAIN rx \ StaleStates -> State]
      /\ \A d \in DOMAIN rx \ StaleStates : rx'[d] = rx[d]
  <2>1. rx' = [d \in DOMAIN rx \ StaleStates |-> rx[d]]
    BY DEF Cleanup
  <2>2. \A d \in DOMAIN rx : rx[d] \in State
    BY DEF Inv, TypeOK
  <2> QED
    BY <2>1, <2>2
<1>5. StaleStates \in SUBSET DOMAIN rx /\ ExpiredItems \in SUBSET tx
  BY DEF StaleStates, ExpiredItems
<1> QED
  BY <1>1, <1>2, <1>3, <1>4, <1>5, RemovalStep

LEMMA OtherSteps ==
    ASSUME Inv, SetLocalNodeID \/ ForgetLocalNodeID \/ Tick
    PROVE  Inv'
<1>1. /\ UNCHANGED <<free, usage, peak, rx, tx, handling, payload>>
      /\ local' \in BOOLEAN
      /\ now' \in Nat
  <2>1. local \in BOOLEAN /\ now \in Nat
    BY DEF Inv, TypeOK
  <2>2. CASE SetLocalNodeID
    BY <2>1, <2>2 DEF SetLocalNodeID, pool
  <2>3. CASE ForgetLocalNodeID
    BY <2>1, <2>3 DEF ForgetLocalNodeID, pool
  <2>4. CASE Tick
    BY <2>1, <2>4 DEF Tick, pool
  <2> QED
    BY <2>2, <2>3, <2>4
<1>2. TypeOK'
  BY <1>1 DEF Inv, TypeOK, Idle
<1>3. OneOwner' /\ NothingLeaks'
  <2>1. /\ StateBlocks' = StateBlocks /\ ChainBlocks' = ChainBlocks
        /\ TxBlocks' = TxBlocks
    BY <1>1 DEF StateBlocks, ChainBlocks, TxBlocks
  <2>2. OneOwner'
    BY <1>1, <2>1 DEF Inv, OneOwner
  <2>3. NothingLeaks'
    BY <1>1, <2>1 DEF Inv, NothingLeaks
  <2> QED
    BY <2>2, <2>3
<1>4. StatisticsExact' /\ ChainMatchesLength'
  BY <1>1 DEF Inv, StatisticsExact, ChainMatchesLength
<1> QED
  BY <1>2, <1>3, <1>4 DEF Inv

-----------------------------------------------------------------------------
LEMMA InitInv == Init => Inv
<1> SUFFICES ASSUME Init PROVE Inv
  OBVIOUS
<1> USE DEF Init
<1>1. DOMAIN rx = {} /\ tx = {} /\ payload = {} /\ handling = NoDesc
  OBVIOUS
<1>2. StateBlocks = {} /\ ChainBlocks = {} /\ TxBlocks = {}
  BY <1>1 DEF StateBlocks, ChainBlocks, TxBlocks
<1>3. Cardinality(Block) \in Nat
  BY BlocksFinite
<1>4. TypeOK
  <2>1. rx \in [{} -> State]
    OBVIOUS
  <2>2. /\ free = Block /\ usage = 0 /\ peak = 0 /\ local = FALSE /\ now = 1
    OBVIOUS
  <2>3. rx \in [DOMAIN rx -> State]
    BY <1>1, <2>1
  <2>4. local \in BOOLEAN
    BY <2>2
  <2> HIDE DEF Init
  <2>5. DOMAIN rx \subseteq Descs /\ tx \subseteq [block : Block, deadline : Nat]
    BY <1>1
  <2>6. handling \in DOMAIN rx \cup {NoDesc}
    BY <1>1
  <2> QED
    BY <1>1, <2>2, <2>3, <2>4, <2>5, <2>6 DEF TypeOK, Idle
<1>5. OneOwner /\ NothingLeaks
  BY <1>1, <1>2 DEF OneOwner, NothingLeaks
<1>6. StatisticsExact
  BY <1>3 DEF StatisticsExact
<1>7. ChainMatchesLength
  BY <1>1 DEF ChainMatchesLength
<1> QED
  BY <1>4, <1>5, <1>6, <1>7 DEF Inv

LEMMA NextInv == Inv /\ [Next]_vars => Inv'
<1> SUFFICES ASSUME Inv, [Next]_vars PROVE Inv'
  OBVIOUS
<1>1. ASSUME NEW f \in Frame, HandleRxFrame(f) PROVE Inv'
  BY <1>1, HandleRxFrameStep
<1>2. CASE ReleasePayload
  BY <1>2, ReleasePayloadStep
<1>3. CASE CallbackReturns
  BY <1>3, CallbackReturnsStep
<1>4. ASSUME NEW count \in FrameCounts, NEW life \in Lifetimes, Send(count, life)
      PROVE  Inv'
  BY <1>4, SendStep
<1>5. CASE PopTxQueue
  BY <1>5, PopTxQueueStep
<1>6. CASE Cleanup
  BY <1>6, CleanupStep
<1>7. CASE SetLocalNodeID \/ ForgetLocalNodeID \/ Tick
  BY <1>7, OtherSteps
<1>8. CASE UNCHANGED vars
  BY <1>8, StutterStep
<1> QED
  BY <1>1, <1>2, <1>3, <1>4, <1>5, <1>6, <1>7, <1>8 DEF Next

LEMMA SpecInv == Spec => []Inv
BY InitInv, NextInv, PTL DEF Spec

(* Every variable of the instance keeps its shape, whatever the pool, the            *)
(* descriptors and the frames are.                                             *)
THEOREM TypeCorrect == Spec => []TypeOK
<1>1. Inv => TypeOK
  BY DEF Inv
<1> QED
  BY <1>1, SpecInv, PTL

(* canardHandleRxFrame, the callback, the senders and the cleanup never let two        *)
(* owners have one block: no double free, no use of a block that has been freed.    *)
THEOREM NoSharedBlock == Spec => []OneOwner
<1>1. Inv => OneOwner
  BY DEF Inv
<1> QED
  BY <1>1, SpecInv, PTL

(* No path through them loses a block: not running out of memory in the middle of a     *)
(* push, not a restart, not a bad CRC, not an early release by the callback.        *)
THEOREM NoBlockLost == Spec => []NothingLeaks
<1>1. Inv => NothingLeaks
  BY DEF Inv
<1> QED
  BY <1>1, SpecInv, PTL

(* The block count that enqueueTxFrames checks before it queues a transfer is the       *)
(* length of the free list, so the allocations that follow the check succeed.       *)
THEOREM StatisticsAreExact == Spec => []StatisticsExact
<1>1. Inv => StatisticsExact
  BY DEF Inv
<1> QED
  BY <1>1, SpecInv, PTL

(* The assertion of prepareForNextTransfer, and the walk to the last block at the end     *)
(* of a transfer: the chain has the blocks that payload_len calls for.               *)
THEOREM ChainsMatchLengths == Spec => []ChainMatchesLength
<1>1. Inv => ChainMatchesLength
  BY DEF Inv
<1> QED
  BY <1>1, SpecInv, PTL
=============================================================================
