--------------------------- MODULE CanardRxProofs ---------------------------
(***************************************************************************)
(* What a subscriber is delivered, for every traffic, every number of losses    *)
(* and repetitions, and every memory: on one interface, and on redundant ones;   *)
(* that losses cost no other transfer; and that fail-over delivers.           *)
(***************************************************************************)
EXTENDS CanardRx, FiniteSetTheorems, SequenceTheorems, TLAPS

-----------------------------------------------------------------------------
(* The transfer-ID ring, of any even size *)

(* incrementTransferID stays within the bit-field. *)
LEMMA NextTransferIdType ==
    ASSUME NEW t \in TransferId
    PROVE  NextTransferId(t) \in TransferId
BY TidModAssumption DEF TransferId, NextTransferId

(* computeTransferIDForwardDistance is a distance on the ring. *)
LEMMA ForwardDistanceType ==
    ASSUME NEW a \in TransferId, NEW b \in TransferId
    PROVE  ForwardDistance(a, b) \in TransferId
BY TidModAssumption DEF TransferId, ForwardDistance

(* incrementTransferID moves forward by one: the transfer that the state          *)
(* expects is at distance one from the transfer it has finished.              *)
THEOREM NextIsOneAhead ==
    ASSUME NEW t \in TransferId
    PROVE  ForwardDistance(NextTransferId(t), t) = 1
BY TidModAssumption DEF TransferId, ForwardDistance, NextTransferId

(* The frames of the transfer before, which a redundant interface brings late,    *)
(* never look like a jump of the transfer-ID to canardHandleRxFrame.             *)
THEOREM PreviousIsNotAJump ==
    ASSUME NEW t \in TransferId
    PROVE  ~NotPreviousTid(NextTransferId(t), t)
BY TidModAssumption DEF TransferId, ForwardDistance, NextTransferId, NotPreviousTid

(* Two transfer-IDs are never each ahead of the other, so two interfaces that are    *)
(* apart by less than half the ring cannot make the state switch to and fro.     *)
THEOREM AheadIsAntisymmetric ==
    ASSUME NEW a \in TransferId, NEW b \in TransferId,
           NonWrappedTid(a, b), NonWrappedTid(b, a)
    PROVE  a = b
<1>1. (TidMod \div 2) * 2 = TidMod
  BY TidModAssumption
<1>2. TidMod \div 2 \in Int
  BY TidModAssumption
<1> QED
  BY <1>1, <1>2, TidModAssumption DEF TransferId, ForwardDistance, NonWrappedTid

(* A step forward of either end of a distance. *)
LEMMA DistanceSteps ==
    ASSUME NEW a \in TransferId, NEW b \in TransferId
    PROVE  /\ ForwardDistance(a, b) >= 1 =>
                 ForwardDistance(a, NextTransferId(b)) = ForwardDistance(a, b) - 1
           /\ ForwardDistance(a, b) + 1 < TidMod =>
                 ForwardDistance(NextTransferId(a), b) = ForwardDistance(a, b) + 1
           /\ ForwardDistance(a, b) = 0 => a = b
           /\ ForwardDistance(a, b) = 1 => a = NextTransferId(b)
BY TidModAssumption DEF TransferId, ForwardDistance, NextTransferId

(* The rest of the way round the ring. *)
LEMMA RoundTheRing ==
    ASSUME NEW a \in TransferId, NEW b \in TransferId, ForwardDistance(a, b) >= 1
    PROVE  ForwardDistance(b, a) = TidMod - ForwardDistance(a, b)
BY TidModAssumption DEF TransferId, ForwardDistance

(* What lies behind the state is not taken to be ahead of it, as long as it is less than    *)
(* half the ring behind the counter of the publisher: here `a' is the counter, `b' the     *)
(* frame, and `c' the state, which is nearer to the counter or one ahead of it.         *)
THEOREM BehindIsNotAhead ==
    ASSUME NEW a \in TransferId, NEW b \in TransferId, NEW c \in TransferId,
           1 <= ForwardDistance(a, b), ForwardDistance(a, b) < TidMod \div 2,
           \/ ForwardDistance(a, c) < ForwardDistance(a, b)
           \/ ForwardDistance(c, a) = 1
    PROVE  ~NonWrappedTid(c, b)
<1>1. (TidMod \div 2) * 2 = TidMod
  BY TidModAssumption
<1>2. TidMod \div 2 \in Int
  BY TidModAssumption
<1> QED
  BY <1>1, <1>2, TidModAssumption DEF TransferId, ForwardDistance, NonWrappedTid

-----------------------------------------------------------------------------
(* Frames and states *)

Word == Nat \X Nat

Slot == Nat \X Nat \X Nat
Delivery == [n : Nat, payload : Seq(Word), lag : Nat]
Published == [frames : traffic.frames, zero : ZeroKinds, tid : TransferId]

(* The frames in flight on interface i. *)
On(i) == {bus[i][j] : j \in DOMAIN bus[i]}

(* Frames are <<n, k, t>>: a goes before b. *)
Precedes(a, b) == a[1] < b[1] \/ (a[1] = b[1] /\ a[2] < b[2])

StateType ==
    [timestamp : Nat, tid : TransferId, toggle : BOOLEAN, iface : Nat,
     len : 0 .. LenMod - 1, wrapped : BOOLEAN, blocks : SUBSET Nat, crc : Seq(Word),
     expected : Seq(Word)]

FrameType ==
    [n : Nat, chunk : Word, iface : Nat, sot : BOOLEAN, eot : BOOLEAN,
     toggle : BOOLEAN, tid : TransferId]

(* An interface carries its frames in the order in which they were published. *)
BusOK ==
    /\ bus \in [Ifaces -> Seq(Slot)]
    /\ \A i \in Ifaces : \A j \in DOMAIN bus[i] :
          /\ bus[i][j][1] \in DOMAIN sent
          /\ bus[i][j][2] \in 1 .. sent[bus[i][j][1]].frames
          /\ bus[i][j][3] \in 1 .. now
          /\ \A l \in DOMAIN bus[i] : j < l =>
                Precedes(bus[i][j], bus[i][l]) /\ bus[i][j][3] <= bus[i][l][3]

(* Before the first frame of a transfer nothing is stored; and payload_len has wrapped      *)
(* only if that much has been stored.                                              *)
StorageOK ==
    /\ \E m \in Nat : rx.blocks = 1 .. m
    /\ stored = <<>> => rx.blocks = {}
    /\ ~rx.wrapped => rx.len <= FrameBytes * Len(stored)
    /\ rx.wrapped => LenMod <= FrameBytes * Len(stored)

RxOK ==
    rx # NoState =>
        /\ rx \in StateType
        /\ rx.timestamp \in 1 .. now
        /\ rx.iface \in Ifaces
        /\ StorageOK

Types ==
    /\ traffic \in Profiles
    /\ now \in 1 .. traffic.time
    /\ nextTid \in TransferId
    /\ sent \in Seq(Published)
    /\ stored \in Seq(Word)
    /\ delivered \in Seq(Delivery)
    /\ \A j \in DOMAIN delivered : delivered[j].n \in DOMAIN sent

TypeInv == Types /\ BusOK /\ RxOK

-----------------------------------------------------------------------------
(* The ways out of canardHandleRxFrame, as what they leave behind. *)

(* The frame comes on the interface of the state, or makes the state leave it. *)
Heard(f) ==
    \/ rx = NoState
    \/ rx.iface = f.iface
    \/ TidTimedOut(rx, now)
    \/ NonWrappedTid(rx.tid, f.tid)

Ignored == UNCHANGED <<rx, stored, delivered>>

Skipped(f) ==
    /\ rx # NoState /\ TidTimedOut(rx, now) /\ ~f.sot
    /\ rx' = [timestamp |-> rx.timestamp, tid |-> NextTransferId(f.tid), toggle |-> FALSE,
              iface |-> f.iface, len |-> 0, wrapped |-> FALSE, blocks |-> {}, crc |-> rx.crc,
              expected |-> rx.expected]
    /\ stored' = <<>>
    /\ UNCHANGED delivered

Single(f) ==
    /\ f.sot /\ f.eot /\ Heard(f)
    /\ \E tid \in TransferId :
          /\ tid = f.tid \/ ForwardDistance(tid, f.tid) = 1
          /\ rx' = [timestamp |-> now, tid |-> NextTransferId(tid), toggle |-> FALSE,
                    iface |-> f.iface, len |-> 0, wrapped |-> FALSE, blocks |-> {},
                    crc |-> Session.crc, expected |-> Session.expected]
    /\ stored' = <<>>
    /\ delivered' = Append(delivered, Transfer(f, <<f.chunk>>, now))

Begun(f) ==
    /\ f.sot /\ ~f.eot /\ Heard(f)
    /\ rx' = [timestamp |-> now, tid |-> f.tid, toggle |-> TRUE, iface |-> f.iface,
              len |-> StartBytes, wrapped |-> FALSE, blocks |-> {}, crc |-> CrcAdd(Seeded, f.chunk),
              expected |-> TransferCrc(f.n)]
    /\ stored' = <<f.chunk>>
    /\ UNCHANGED delivered

(* A frame in the middle or at the end, of the transfer that the state expects. *)
Wanted(f) ==
    /\ rx # NoState /\ ~f.sot
    /\ rx.iface = f.iface /\ rx.tid = f.tid

(* The chain and the length once a frame in the middle is stored. *)
ChainNow == BlocksAfter(Cardinality(rx.blocks), rx.len, FrameBytes)
WrappedNow == rx.wrapped \/ rx.len + FrameBytes >= LenMod

Continued(f) ==
    /\ Wanted(f) /\ ~f.eot
    /\ rx' = [timestamp |-> rx.timestamp, tid |-> rx.tid, toggle |-> ~rx.toggle,
              iface |-> rx.iface, len |-> Lengthened(rx.len, FrameBytes),
              wrapped |-> WrappedNow, blocks |-> 1 .. ChainNow,
              crc |-> CrcAdd(rx.crc, f.chunk), expected |-> rx.expected]
    /\ stored' = Append(stored, f.chunk)
    /\ UNCHANGED delivered

GivenUp(f) ==
    /\ Wanted(f) /\ ~f.eot
    /\ rx' = [timestamp |-> rx.timestamp, tid |-> NextTransferId(f.tid), toggle |-> FALSE,
              iface |-> rx.iface, len |-> 0, wrapped |-> FALSE, blocks |-> {}, crc |-> rx.crc,
              expected |-> rx.expected]
    /\ stored' = <<>>
    /\ UNCHANGED delivered

HandedNow(f) == IF rx.wrapped THEN Overwritten ELSE Append(stored, f.chunk)

Ended(f) ==
    /\ Wanted(f) /\ f.eot
    /\ rx' = [timestamp |-> rx.timestamp, tid |-> NextTransferId(f.tid), toggle |-> FALSE,
              iface |-> rx.iface, len |-> 0, wrapped |-> FALSE, blocks |-> {},
              crc |-> CrcAdd(rx.crc, f.chunk), expected |-> rx.expected]
    /\ stored' = <<>>
    /\ delivered' = IF CrcAdd(rx.crc, f.chunk) = rx.expected
                    THEN Append(delivered, Transfer(f, HandedNow(f), rx.timestamp))
                    ELSE delivered

Outcome(f) ==
    Ignored \/ Skipped(f) \/ Single(f) \/ Begun(f) \/ Continued(f) \/ GivenUp(f) \/ Ended(f)

(* What on_reception is given has the shape of a payload, also when it is overwritten. *)
LEMMA HandedType ==
    ASSUME NEW f, stored \in Seq(Word), f.chunk \in Word
    PROVE  HandedNow(f) \in Seq(Word)
<1>1. <<0, 2>> \in Word
  BY DEF Word
<1>2. Overwritten \in Seq(Word)
  <2> HIDE DEF Word
  <2> QED
    BY <1>1 DEF Overwritten
<1>3. Append(stored, f.chunk) \in Seq(Word)
  BY AppendProperties
<1> QED
  BY <1>2, <1>3 DEF HandedNow

(* A state is what its fields say. *)
LEMMA StateIs ==
    ASSUME NEW st \in StateType
    PROVE  st = [timestamp |-> st.timestamp, tid |-> st.tid, toggle |-> st.toggle,
                 iface |-> st.iface, len |-> st.len, wrapped |-> st.wrapped, blocks |-> st.blocks,
                 crc |-> st.crc, expected |-> st.expected]
BY DEF StateType

LEMMA StateIsNotNone ==
    ASSUME NEW st \in StateType
    PROVE  st # NoState
<1>1. "len" \in DOMAIN st /\ "none" \notin DOMAIN st
  BY DEF StateType
<1>2. "none" \in DOMAIN NoState
  BY DEF NoState
<1> QED
  BY <1>1, <1>2

LEMMA ZeroLength == 0 \in 0 .. LenMod - 1
BY SessionAssumption

(* releaseStatePayload, and the rest of a restart. *)
LEMMA RestartedIs ==
    ASSUME NEW st \in StateType, NEW f \in FrameType
    PROVE  Restarted(st, f) =
               [timestamp |-> st.timestamp, tid |-> f.tid, toggle |-> FALSE,
                iface |-> f.iface, len |-> 0, wrapped |-> FALSE, blocks |-> {}, crc |-> st.crc,
                expected |-> st.expected]
<1> DEFINE r == Restarted(st, f)
<1>1. /\ Released(st) \in StateType
      /\ Released(st).timestamp = st.timestamp
      /\ Released(st).len = 0 /\ Released(st).wrapped = FALSE /\ Released(st).blocks = {}
      /\ Released(st).crc = st.crc /\ Released(st).expected = st.expected
  BY ZeroLength DEF Released, StateType
<1>2. /\ r \in StateType
      /\ r.timestamp = st.timestamp /\ r.tid = f.tid /\ r.toggle = FALSE
      /\ r.iface = f.iface /\ r.len = 0 /\ r.wrapped = FALSE /\ r.blocks = {}
      /\ r.crc = st.crc /\ r.expected = st.expected
  BY <1>1, ZeroLength DEF Restarted, StateType, FrameType
<1> HIDE DEF r
<1>3. r = [timestamp |-> st.timestamp, tid |-> f.tid, toggle |-> FALSE,
           iface |-> f.iface, len |-> 0, wrapped |-> FALSE, blocks |-> {}, crc |-> st.crc,
           expected |-> st.expected]
  BY <1>2, StateIs
<1> QED
  BY <1>3 DEF r

LEMMA RestartedType ==
    ASSUME NEW st \in StateType, NEW f \in FrameType
    PROVE  Restarted(st, f) \in StateType
<1> DEFINE r == [timestamp |-> st.timestamp, tid |-> f.tid, toggle |-> FALSE,
                 iface |-> f.iface, len |-> 0, wrapped |-> FALSE, blocks |-> {}, crc |-> st.crc,
                 expected |-> st.expected]
<1>1. r \in StateType
  BY ZeroLength DEF StateType, FrameType
<1>2. Restarted(st, f) = r
  BY RestartedIs
<1> QED
  BY <1>1, <1>2

(* prepareForNextTransfer *)
LEMMA PreparedIs ==
    ASSUME NEW st \in StateType
    PROVE  PreparedForNext(st) =
               [timestamp |-> st.timestamp, tid |-> NextTransferId(st.tid), toggle |-> FALSE,
                iface |-> st.iface, len |-> 0, wrapped |-> FALSE, blocks |-> st.blocks, crc |-> st.crc,
                expected |-> st.expected]
<1> DEFINE r == PreparedForNext(st)
<1>1. NextTransferId(st.tid) \in TransferId
  BY NextTransferIdType DEF StateType
<1>2. /\ r \in StateType
      /\ r.timestamp = st.timestamp /\ r.tid = NextTransferId(st.tid) /\ r.toggle = FALSE
      /\ r.iface = st.iface /\ r.len = 0 /\ r.wrapped = FALSE /\ r.blocks = st.blocks
      /\ r.crc = st.crc /\ r.expected = st.expected
  BY <1>1, ZeroLength DEF PreparedForNext, StateType
<1> HIDE DEF r
<1>3. r = [timestamp |-> st.timestamp, tid |-> NextTransferId(st.tid), toggle |-> FALSE,
           iface |-> st.iface, len |-> 0, wrapped |-> FALSE, blocks |-> st.blocks, crc |-> st.crc,
           expected |-> st.expected]
  BY <1>2, StateIs
<1> QED
  BY <1>3 DEF r

LEMMA SessionType ==
    ASSUME RxOK
    PROVE  /\ Session \in StateType
           /\ rx # NoState => Session = rx
           /\ rx = NoState => NotInitialized(Session)
BY TidModAssumption, ZeroLength DEF RxOK, Session, NewState, StateType, TransferId, NotInitialized

LEMMA Division ==
    ASSUME NEW x \in Int, NEW d \in Nat \ {0}
    PROVE  /\ x \div d \in Int /\ (0 <= x => x \div d \in Nat)
           /\ x % d \in 0 .. d - 1
OBVIOUS

(* bufferBlockPushBytes adds blocks and takes none away. *)
LEMMA BlocksAfterType ==
    ASSUME NEW chain \in Nat, NEW len \in 0 .. LenMod - 1, NEW n \in Nat
    PROVE  BlocksAfter(chain, len, n) \in Nat
<1>1. /\ HeadSize \in Nat /\ BlockSize \in Nat \ {0} /\ SizeResidue \in Nat /\ LenMod \in Nat
  BY SessionAssumption
<1> DEFINE index == IndexAtNthBlock(chain, len)
           left == ForBlocks(len, n)
<1>2. index \in Nat
  BY <1>1, Division DEF IndexAtNthBlock
<1>3. ~StaysInHead(len, n) => left \in Nat
  BY <1>1 DEF StaysInHead, ForBlocks
<1>4. ~StaysInHead(len, n) /\ left # 0 => (index + left - 1) \div BlockSize \in Nat
  <2> HIDE DEF index, left
  <2>1. SUFFICES ASSUME index \in Nat, left \in Nat, left # 0
                 PROVE  (index + left - 1) \div BlockSize \in Nat
    BY <1>2, <1>3
  <2>2. index + left - 1 \in Int /\ 0 <= index + left - 1
    BY <2>1
  <2> QED
    BY <1>1, <2>2, Division
<1> HIDE DEF index, left
<1> QED
  BY <1>4 DEF BlocksAfter, index, left

LEMMA LengthenedType ==
    ASSUME NEW len \in 0 .. LenMod - 1, NEW n \in Nat
    PROVE  /\ Lengthened(len, n) \in 0 .. LenMod - 1
           /\ len + n < LenMod => Lengthened(len, n) = len + n
BY SessionAssumption DEF Lengthened

LEMMA StartLength == StartBytes \in 0 .. LenMod - 1 /\ Lengthened(0, StartBytes) = StartBytes
BY SessionAssumption, RxAssumption DEF Lengthened, StartBytes

(* The chain is as long as num_buffer_blocks says. *)
LEMMA ChainType ==
    ASSUME RxOK, rx # NoState
    PROVE  Cardinality(rx.blocks) \in Nat /\ rx.blocks = 1 .. Cardinality(rx.blocks)
<1>1. PICK m \in Nat : rx.blocks = 1 .. m
  BY DEF RxOK, StorageOK
<1>2. Cardinality(1 .. m) = m
  BY <1>1, FS_Interval
<1> QED
  BY <1>1, <1>2

LEMMA ContinuedType ==
    ASSUME RxOK, rx # NoState
    PROVE  /\ Lengthened(rx.len, FrameBytes) \in 0 .. LenMod - 1 /\ WrappedNow \in BOOLEAN
           /\ ChainNow \in Nat /\ 1 .. ChainNow \in SUBSET Nat
<1>1. rx.len \in 0 .. LenMod - 1 /\ rx.wrapped \in BOOLEAN /\ FrameBytes \in Nat
  BY DEF RxOK, StateType, FrameBytes
<1>2. ChainNow \in Nat
  BY <1>1, ChainType, BlocksAfterType DEF ChainNow
<1>3. Lengthened(rx.len, FrameBytes) \in 0 .. LenMod - 1
  BY <1>1, LengthenedType
<1>4. WrappedNow \in BOOLEAN
  BY DEF WrappedNow
<1>5. 1 .. ChainNow \in SUBSET Nat
  BY <1>2
<1> QED
  BY <1>2, <1>3, <1>4, <1>5

(* What the handler works on once it has decided whether to restart. *)
LEMMA CurrentIs ==
    ASSUME RxOK, NEW f \in FrameType, Synchronising(f)
    PROVE  /\ Current(f) \in StateType
           /\ NeedRestart(Session, f, now) => f.sot /\ Current(f) = Restarted(Session, f)
           /\ ~NeedRestart(Session, f, now) => rx # NoState /\ Current(f) = rx
<1>1. NotInitialized(Session) => NeedRestart(Session, f, now)
  BY DEF NeedRestart
<1>2. NeedRestart(Session, f, now) => f.sot /\ Current(f) = Restarted(Session, f)
  BY DEF Synchronising, Current, Synchronised
<1>3. ~NeedRestart(Session, f, now) => rx # NoState /\ Current(f) = rx
  BY <1>1, SessionType DEF Current, Synchronised
<1>4. Restarted(Session, f) \in StateType
  BY SessionType, RestartedType
<1> QED
  BY <1>2, <1>3, <1>4 DEF RxOK

(* A frame that starts a transfer finds no block in the state that takes it.       *)
LEMMA StartFindsNoBlock ==
    ASSUME RxOK, now \in Nat, NEW f \in FrameType, Expected(f), f.sot
    PROVE  /\ Current(f).blocks = {}
           /\ Current(f).iface = f.iface
           /\ Heard(f)
           /\ Current(f).crc = Session.crc /\ Current(f).expected = Session.expected
           /\ \/ Current(f).tid = f.tid /\ Current(f).toggle = FALSE
              \/ Current(f) = rx /\ rx # NoState /\ ForwardDistance(Current(f).tid, f.tid) <= 1
<1>1. CASE NeedRestart(Session, f, now)
  <2>1. Current(f) = [timestamp |-> Session.timestamp, tid |-> f.tid, toggle |-> FALSE,
                iface |-> f.iface, len |-> 0, wrapped |-> FALSE, blocks |-> {}, crc |-> Session.crc,
                expected |-> Session.expected]
    BY <1>1, CurrentIs, SessionType, RestartedIs DEF Expected
  <2>2. rx # NoState => ~NotInitialized(Session)
    BY SessionType DEF RxOK, NotInitialized
  <2>3. Heard(f)
    BY <1>1, <2>2, SessionType DEF Heard, NeedRestart
  <2> QED
    BY <2>1, <2>3
<1>2. CASE ~NeedRestart(Session, f, now)
  <2>1. rx # NoState /\ Current(f) = rx /\ Session = rx
    BY <1>2, CurrentIs, SessionType DEF Expected
  <2>2. rx.iface = f.iface
    BY <2>1 DEF Expected
  <2>3. ~NotPreviousTid(rx.tid, f.tid) /\ ~IncompleteFrame(rx)
    BY <1>2, <2>1, <2>2 DEF NeedRestart
  <2>4. rx.tid \in TransferId /\ f.tid \in TransferId
    BY <2>1 DEF RxOK, StateType, FrameType
  <2>5. ForwardDistance(rx.tid, f.tid) \in Int
    BY <2>4, TidModAssumption DEF ForwardDistance, TransferId
  <2>6. ForwardDistance(rx.tid, f.tid) <= 1
    BY <2>3, <2>5 DEF NotPreviousTid
  <2> QED
    BY <2>1, <2>2, <2>3, <2>6 DEF IncompleteFrame, Heard
<1> QED
  BY <1>1, <1>2

(* A frame that does not start a transfer and is looked at finds the state as it is. *)
LEMMA LaterFindsState ==
    ASSUME RxOK, NEW f \in FrameType, Expected(f), ~f.sot
    PROVE  /\ rx # NoState /\ rx \in StateType
           /\ Current(f) = rx /\ rx.iface = f.iface
           /\ Kept(f) = stored
<1>1. ~NeedRestart(Session, f, now)
  BY CurrentIs DEF Expected
<1>2. rx # NoState /\ Current(f) = rx
  BY <1>1, CurrentIs DEF Expected
<1> QED
  BY <1>1, <1>2 DEF Expected, Kept, RxOK

LEMMA SkipOutcome ==
    ASSUME RxOK, NEW f \in FrameType, RestartInTheMiddle(f)
    PROVE  Skipped(f)
<1>1. /\ rx # NoState /\ ~f.sot /\ Session = rx
      /\ NeedRestart(rx, f, now)
      /\ rx' = SkipTransfer(rx, f) /\ stored' = <<>> /\ UNCHANGED delivered
  BY SessionType DEF RestartInTheMiddle, HasState
<1>2. rx \in StateType /\ ~NotInitialized(rx)
  BY <1>1 DEF RxOK, NotInitialized
<1>3. TidTimedOut(rx, now)
  BY <1>1, <1>2 DEF NeedRestart
<1> DEFINE r == Restarted(rx, f)
           s == SkipTransfer(rx, f)
<1>4. /\ r = [timestamp |-> rx.timestamp, tid |-> f.tid, toggle |-> FALSE,
              iface |-> f.iface, len |-> 0, wrapped |-> FALSE, blocks |-> {}, crc |-> rx.crc,
              expected |-> rx.expected]
      /\ r \in StateType
  BY <1>2, RestartedIs, RestartedType
<1>5. NextTransferId(f.tid) \in TransferId
  BY NextTransferIdType DEF FrameType
<1>6. s = [r EXCEPT !.tid = NextTransferId(f.tid)]
  BY DEF SkipTransfer
<1> HIDE DEF r, s
<1>7. /\ s \in StateType
      /\ s.timestamp = rx.timestamp /\ s.tid = NextTransferId(f.tid) /\ s.toggle = FALSE
      /\ s.iface = f.iface /\ s.len = 0 /\ s.wrapped = FALSE /\ s.blocks = {}
      /\ s.crc = rx.crc /\ s.expected = rx.expected
  BY <1>4, <1>5, <1>6 DEF StateType
<1>8. s = [timestamp |-> rx.timestamp, tid |-> NextTransferId(f.tid), toggle |-> FALSE,
           iface |-> f.iface, len |-> 0, wrapped |-> FALSE, blocks |-> {}, crc |-> rx.crc,
           expected |-> rx.expected]
  BY <1>7, StateIs
<1> QED
  BY <1>1, <1>3, <1>8 DEF Skipped, s

LEMMA SingleOutcome ==
    ASSUME RxOK, now \in Nat, NEW f \in FrameType, SingleFrame(f)
    PROVE  Single(f)
<1>1. /\ f.sot /\ f.eot /\ Expected(f)
      /\ rx' = PreparedForNext([Current(f) EXCEPT !.timestamp = now])
      /\ stored' = <<>>
      /\ delivered' = Append(delivered, Transfer(f, <<f.chunk>>, now))
  BY DEF SingleFrame
<1> DEFINE st == Current(f)
           r == [st EXCEPT !.timestamp = now]
<1>2. /\ st \in StateType
      /\ st.iface = f.iface /\ st.blocks = {}
      /\ st.crc = Session.crc /\ st.expected = Session.expected
      /\ Heard(f)
  BY <1>1, CurrentIs, StartFindsNoBlock DEF Expected
<1>3. st.tid = f.tid \/ ForwardDistance(st.tid, f.tid) = 1
  <2>1. st.tid \in TransferId /\ f.tid \in TransferId
    BY <1>2 DEF StateType, FrameType
  <2>2. CASE ForwardDistance(st.tid, f.tid) <= 1
    BY <2>1, <2>2, TidModAssumption DEF ForwardDistance, TransferId
  <2> QED
    BY <1>1, <2>2, StartFindsNoBlock
<1> HIDE DEF st
<1>4. /\ r \in StateType
      /\ r.timestamp = now /\ r.tid = st.tid /\ r.iface = f.iface /\ r.blocks = {}
      /\ r.crc = Session.crc /\ r.expected = Session.expected
  BY <1>2 DEF StateType
<1> HIDE DEF r
<1>5. PreparedForNext(r) =
          [timestamp |-> now, tid |-> NextTransferId(st.tid), toggle |-> FALSE,
           iface |-> f.iface, len |-> 0, wrapped |-> FALSE, blocks |-> {}, crc |-> Session.crc,
           expected |-> Session.expected]
  BY <1>4, PreparedIs
<1>6. st.tid \in TransferId
  BY <1>2 DEF StateType
<1> QED
  BY <1>1, <1>2, <1>3, <1>5, <1>6 DEF Single, st, r

(* A restart takes the transfer-ID and the toggle of the frame, so that it is not      *)
(* rejected.                                                                  *)
LEMMA RejectedOutcome ==
    ASSUME RxOK, now \in Nat, NEW f \in FrameType, f.sot => ~f.toggle, Rejected(f)
    PROVE  Ignored
<1>1. /\ Expected(f) /\ Synchronising(f)
      /\ f.toggle # Current(f).toggle \/ f.tid # Current(f).tid
      /\ rx' = Current(f) /\ stored' = Kept(f) /\ UNCHANGED delivered
  BY DEF Rejected, OfMultiFrame, Expected
<1>2. ~NeedRestart(Session, f, now)
  <2>1. SUFFICES ASSUME NeedRestart(Session, f, now) PROVE FALSE
    OBVIOUS
  <2>2. f.sot /\ Current(f) = Restarted(Session, f)
    BY <1>1, <2>1, CurrentIs
  <2>3. Current(f).tid = f.tid /\ Current(f).toggle = FALSE
    BY <2>2, SessionType, RestartedIs
  <2>4. f.toggle \in BOOLEAN
    BY DEF FrameType
  <2> QED
    BY <1>1, <2>2, <2>3, <2>4
<1>3. Current(f) = rx
  BY <1>1, <1>2, CurrentIs
<1> QED
  BY <1>1, <1>2, <1>3 DEF Ignored, Kept

LEMMA SeededType == Seeded \in Seq(Word) /\ Len(Seeded) = 1 /\ Seeded[1] = <<0, 1>>
BY DEF Seeded, Word

LEMMA SymbolTypes ==
    ASSUME NEW register \in Seq(Word), NEW chunk \in Word
    PROVE  CrcAdd(register, chunk) \in Seq(Word)
BY DEF CrcAdd

(* What is on the wire has the shape of a payload. *)
LEMMA PayloadType ==
    ASSUME Types, NEW n \in DOMAIN sent
    PROVE  /\ n \in Nat \ {0} /\ sent[n].frames \in Nat \ {0}
           /\ sent[n].tid \in TransferId
           /\ \A k \in Nat : Chunk(n, k) \in Word
           /\ Payload(n) \in Seq(Word) /\ Len(Payload(n)) = sent[n].frames
           /\ \A k \in 1 .. sent[n].frames : Payload(n)[k] = Chunk(n, k)
           /\ TransferCrc(n) \in Seq(Word)
           /\ Len(TransferCrc(n)) = sent[n].frames + 1
<1>1. sent[n] \in Published /\ n \in Nat \ {0}
  <2>1. sent \in Seq(Published)
    BY DEF Types
  <2> QED
    BY <2>1
<1>2. traffic.frames \subseteq Nat \ {0}
  BY RxAssumption DEF Types, Profile
<1>3. sent[n].frames \in Nat \ {0} /\ sent[n].tid \in TransferId
  BY <1>1, <1>2 DEF Published
<1>4. \A k \in Nat : Chunk(n, k) \in Word
  BY <1>1 DEF Chunk, ZeroChunk, Word
<1>5. /\ Payload(n) \in Seq(Word) /\ Len(Payload(n)) = sent[n].frames
      /\ \A k \in 1 .. sent[n].frames : Payload(n)[k] = Chunk(n, k)
  <2>1. \A k \in 1 .. sent[n].frames : Chunk(n, k) \in Word
    BY <1>3, <1>4
  <2> QED
    BY <1>3, <2>1 DEF Payload
<1>6. /\ TransferCrc(n) \in Seq(Word)
      /\ Len(TransferCrc(n)) = sent[n].frames + 1
  <2> DEFINE p == Payload(n)
  <2>1. p \in Seq(Word) /\ Len(p) = sent[n].frames
    BY <1>5
  <2>2. TransferCrc(n) = Seeded \o p
    BY DEF TransferCrc
  <2> HIDE DEF p
  <2>3. Seeded \o p \in Seq(Word) /\ Len(Seeded \o p) = Len(Seeded) + Len(p)
    BY <2>1, SeededType, ConcatProperties
  <2> QED
    BY <1>3, <2>1, <2>2, <2>3, SeededType
<1> QED
  BY <1>1, <1>3, <1>4, <1>5, <1>6

LEMMA StartOutcome ==
    ASSUME Types, RxOK, NEW f \in FrameType, f.n \in DOMAIN sent,
           ~(f.sot /\ f.eot), f.sot => ~f.toggle, StartTransfer(f)
    PROVE  Begun(f)
<1>1. /\ now \in Nat /\ TransferCrc(f.n) \in Seq(Word)
      /\ f.chunk \in Word /\ CrcAdd(Seeded, f.chunk) \in Seq(Word)
  BY PayloadType, SeededType, SymbolTypes DEF Types, FrameType
<1> DEFINE st == Current(f)
           r == [st EXCEPT !.timestamp = now, !.len = Lengthened(0, StartBytes),
                           !.wrapped = FALSE,
                           !.expected = TransferCrc(f.n), !.crc = CrcAdd(Seeded, f.chunk)]
           t == Toggled(r)
<1>2. /\ f.sot /\ ~f.eot /\ Expected(f)
      /\ st.tid = f.tid /\ st.toggle = FALSE
      /\ rx' = t /\ stored' = <<f.chunk>> /\ UNCHANGED delivered
  BY DEF StartTransfer, Accepted, OfMultiFrame, FrameType
<1>3. /\ st \in StateType /\ st.iface = f.iface /\ st.blocks = {} /\ Heard(f)
  BY <1>1, <1>2, CurrentIs, StartFindsNoBlock DEF Expected
<1> HIDE DEF st
<1>4. /\ r \in StateType
      /\ r.timestamp = now /\ r.tid = f.tid /\ r.toggle = FALSE /\ r.iface = f.iface
      /\ r.len = StartBytes /\ r.wrapped = FALSE /\ r.blocks = {}
      /\ r.crc = CrcAdd(Seeded, f.chunk) /\ r.expected = TransferCrc(f.n)
  BY <1>1, <1>2, <1>3, StartLength DEF StateType
<1> HIDE DEF r
<1>5. /\ t \in StateType
      /\ t.timestamp = now /\ t.tid = f.tid /\ t.toggle = TRUE /\ t.iface = f.iface
      /\ t.len = StartBytes /\ t.wrapped = FALSE /\ t.blocks = {}
      /\ t.crc = CrcAdd(Seeded, f.chunk) /\ t.expected = TransferCrc(f.n)
  BY <1>4 DEF Toggled, StateType
<1> HIDE DEF t
<1>6. t = [timestamp |-> now, tid |-> f.tid, toggle |-> TRUE, iface |-> f.iface,
           len |-> StartBytes, wrapped |-> FALSE, blocks |-> {}, crc |-> CrcAdd(Seeded, f.chunk),
           expected |-> TransferCrc(f.n)]
  BY <1>5, StateIs
<1> QED
  BY <1>2, <1>3, <1>6 DEF Begun

LEMMA ContinueOutcome ==
    ASSUME RxOK, NEW f \in FrameType, ContinueTransfer(f)
    PROVE  Continued(f)
<1> DEFINE len == Lengthened(rx.len, FrameBytes)
           over == WrappedNow
           chain == ChainNow
           r == [rx EXCEPT !.len = len, !.wrapped = over, !.blocks = 1 .. chain,
                           !.crc = CrcAdd(@, f.chunk)]
           t == Toggled(r)
<1>1. /\ ~f.sot /\ ~f.eot /\ Expected(f) /\ f.tid = Current(f).tid
      /\ Current(f) = rx /\ Kept(f) = stored /\ rx # NoState /\ rx \in StateType
      /\ rx.iface = f.iface
  BY LaterFindsState DEF ContinueTransfer, Accepted, OfMultiFrame
<1>2. rx' = t /\ stored' = Append(stored, f.chunk) /\ UNCHANGED delivered
  BY <1>1 DEF ContinueTransfer, ChainAfter, ChainNow, WrappedNow
<1>3. CrcAdd(rx.crc, f.chunk) \in Seq(Word)
  BY <1>1, SymbolTypes DEF StateType, FrameType
<1>4. len \in 0 .. LenMod - 1 /\ over \in BOOLEAN /\ 1 .. chain \in SUBSET Nat
  BY <1>1, ContinuedType
<1> HIDE DEF len, over, chain
<1>5. /\ r \in StateType
      /\ r.timestamp = rx.timestamp /\ r.tid = rx.tid /\ r.toggle = rx.toggle
      /\ r.iface = rx.iface /\ r.len = len /\ r.wrapped = over /\ r.blocks = 1 .. chain
      /\ r.crc = CrcAdd(rx.crc, f.chunk) /\ r.expected = rx.expected
  BY <1>1, <1>3, <1>4 DEF StateType
<1> HIDE DEF r
<1>6. /\ t \in StateType
      /\ t.timestamp = rx.timestamp /\ t.tid = rx.tid /\ t.toggle = ~rx.toggle
      /\ t.iface = rx.iface /\ t.len = len /\ t.wrapped = over /\ t.blocks = 1 .. chain
      /\ t.crc = CrcAdd(rx.crc, f.chunk) /\ t.expected = rx.expected
  BY <1>5 DEF Toggled, StateType
<1> HIDE DEF t
<1>7. t = [timestamp |-> rx.timestamp, tid |-> rx.tid, toggle |-> ~rx.toggle,
           iface |-> rx.iface, len |-> len, wrapped |-> over, blocks |-> 1 .. chain,
           crc |-> CrcAdd(rx.crc, f.chunk), expected |-> rx.expected]
  BY <1>6, StateIs
<1> QED
  BY <1>1, <1>2, <1>7 DEF Continued, Wanted, len, over, chain

LEMMA ExhaustedOutcome ==
    ASSUME RxOK, NEW f \in FrameType, StorageExhausted(f)
    PROVE  GivenUp(f)
<1> DEFINE r == Released(rx)
<1>1. /\ ~f.sot /\ ~f.eot /\ Expected(f) /\ f.tid = Current(f).tid
      /\ Current(f) = rx /\ rx # NoState /\ rx \in StateType
      /\ rx.iface = f.iface
  BY LaterFindsState DEF StorageExhausted, Accepted, OfMultiFrame
<1>2. rx' = PreparedForNext(r) /\ stored' = <<>> /\ UNCHANGED delivered
  BY <1>1 DEF StorageExhausted
<1>3. /\ r \in StateType
      /\ r.timestamp = rx.timestamp /\ r.tid = rx.tid /\ r.iface = rx.iface
      /\ r.blocks = {} /\ r.crc = rx.crc /\ r.expected = rx.expected
  BY <1>1, ZeroLength DEF Released, StateType
<1> HIDE DEF r
<1>4. PreparedForNext(r) =
          [timestamp |-> rx.timestamp, tid |-> NextTransferId(rx.tid), toggle |-> FALSE,
           iface |-> rx.iface, len |-> 0, wrapped |-> FALSE, blocks |-> {}, crc |-> rx.crc,
           expected |-> rx.expected]
  BY <1>3, PreparedIs
<1> QED
  BY <1>1, <1>2, <1>4 DEF GivenUp, Wanted

LEMMA EndOutcome ==
    ASSUME RxOK, NEW f \in FrameType, EndTransfer(f)
    PROVE  Ended(f)
<1> DEFINE r == [rx EXCEPT !.blocks = {}, !.crc = CrcAdd(rx.crc, f.chunk)]
<1>1. /\ ~f.sot /\ f.eot /\ Expected(f) /\ f.tid = Current(f).tid
      /\ Current(f) = rx /\ Kept(f) = stored /\ rx # NoState /\ rx \in StateType
      /\ rx.iface = f.iface
  BY LaterFindsState DEF EndTransfer, Accepted, OfMultiFrame
<1>2. /\ rx' = PreparedForNext(r) /\ stored' = <<>>
      /\ delivered' = IF CrcAdd(rx.crc, f.chunk) = rx.expected
                      THEN Append(delivered, Transfer(f, HandedNow(f), rx.timestamp))
                      ELSE delivered
  BY <1>1 DEF EndTransfer, Handed, HandedNow
<1>3. CrcAdd(rx.crc, f.chunk) \in Seq(Word)
  BY <1>1, SymbolTypes DEF StateType, FrameType
<1>4. /\ r \in StateType
      /\ r.timestamp = rx.timestamp /\ r.tid = rx.tid /\ r.iface = rx.iface
      /\ r.blocks = {} /\ r.crc = CrcAdd(rx.crc, f.chunk) /\ r.expected = rx.expected
  BY <1>1, <1>3 DEF StateType
<1> HIDE DEF r
<1>5. PreparedForNext(r) =
          [timestamp |-> rx.timestamp, tid |-> NextTransferId(rx.tid), toggle |-> FALSE,
           iface |-> rx.iface, len |-> 0, wrapped |-> FALSE, blocks |-> {},
           crc |-> CrcAdd(rx.crc, f.chunk), expected |-> rx.expected]
  BY <1>4, PreparedIs
<1> QED
  BY <1>1, <1>2, <1>5 DEF Ended, Wanted

(* A frame of a transfer that was published. *)
IsFrame(f) ==
    /\ f \in FrameType /\ f.n \in DOMAIN sent /\ f.iface \in Ifaces
    /\ f.sot => ~f.toggle

LEMMA Handled ==
    ASSUME Types, RxOK, NEW f, IsFrame(f), HandleRxFrame(f)
    PROVE  Outcome(f)
<1>1. f \in FrameType /\ now \in Nat
  BY RxAssumption DEF IsFrame, Types, Profile
<1>2. CASE MissedStart(f) \/ NoMemoryForState(f) \/ OtherIface(f)
  BY <1>2 DEF MissedStart, NoMemoryForState, OtherIface, Ignored, Outcome
<1>3. CASE RestartInTheMiddle(f)
  BY <1>1, <1>3, SkipOutcome DEF Outcome
<1>4. CASE SingleFrame(f)
  BY <1>1, <1>4, SingleOutcome DEF Outcome
<1>5. CASE Rejected(f)
  BY <1>1, <1>5, RejectedOutcome DEF Outcome, IsFrame
<1>6. CASE StartTransfer(f)
  <2>1. ~(f.sot /\ f.eot)
    BY <1>6 DEF StartTransfer, Accepted, OfMultiFrame
  <2> QED
    BY <1>1, <1>6, <2>1, StartOutcome DEF Outcome, IsFrame
<1>7. CASE ContinueTransfer(f)
  BY <1>1, <1>7, ContinueOutcome DEF Outcome
<1>8. CASE StorageExhausted(f)
  BY <1>1, <1>8, ExhaustedOutcome DEF Outcome
<1>9. CASE EndTransfer(f)
  BY <1>1, <1>9, EndOutcome DEF Outcome
<1> QED
  BY <1>2, <1>3, <1>4, <1>5, <1>6, <1>7, <1>8, <1>9 DEF HandleRxFrame

-----------------------------------------------------------------------------
(* The buses *)

LEMMA ChosenProfile ==
    ASSUME Types
    PROVE  /\ Ifaces \subseteq Nat /\ traffic.frames \subseteq Nat \ {0}
           /\ now \in Nat \ {0} /\ Len(sent) \in Nat /\ DOMAIN sent = 1 .. Len(sent)
           /\ traffic.outstanding \in Nat /\ traffic.delay \in Nat /\ traffic.time \in Nat
           /\ traffic.period \in Nat
<1>1. traffic \in Profile
  BY RxAssumption DEF Types
<1>2. sent \in Seq(Published) /\ now \in 1 .. traffic.time
  BY DEF Types
<1> QED
  BY <1>1, <1>2 DEF Profile, Ifaces

(* The first frame of a bus, and the order of the others after it. *)
LEMMA HeadIs ==
    ASSUME Types, BusOK, NEW i \in Ifaces, bus[i] # <<>>
    PROVE  /\ bus[i] \in Seq(Slot) /\ Head(bus[i]) = bus[i][1] /\ 1 \in DOMAIN bus[i]
           /\ Head(bus[i]) \in On(i) /\ Head(bus[i]) \in Slot
           /\ Head(bus[i])[1] \in DOMAIN sent
           /\ Head(bus[i])[2] \in 1 .. sent[Head(bus[i])[1]].frames
           /\ \A e \in On(i) : e = Head(bus[i]) \/ Precedes(Head(bus[i]), e)
           /\ \A e \in On(i) : Head(bus[i])[3] <= e[3]
<1>1. bus[i] \in Seq(Slot)
  BY DEF BusOK
<1>2. Head(bus[i]) = bus[i][1] /\ 1 \in DOMAIN bus[i] /\ Head(bus[i]) \in Slot
  BY <1>1
<1>3. \A j \in DOMAIN bus[i] : j = 1 \/ 1 < j
  BY <1>1
<1>4. \A j \in DOMAIN bus[i] : bus[i][j] = bus[i][1] \/ Precedes(bus[i][1], bus[i][j])
  BY <1>2, <1>3 DEF BusOK
<1>5. \A j \in DOMAIN bus[i] : bus[i][1][3] <= bus[i][j][3]
  <2>1. bus[i][1][3] <= bus[i][1][3]
    BY <1>2 DEF Slot
  <2> QED
    BY <1>2, <1>3, <2>1 DEF BusOK
<1> QED
  BY <1>1, <1>2, <1>4, <1>5 DEF BusOK, On

LEMMA OnType ==
    ASSUME Types, BusOK, NEW i \in Ifaces, NEW e \in On(i)
    PROVE  /\ e \in Slot /\ e[1] \in DOMAIN sent /\ e[1] \in Nat \ {0} /\ e[1] <= Len(sent)
           /\ e[2] \in 1 .. sent[e[1]].frames /\ e[2] \in Nat \ {0}
           /\ e[3] \in 1 .. now
<1>1. PICK j \in DOMAIN bus[i] : e = bus[i][j]
  BY DEF On
<1>2. bus[i] \in Seq(Slot)
  BY DEF BusOK
<1>3. e \in Slot
  BY <1>1, <1>2
<1>4. e[1] \in DOMAIN sent /\ e[2] \in 1 .. sent[e[1]].frames /\ e[3] \in 1 .. now
  BY <1>1 DEF BusOK
<1>5. sent[e[1]].frames \in Nat
  BY <1>4, PayloadType
<1>6. e[1] \in 1 .. Len(sent) /\ Len(sent) \in Nat
  BY <1>4, ChosenProfile
<1>7. e[2] \in Nat \ {0}
  BY <1>4, <1>5
<1> QED
  BY <1>3, <1>4, <1>6, <1>7

LEMMA FrameIs ==
    ASSUME Types, BusOK, NEW i \in Ifaces, bus[i] # <<>>
    PROVE  LET h == Head(bus[i])
               f == Frame(i)
           IN  /\ IsFrame(f)
               /\ f.n = h[1] /\ f.chunk = Chunk(h[1], h[2]) /\ f.iface = i
               /\ f.tid = sent[h[1]].tid
               /\ f.sot <=> h[2] = 1
               /\ f.eot <=> h[2] = sent[h[1]].frames
<1> DEFINE h == Head(bus[i])
           f == Frame(i)
<1>1. /\ h[1] \in DOMAIN sent /\ h[1] \in Nat
      /\ h[2] \in Nat /\ sent[h[1]].frames \in Nat
      /\ Chunk(h[1], h[2]) \in Word
      /\ sent[h[1]].tid \in TransferId
      /\ i \in Nat
  BY HeadIs, OnType, PayloadType, ChosenProfile
<1>2. f = [n |-> h[1], chunk |-> Chunk(h[1], h[2]), iface |-> i, sot |-> h[2] = 1,
           eot |-> h[2] = sent[h[1]].frames, toggle |-> h[2] % 2 = 0,
           tid |-> sent[h[1]].tid]
  BY DEF Frame
<1> HIDE DEF f, h
<1>3. f \in FrameType
  BY <1>1, <1>2 DEF FrameType
<1>4. f.sot => ~f.toggle
  <2>1. h[2] = 1 => ~(h[2] % 2 = 0)
    BY SMT
  <2>2. (f.sot <=> h[2] = 1) /\ (f.toggle <=> h[2] % 2 = 0)
    BY <1>2
  <2> QED
    BY <2>1, <2>2
<1>5. IsFrame(f)
  BY <1>1, <1>2, <1>3, <1>4 DEF IsFrame
<1>6. /\ f.n = h[1] /\ f.chunk = Chunk(h[1], h[2]) /\ f.iface = i
      /\ f.tid = sent[h[1]].tid
      /\ f.sot <=> h[2] = 1
      /\ f.eot <=> h[2] = sent[h[1]].frames
  BY <1>2
<1> QED
  BY <1>5, <1>6 DEF f, h

(* A frame leaves the bus. *)
LEMMA TailBus ==
    ASSUME Types, BusOK, NEW i \in Ifaces, bus[i] # <<>>,
           bus' = [bus EXCEPT ![i] = Tail(@)], UNCHANGED <<traffic, now, sent>>
    PROVE  /\ BusOK'
           /\ \A l \in Ifaces : l # i => On(l)' = On(l)
           /\ On(i)' \subseteq On(i)
           /\ \A e \in On(i) : e = Head(bus[i]) \/ e \in On(i)'
           /\ \A e \in On(i)' : Precedes(Head(bus[i]), e)
<1> DEFINE b == bus[i]
           t == Tail(bus[i])
<1>1. b \in Seq(Slot) /\ b # <<>> /\ bus \in [Ifaces -> Seq(Slot)]
  BY DEF BusOK
<1>2. /\ t \in Seq(Slot) /\ Len(t) = Len(b) - 1 /\ Len(b) \in Nat
      /\ DOMAIN t = 1 .. Len(t) /\ DOMAIN b = 1 .. Len(b)
      /\ \A j \in DOMAIN t : t[j] = b[j + 1]
      /\ Head(b) = b[1]
  BY <1>1
<1>3. /\ bus' \in [Ifaces -> Seq(Slot)]
      /\ bus'[i] = t /\ \A l \in Ifaces : l # i => bus'[l] = bus[l]
      /\ Ifaces' = Ifaces
  BY <1>1, <1>2 DEF Ifaces
<1> HIDE DEF t
<1>4. \A j \in DOMAIN t : j + 1 \in DOMAIN b /\ j \in Nat /\ 1 < j + 1
  BY <1>2
<1>5. ASSUME NEW l \in Ifaces, NEW j \in DOMAIN bus'[l]
      PROVE  /\ bus'[l][j][1] \in DOMAIN sent
             /\ bus'[l][j][2] \in 1 .. sent[bus'[l][j][1]].frames
             /\ bus'[l][j][3] \in 1 .. now
             /\ \A m \in DOMAIN bus'[l] : j < m =>
                   Precedes(bus'[l][j], bus'[l][m]) /\ bus'[l][j][3] <= bus'[l][m][3]
  <2>1. CASE l # i
    BY <1>3, <1>5, <2>1 DEF BusOK
  <2>2. CASE l = i
    <3>1. bus'[l] = t
      BY <1>3, <2>2
    <3>2. t[j] = b[j + 1] /\ j + 1 \in DOMAIN b
      BY <1>2, <1>4, <1>5, <3>1
    <3>3. ASSUME NEW m \in DOMAIN t, j < m
          PROVE  t[m] = b[m + 1] /\ m + 1 \in DOMAIN b /\ j + 1 < m + 1
      BY <1>2, <1>4, <1>5, <3>1, <3>3
    <3> QED
      BY <3>1, <3>2, <3>3 DEF BusOK
  <2> QED
    BY <2>1, <2>2
<1>6. BusOK'
  <2>1. sent' = sent /\ now' = now
    OBVIOUS
  <2>2. (bus \in [Ifaces -> Seq(Slot)])'
    BY <1>3
  <2>3. \A l \in Ifaces' : \A j \in DOMAIN bus'[l] :
          /\ bus'[l][j][1] \in DOMAIN sent'
          /\ bus'[l][j][2] \in 1 .. sent'[bus'[l][j][1]].frames
          /\ bus'[l][j][3] \in 1 .. now'
          /\ \A m \in DOMAIN bus'[l] : j < m =>
                Precedes(bus'[l][j], bus'[l][m]) /\ bus'[l][j][3] <= bus'[l][m][3]
    BY <1>3, <1>5, <2>1
  <2> QED
    BY <2>2, <2>3 DEF BusOK
<1>7. \A l \in Ifaces : l # i => On(l)' = On(l)
  BY <1>3 DEF On
<1>8. On(i)' = {t[j] : j \in DOMAIN t} /\ On(i) = {b[j] : j \in DOMAIN b}
  BY <1>3 DEF On
<1>9. On(i)' \subseteq On(i)
  BY <1>2, <1>4, <1>8
<1>10. \A e \in On(i) : e = Head(bus[i]) \/ e \in On(i)'
  <2>1. SUFFICES ASSUME NEW j \in DOMAIN b, j # 1
                 PROVE  b[j] \in On(i)'
    BY <1>2, <1>8
  <2>2. j - 1 \in DOMAIN t /\ (j - 1) + 1 = j
    BY <1>2, <2>1
  <2> QED
    BY <1>2, <1>8, <2>2
<1>11. \A e \in On(i)' : Precedes(Head(bus[i]), e)
  <2>1. SUFFICES ASSUME NEW j \in DOMAIN t
                 PROVE  Precedes(b[1], t[j])
    BY <1>2, <1>8
  <2>2. /\ 1 \in DOMAIN b /\ j + 1 \in DOMAIN b /\ 1 < j + 1 /\ t[j] = b[j + 1]
    BY <1>2, <1>4
  <2> QED
    BY <2>2 DEF BusOK
<1> QED
  BY <1>6, <1>7, <1>9, <1>10, <1>11

(* A transfer is put on every bus. *)
LEMMA PublishBus ==
    ASSUME Types, BusOK, NEW frames \in traffic.frames, NEW zero \in ZeroKinds,
           Publish(frames, zero)
    PROVE  /\ Types' /\ BusOK'
           /\ Len(sent') = Len(sent) + 1
           /\ \A n \in DOMAIN sent : n \in DOMAIN sent' /\ sent'[n] = sent[n]
           /\ sent'[Len(sent) + 1] = [frames |-> frames, zero |-> zero, tid |-> nextTid]
           /\ \A i \in Ifaces :
                 /\ On(i) \subseteq On(i)'
                 /\ \A e \in On(i)' \ On(i) : e[1] = Len(sent) + 1 /\ e[3] = now
                 /\ \E e \in On(i)' : e[1] = Len(sent) + 1
                 /\ \A k \in 1 .. frames : \E e \in On(i)' : e[1] = Len(sent) + 1 /\ e[2] = k
<1> DEFINE n == Len(sent) + 1
           new == [frames |-> frames, zero |-> zero, tid |-> nextTid]
           more == [k \in 1 .. frames |-> <<n, k, now>>]
<1>1. /\ sent' = Append(sent, new)
      /\ nextTid' = NextTransferId(nextTid)
      /\ bus' = [i \in Ifaces |-> bus[i] \o more]
      /\ UNCHANGED <<traffic, now, rx, stored, delivered, gone, budget>>
  BY DEF Publish
<1>2. /\ frames \in Nat \ {0} /\ now \in Nat \ {0} /\ n \in Nat /\ Len(sent) \in Nat
      /\ DOMAIN sent = 1 .. Len(sent) /\ sent \in Seq(Published)
  BY ChosenProfile DEF Types
<1>3. new \in Published
  BY DEF Published, Types
<1>4. /\ sent' \in Seq(Published) /\ Len(sent') = n
      /\ DOMAIN sent' = 1 .. n /\ sent'[n] = new
      /\ \A m \in DOMAIN sent : m \in DOMAIN sent' /\ sent'[m] = sent[m]
  <2> HIDE DEF new
  <2> QED
    BY <1>1, <1>2, <1>3
<1>5. Types'
  <2>1. traffic' \in Profiles /\ (now \in 1 .. traffic.time)' /\ (Published = Published')
    BY <1>1 DEF Types, Published
  <2>2. nextTid' \in TransferId
    BY <1>1, NextTransferIdType DEF Types
  <2>3. /\ (stored \in Seq(Word))' /\ (delivered \in Seq(Delivery))'
        /\ \A j \in DOMAIN delivered' : delivered'[j].n \in DOMAIN sent'
    BY <1>1, <1>4 DEF Types
  <2> QED
    BY <1>4, <2>1, <2>2, <2>3 DEF Types
<1>6. /\ more \in Seq(Slot) /\ Len(more) = frames /\ DOMAIN more = 1 .. frames
      /\ \A k \in 1 .. frames : more[k] = <<n, k, now>>
  <2>1. \A k \in 1 .. frames : <<n, k, now>> \in Slot
    BY <1>2 DEF Slot
  <2> HIDE DEF n
  <2> QED
    BY <1>2, <2>1
<1> HIDE DEF more, new
<1>7. ASSUME NEW i \in Ifaces
      PROVE  /\ bus[i] \in Seq(Slot) /\ Len(bus[i]) \in Nat /\ DOMAIN bus[i] = 1 .. Len(bus[i])
             /\ bus'[i] \in Seq(Slot)
             /\ DOMAIN bus'[i] = 1 .. Len(bus[i]) + frames
             /\ \A j \in DOMAIN bus[i] : j \in DOMAIN bus'[i] /\ bus'[i][j] = bus[i][j]
             /\ \A j \in DOMAIN bus'[i] \ DOMAIN bus[i] :
                   bus'[i][j] = <<n, j - Len(bus[i]), now>> /\ j - Len(bus[i]) \in 1 .. frames
  <2> DEFINE b == bus[i]
             c == bus'[i]
  <2>1. b \in Seq(Slot) /\ c = b \o more
    BY <1>1 DEF BusOK
  <2> HIDE DEF b, c
  <2>2. Len(b) \in Nat /\ DOMAIN b = 1 .. Len(b)
    BY <2>1
  <2>3. /\ c \in Seq(Slot) /\ Len(c) = Len(b) + Len(more)
        /\ \A j \in 1 .. Len(b) + Len(more) :
              c[j] = IF j <= Len(b) THEN b[j] ELSE more[j - Len(b)]
    BY <2>1, <1>6, ConcatProperties
  <2>4. DOMAIN c = 1 .. Len(b) + frames
    BY <2>3, <1>6
  <2>5. \A j \in DOMAIN b : j \in DOMAIN c /\ c[j] = b[j]
    BY <2>2, <2>3, <2>4, <1>2, <1>6
  <2>6. \A j \in DOMAIN c \ DOMAIN b :
           c[j] = <<n, j - Len(b), now>> /\ j - Len(b) \in 1 .. frames
    <3>1. SUFFICES ASSUME NEW j \in DOMAIN c \ DOMAIN b
                   PROVE  c[j] = <<n, j - Len(b), now>> /\ j - Len(b) \in 1 .. frames
      OBVIOUS
    <3>2. j \in Int /\ ~(j <= Len(b)) /\ j - Len(b) \in 1 .. frames /\ j \in 1 .. Len(b) + Len(more)
      BY <2>2, <2>4, <3>1, <1>2, <1>6
    <3>3. c[j] = more[j - Len(b)]
      BY <2>3, <3>2
    <3> QED
      BY <1>6, <3>2, <3>3
  <2> QED
    BY <2>1, <2>2, <2>3, <2>4, <2>5, <2>6 DEF b, c
<1>8. bus' \in [Ifaces' -> Seq(Slot)] /\ Ifaces' = Ifaces
  <2>1. Ifaces' = Ifaces
    BY <1>1 DEF Ifaces
  <2>2. \A i \in Ifaces : bus'[i] \in Seq(Slot)
    BY <1>7
  <2> QED
    BY <1>1, <2>1, <2>2
<1>9. ASSUME NEW i \in Ifaces, NEW j \in DOMAIN bus'[i]
      PROVE  /\ bus'[i][j][1] \in DOMAIN sent'
             /\ bus'[i][j][2] \in 1 .. sent'[bus'[i][j][1]].frames
             /\ bus'[i][j][3] \in 1 .. now
             /\ \A m \in DOMAIN bus'[i] : j < m =>
                   Precedes(bus'[i][j], bus'[i][m]) /\ bus'[i][j][3] <= bus'[i][m][3]
  <2>1. CASE j \in DOMAIN bus[i]
    <3>1. bus'[i][j] = bus[i][j]
      BY <1>7, <2>1
    <3>2. /\ bus[i][j][1] \in DOMAIN sent
          /\ bus[i][j][2] \in 1 .. sent[bus[i][j][1]].frames
          /\ bus[i][j][3] \in 1 .. now
      BY <2>1 DEF BusOK
    <3>3. ASSUME NEW m \in DOMAIN bus'[i], j < m
          PROVE  Precedes(bus[i][j], bus'[i][m]) /\ bus[i][j][3] <= bus'[i][m][3]
      <4>1. CASE m \in DOMAIN bus[i]
        <5>1. bus'[i][m] = bus[i][m]
          BY <1>7, <4>1
        <5> QED
          BY <2>1, <3>3, <4>1, <5>1 DEF BusOK
      <4>2. CASE m \notin DOMAIN bus[i]
        <5>1. bus'[i][m] = <<n, m - Len(bus[i]), now>>
          BY <1>7, <3>3, <4>2
        <5>2. bus[i][j][1] < n /\ bus[i][j][3] <= now
          BY <1>2, <3>2
        <5> QED
          BY <5>1, <5>2 DEF Precedes
      <4> QED
        BY <4>1, <4>2
    <3> QED
      BY <1>4, <3>1, <3>2, <3>3
  <2>2. CASE j \notin DOMAIN bus[i]
    <3>1. bus'[i][j] = <<n, j - Len(bus[i]), now>> /\ j - Len(bus[i]) \in 1 .. frames
      BY <1>7, <1>9, <2>2
    <3>2. n \in DOMAIN sent' /\ sent'[n].frames = frames
      BY <1>2, <1>4 DEF new
    <3>3. ASSUME NEW m \in DOMAIN bus'[i], j < m
          PROVE  bus'[i][m] = <<n, m - Len(bus[i]), now>> /\ j - Len(bus[i]) < m - Len(bus[i])
      <4>0. /\ DOMAIN bus[i] = 1 .. Len(bus[i]) /\ DOMAIN bus'[i] = 1 .. Len(bus[i]) + frames
            /\ Len(bus[i]) \in Nat
        BY <1>7
      <4>1. m \notin DOMAIN bus[i] /\ j \in Int /\ m \in Int
        BY <4>0, <1>2, <1>9, <2>2, <3>3
      <4>2. bus'[i][m] = <<n, m - Len(bus[i]), now>> /\ Len(bus[i]) \in Nat
        BY <1>7, <3>3, <4>1
      <4> QED
        BY <3>3, <4>1, <4>2
    <3>4. \A m \in DOMAIN bus'[i] : j < m =>
              Precedes(bus'[i][j], bus'[i][m]) /\ bus'[i][j][3] <= bus'[i][m][3]
      BY <1>2, <3>1, <3>3 DEF Precedes
    <3>5. /\ bus'[i][j][1] = n /\ bus'[i][j][2] \in 1 .. frames /\ bus'[i][j][3] = now
          /\ now \in 1 .. now
      BY <1>2, <3>1
    <3> QED
      BY <3>2, <3>4, <3>5
  <2> QED
    BY <2>1, <2>2
<1>10. BusOK'
  <2>1. now' = now
    BY <1>1
  <2>2. \A i \in Ifaces' : \A j \in DOMAIN bus'[i] :
          /\ bus'[i][j][1] \in DOMAIN sent'
          /\ bus'[i][j][2] \in 1 .. sent'[bus'[i][j][1]].frames
          /\ bus'[i][j][3] \in 1 .. now'
          /\ \A m \in DOMAIN bus'[i] : j < m =>
                Precedes(bus'[i][j], bus'[i][m]) /\ bus'[i][j][3] <= bus'[i][m][3]
    BY <1>8, <1>9, <2>1
  <2> QED
    BY <1>8, <2>2 DEF BusOK
<1>11. ASSUME NEW i \in Ifaces
       PROVE  /\ On(i) \subseteq On(i)'
              /\ \A e \in On(i)' \ On(i) : e[1] = n /\ e[3] = now
              /\ \E e \in On(i)' : e[1] = n
              /\ \A k \in 1 .. frames : \E e \in On(i)' : e[1] = n /\ e[2] = k
  <2>1. On(i) \subseteq On(i)'
    BY <1>7 DEF On
  <2>2. \A e \in On(i)' \ On(i) : e[1] = n /\ e[3] = now
    <3>1. SUFFICES ASSUME NEW j \in DOMAIN bus'[i], bus'[i][j] \notin On(i)
                   PROVE  bus'[i][j][1] = n /\ bus'[i][j][3] = now
      BY DEF On
    <3>2. j \notin DOMAIN bus[i]
      BY <1>7, <3>1 DEF On
    <3> QED
      BY <1>7, <3>1, <3>2
  <2>3. Len(bus[i]) + 1 \in DOMAIN bus'[i] \ DOMAIN bus[i]
    BY <1>2, <1>7
  <2>4. bus'[i][Len(bus[i]) + 1][1] = n
    BY <1>7, <2>3
  <2>5. ASSUME NEW k \in 1 .. frames
        PROVE  \E e \in On(i)' : e[1] = n /\ e[2] = k
    <3> DEFINE j == Len(bus[i]) + k
    <3>1. j \in DOMAIN bus'[i] \ DOMAIN bus[i] /\ j - Len(bus[i]) = k
      BY <1>2, <1>7, <2>5
    <3>2. bus'[i][j] = <<n, k, now>>
      BY <1>7, <3>1
    <3>3. bus'[i][j] \in On(i)'
      BY <3>1 DEF On
    <3> QED
      BY <3>2, <3>3
  <2> QED
    BY <2>1, <2>2, <2>3, <2>4, <2>5 DEF On
<1> QED
  BY <1>4, <1>5, <1>10, <1>11 DEF new

-----------------------------------------------------------------------------
(* Types *)

(* A state that has stored nothing, and one that has stored a first frame. *)
LEMMA NothingStored ==
    ASSUME rx'.len = 0, rx'.wrapped = FALSE, rx'.blocks = {}, stored' = <<>>
    PROVE  StorageOK'
<1>1. 0 \in Nat /\ rx'.blocks = 1 .. 0 /\ Len(stored') = 0
  OBVIOUS
<1> QED
  BY <1>1 DEF StorageOK, FrameBytes

LEMMA FirstStored ==
    ASSUME rx'.len = StartBytes, rx'.wrapped = FALSE, rx'.blocks = {}, NEW w, stored' = <<w>>
    PROVE  StorageOK'
<1>1. 0 \in Nat /\ rx'.blocks = 1 .. 0 /\ Len(stored') = 1 /\ stored' # <<>>
  OBVIOUS
<1> QED
  BY <1>1 DEF StorageOK, FrameBytes, StartBytes

(* Another frame: payload_len wraps, or counts what is stored. *)
LEMMA MoreStored ==
    ASSUME RxOK, rx # NoState, stored \in Seq(Word), NEW w, stored' = Append(stored, w),
           rx'.len = Lengthened(rx.len, FrameBytes), rx'.wrapped = WrappedNow,
           rx'.blocks = 1 .. ChainNow
    PROVE  StorageOK'
<1>1. /\ rx.len \in 0 .. LenMod - 1 /\ rx.wrapped \in BOOLEAN /\ LenMod \in Nat
      /\ ChainNow \in Nat
  BY SessionAssumption, ContinuedType DEF RxOK, StateType
<1>2. Len(stored) \in Nat /\ Len(stored') = Len(stored) + 1 /\ stored' # <<>>
  OBVIOUS
<1>3. rx.len + 7 < LenMod => Lengthened(rx.len, 7) = rx.len + 7
  BY <1>1, LengthenedType
<1>4. /\ ~rx.wrapped => rx.len <= 7 * Len(stored)
      /\ rx.wrapped => LenMod <= 7 * Len(stored)
  BY DEF RxOK, StorageOK, FrameBytes
<1>5. /\ ~rx'.wrapped => rx'.len <= 7 * Len(stored')
      /\ rx'.wrapped => LenMod <= 7 * Len(stored')
  <2> DEFINE L == Len(stored)
  <2>1. L \in Nat /\ Len(stored') = L + 1
    BY <1>2
  <2>2. /\ ~rx.wrapped => rx.len <= 7 * L
        /\ rx.wrapped => LenMod <= 7 * L
    BY <1>4
  <2>3. /\ rx'.wrapped <=> rx.wrapped \/ rx.len + 7 >= LenMod
        /\ rx'.len = Lengthened(rx.len, 7)
    BY DEF WrappedNow, FrameBytes
  <2> HIDE DEF L
  <2>4. CASE rx.wrapped
    BY <1>1, <2>1, <2>2, <2>3, <2>4
  <2>5. CASE ~rx.wrapped /\ rx.len + 7 >= LenMod
    BY <1>1, <2>1, <2>2, <2>3, <2>5
  <2>6. CASE ~rx.wrapped /\ rx.len + 7 < LenMod
    BY <1>1, <1>3, <2>1, <2>2, <2>3, <2>6
  <2> QED
    BY <1>1, <2>4, <2>5, <2>6
<1> QED
  BY <1>1, <1>2, <1>5 DEF StorageOK, FrameBytes

(* canardHandleRxFrame keeps the state within its fields, and its blocks a chain.        *)
LEMMA HandledType ==
    ASSUME Types, RxOK, NEW f, IsFrame(f), HandleRxFrame(f),
           UNCHANGED <<traffic, now, nextTid, sent>>
    PROVE  Types' /\ RxOK'
<1>1. Outcome(f)
  BY Handled
<1>2. /\ now \in Nat \ {0} /\ f.chunk \in Word /\ f.tid \in TransferId /\ f.iface \in Nat
      /\ f.iface \in Ifaces /\ Ifaces' = Ifaces /\ f.n \in DOMAIN sent /\ f.n \in Nat
      /\ NextTransferId(f.tid) \in TransferId
      /\ TransferCrc(f.n) \in Seq(Word)
      /\ CrcAdd(Seeded, f.chunk) \in Seq(Word)
  BY ChosenProfile, PayloadType, SeededType, SymbolTypes, NextTransferIdType
     DEF IsFrame, FrameType, Ifaces
<1>3. Session \in StateType
  BY SessionType
<1>4. rx # NoState => /\ rx \in StateType /\ rx.timestamp \in 1 .. now /\ rx.iface \in Ifaces
                      /\ CrcAdd(rx.crc, f.chunk) \in Seq(Word)
  BY <1>2, SymbolTypes DEF RxOK, StateType
<1>5. 0 \in 0 .. LenMod - 1
  BY SessionAssumption
<1>6. RxOK'
  <2>1. CASE Ignored
    <3>1. StorageOK' <=> StorageOK
      BY <2>1 DEF Ignored, StorageOK
    <3> QED
      BY <1>2, <2>1, <3>1 DEF Ignored, RxOK
  <2>2. CASE Skipped(f)
    <3>1. rx' \in StateType
      BY <1>2, <1>4, <1>5, <2>2 DEF Skipped, StateType
    <3>2. StorageOK'
      BY <2>2, NothingStored DEF Skipped
    <3> QED
      BY <1>2, <1>4, <2>2, <3>1, <3>2 DEF Skipped, RxOK
  <2>3. CASE Single(f)
    <3>1. PICK tid \in TransferId :
             rx' = [timestamp |-> now, tid |-> NextTransferId(tid), toggle |-> FALSE,
                    iface |-> f.iface, len |-> 0, wrapped |-> FALSE, blocks |-> {},
                    crc |-> Session.crc, expected |-> Session.expected]
      BY <2>3 DEF Single
    <3>2. rx' \in StateType
      BY <1>2, <1>3, <1>5, <3>1, NextTransferIdType DEF StateType
    <3>3. StorageOK'
      BY <2>3, <3>1, NothingStored DEF Single
    <3> QED
      BY <1>2, <3>1, <3>2, <3>3 DEF RxOK
  <2>4. CASE Begun(f)
    <3>1. rx' \in StateType
      BY <1>2, <2>4, StartLength DEF Begun, StateType
    <3>2. StorageOK'
      BY <2>4, FirstStored DEF Begun
    <3> QED
      BY <1>2, <2>4, <3>1, <3>2 DEF Begun, RxOK
  <2>5. CASE Continued(f)
    <3>1. /\ Lengthened(rx.len, FrameBytes) \in 0 .. LenMod - 1 /\ WrappedNow \in BOOLEAN
          /\ 1 .. ChainNow \in SUBSET Nat
      BY <2>5, ContinuedType DEF Continued, Wanted
    <3>3. /\ rx.timestamp \in Nat /\ rx.tid \in TransferId
          /\ rx.iface \in Nat /\ CrcAdd(rx.crc, f.chunk) \in Seq(Word)
          /\ rx.expected \in Seq(Word)
      BY <1>4, <2>5 DEF Continued, Wanted, StateType
    <3>6. (~rx.toggle) \in BOOLEAN
      OBVIOUS
    <3>4. rx' = [timestamp |-> rx.timestamp, tid |-> rx.tid, toggle |-> ~rx.toggle,
                 iface |-> rx.iface, len |-> Lengthened(rx.len, FrameBytes),
                 wrapped |-> WrappedNow, blocks |-> 1 .. ChainNow,
                 crc |-> CrcAdd(rx.crc, f.chunk), expected |-> rx.expected]
      BY <2>5 DEF Continued
    <3>5. rx' \in StateType
      BY <3>1, <3>3, <3>4, <3>6 DEF StateType
    <3>7. StorageOK'
      <4>1. rx # NoState /\ stored' = Append(stored, f.chunk) /\ stored \in Seq(Word)
        BY <2>5 DEF Continued, Wanted, Types
      <4>2. /\ rx'.len = Lengthened(rx.len, FrameBytes) /\ rx'.wrapped = WrappedNow
            /\ rx'.blocks = 1 .. ChainNow
        BY <3>4
      <4> QED
        BY <4>1, <4>2, MoreStored
    <3> QED
      BY <1>2, <1>4, <2>5, <3>4, <3>5, <3>7 DEF Continued, Wanted, RxOK
  <2>6. CASE GivenUp(f)
    <3>1. rx' \in StateType
      BY <1>2, <1>4, <1>5, <2>6 DEF GivenUp, Wanted, StateType
    <3>2. StorageOK'
      BY <2>6, NothingStored DEF GivenUp
    <3> QED
      BY <1>2, <1>4, <2>6, <3>1, <3>2 DEF GivenUp, Wanted, RxOK
  <2>7. CASE Ended(f)
    <3>1. rx' \in StateType
      BY <1>2, <1>4, <1>5, <2>7 DEF Ended, Wanted, StateType
    <3>2. StorageOK'
      BY <2>7, NothingStored DEF Ended
    <3> QED
      BY <1>2, <1>4, <2>7, <3>1, <3>2 DEF Ended, Wanted, RxOK
  <2> QED
    BY <1>1, <2>1, <2>2, <2>3, <2>4, <2>5, <2>6, <2>7 DEF Outcome
<1>7. stored' \in Seq(Word)
  <2>1. stored \in Seq(Word)
    BY DEF Types
  <2>2. <<>> \in Seq(Word) /\ <<f.chunk>> \in Seq(Word) /\ Append(stored, f.chunk) \in Seq(Word)
    BY <1>2, <2>1
  <2> QED
    BY <1>1, <2>1, <2>2
       DEF Outcome, Ignored, Skipped, Single, Begun, Continued, GivenUp, Ended
<1>8. /\ delivered' \in Seq(Delivery)
      /\ \A j \in DOMAIN delivered' : delivered'[j].n \in DOMAIN sent'
  <2>1. /\ delivered \in Seq(Delivery) /\ stored \in Seq(Word)
        /\ \A j \in DOMAIN delivered : delivered[j].n \in DOMAIN sent
        /\ sent' = sent
    BY DEF Types
  <2>2. ASSUME NEW payload \in Seq(Word), NEW started \in 1 .. now,
               delivered' = Append(delivered, Transfer(f, payload, started))
        PROVE  /\ delivered' \in Seq(Delivery)
               /\ \A j \in DOMAIN delivered' : delivered'[j].n \in DOMAIN sent'
    <3> DEFINE new == Transfer(f, payload, started)
    <3>1. new \in Delivery /\ new.n \in DOMAIN sent
      BY <1>2 DEF Transfer, Delivery
    <3> HIDE DEF new
    <3> QED
      BY <2>1, <2>2, <3>1 DEF new
  <2>3. CASE Single(f)
    <3>1. <<f.chunk>> \in Seq(Word) /\ now \in 1 .. now
      BY <1>2
    <3> QED
      BY <2>2, <2>3, <3>1 DEF Single
  <2>4. CASE Ended(f)
    <3>1. HandedNow(f) \in Seq(Word) /\ rx.timestamp \in 1 .. now
      BY <1>2, <1>4, <2>1, <2>4, HandedType DEF Ended, Wanted
    <3> QED
      BY <2>1, <2>2, <2>4, <3>1 DEF Ended
  <2>5. CASE UNCHANGED delivered
    BY <2>1, <2>5
  <2> QED
    BY <1>1, <2>3, <2>4, <2>5 DEF Outcome, Ignored, Skipped, Begun, Continued, GivenUp
<1>9. (Published = Published') /\ traffic' \in Profiles /\ (now \in 1 .. traffic.time)'
      /\ nextTid' \in TransferId /\ (sent \in Seq(Published))'
  BY DEF Types, Published
<1> QED
  BY <1>6, <1>7, <1>8, <1>9 DEF Types

LEMMA TypeInit == Init => TypeInv
<1> SUFFICES ASSUME Init PROVE TypeInv
  OBVIOUS
<1>1. traffic \in Profile
  BY RxAssumption DEF Init
<1>2. Types
  <2>1. now \in 1 .. traffic.time /\ nextTid \in TransferId
    BY <1>1, TidModAssumption DEF Init, Profile, TransferId
  <2> QED
    BY <2>1 DEF Init, Types
<1>3. BusOK
  BY DEF Init, BusOK
<1> QED
  BY <1>2, <1>3 DEF Init, TypeInv, RxOK

LEMMA TypeStep == TypeInv /\ [Next]_vars => TypeInv'
<1> SUFFICES ASSUME TypeInv, [Next]_vars PROVE TypeInv'
  OBVIOUS
<1> USE DEF TypeInv
<1>1. ASSUME NEW frames \in traffic.frames, NEW zero \in ZeroKinds, Publish(frames, zero)
      PROVE  TypeInv'
  <2>1. Types' /\ BusOK'
    BY <1>1, PublishBus
  <2>2. UNCHANGED <<traffic, now, rx, stored>>
    BY <1>1 DEF Publish
  <2> QED
    BY <2>1, <2>2 DEF RxOK, StorageOK, Ifaces
<1>2. CASE RestartPublisher
  <2>1. nextTid' \in TransferId
    BY <1>2, TidModAssumption DEF RestartPublisher, TransferId
  <2> QED
    BY <1>2, <2>1 DEF RestartPublisher, Types, Published, BusOK, RxOK, StorageOK, Ifaces
<1>3. ASSUME NEW i \in Ifaces, Receive(i)
      PROVE  TypeInv'
  <2>1. /\ bus[i] # <<>> /\ HandleRxFrame(Frame(i)) /\ IsFrame(Frame(i))
        /\ bus' = [bus EXCEPT ![i] = Tail(@)]
        /\ UNCHANGED <<traffic, now, nextTid, sent>>
    BY <1>3, FrameIs DEF Receive
  <2> QED
    BY <2>1, HandledType, TailBus
<1>4. ASSUME NEW i \in Ifaces, ReceiveAndRepeat(i)
      PROVE  TypeInv'
  <2>1. /\ bus[i] # <<>> /\ HandleRxFrame(Frame(i)) /\ IsFrame(Frame(i))
        /\ UNCHANGED <<traffic, now, nextTid, sent, bus>>
    BY <1>4, FrameIs DEF ReceiveAndRepeat
  <2>2. Types' /\ RxOK'
    BY <2>1, HandledType
  <2>3. BusOK'
    BY <2>1 DEF BusOK, Ifaces
  <2> QED
    BY <2>2, <2>3
<1>5. ASSUME NEW i \in Ifaces, Lose(i)
      PROVE  TypeInv'
  <2>1. /\ bus[i] # <<>> /\ bus' = [bus EXCEPT ![i] = Tail(@)]
        /\ UNCHANGED <<traffic, now, nextTid, wait, sent, rx, stored, delivered>>
    BY <1>5 DEF Lose
  <2>2. BusOK'
    BY <2>1, TailBus
  <2>3. Types' /\ RxOK'
    BY <2>1 DEF Types, Published, RxOK, StorageOK, Ifaces
  <2> QED
    BY <2>2, <2>3
<1>6. CASE Cleanup
  BY <1>6 DEF Cleanup, Types, Published, BusOK, RxOK, StorageOK, Ifaces
<1>7. CASE Tick
  <2>1. /\ now < traffic.time /\ now' = now + 1
        /\ UNCHANGED <<traffic, nextTid, sent, bus, rx, stored, delivered, gone, budget>>
    BY <1>7 DEF Tick
  <2>2. now' \in 1 .. traffic.time /\ \A t \in 1 .. now : t \in 1 .. now'
    BY <2>1, ChosenProfile
  <2>3. Types'
    BY <2>1, <2>2 DEF Types, Published
  <2>4. BusOK'
    BY <2>1, <2>2 DEF BusOK, Ifaces
  <2>5. RxOK'
    BY <2>1, <2>2 DEF RxOK, StorageOK, Ifaces
  <2> QED
    BY <2>3, <2>4, <2>5
<1>8. CASE UNCHANGED vars
  BY <1>8 DEF vars, Types, Published, BusOK, RxOK, StorageOK, Ifaces
<1> QED
  BY <1>1, <1>2, <1>3, <1>4, <1>5, <1>6, <1>7, <1>8 DEF Next

LEMMA TypeInvariant == Spec => []TypeInv
<1> QED
  BY TypeInit, TypeStep, PTL DEF Spec

(* Whatever the buses and the memory do, the fields of the state keep the ranges of   *)
(* their bit-fields, payload_len through the mask of canard.c:1570 and 1642, however    *)
(* long the transfers are, and the blocks of the state are those of one chain.         *)
THEOREM RxTypeCorrect == Spec => []TypeOK
<1>1. TypeInv => TypeOK
  <2>1. SUFFICES ASSUME TypeInv PROVE TypeOK
    OBVIOUS
  <2>2. rx # NoState => rx.blocks = 1 .. Cardinality(rx.blocks)
    BY <2>1, ChainType DEF TypeInv
  <2>3. ASSUME rx # NoState
        PROVE  /\ rx.timestamp \in 0 .. now /\ rx.tid \in TransferId /\ rx.toggle \in BOOLEAN
               /\ rx.iface \in Ifaces /\ rx.len \in 0 .. LenMod - 1 /\ rx.wrapped \in BOOLEAN
    <3>1. rx \in StateType /\ rx.timestamp \in 1 .. now /\ rx.iface \in Ifaces /\ now \in Nat
      BY <2>1, <2>3, ChosenProfile DEF TypeInv, Types, RxOK
    <3> QED
      BY <3>1 DEF StateType
  <2>4. \A i \in Ifaces : \A j \in DOMAIN bus[i] :
           bus[i][j][1] \in DOMAIN sent /\ bus[i][j][2] \in 1 .. sent[bus[i][j][1]].frames
    BY <2>1 DEF TypeInv, BusOK
  <2> QED
    BY <2>1, <2>2, <2>3, <2>4 DEF TypeInv, TypeOK, Types, Published
<1> QED
  BY <1>1, TypeInvariant, PTL

(* The assertion of prepareForNextTransfer holds on every path through                *)
(* canardHandleRxFrame, whichever frames came before and whichever were lost.         *)
THEOREM NoBlockLeftBehind == Spec => NoBlockAfterTransfer
<1>1. TypeInv' => (rx # NoState /\ rx' # NoState /\ stored' = <<>> => rx'.blocks = {})
  BY DEF TypeInv, RxOK, StorageOK
<1> QED
  BY <1>1, TypeInvariant, PTL DEF NoBlockAfterTransfer

-----------------------------------------------------------------------------
(* Delivery *)

(* The number of the last transfer delivered. *)
Last == IF delivered = <<>> THEN 0 ELSE delivered[Len(delivered)].n

(* Nothing that is added to the register makes it what is expected. *)
Hopeless(crc, expected) ==
    \/ Len(crc) >= Len(expected)
    \/ \E q \in DOMAIN crc : q \in DOMAIN expected /\ crc[q] # expected[q]

(* The state has begun a transfer that it may still complete: which one. *)
Open == rx # NoState /\ ~Hopeless(rx.crc, rx.expected)
Owner == rx.expected[2][1]

(* The interface of the state, and every one if there is no state, brings nothing    *)
(* but frames of later transfers and those of the last one that do not count.       *)
NothingTwice ==
    \A i \in Ifaces : rx = NoState \/ rx.iface = i =>
        \A e \in On(i) :
            /\ e[1] >= Last
            /\ e[1] = Last => e[2] > 1 /\ (rx # NoState => rx.tid # sent[Last].tid)

(* The register holds the transfer as far as it is stored, or no frame of that one     *)
(* is accepted any more.                                                        *)
OneTransfer ==
    Open =>
        /\ Owner \in DOMAIN sent /\ sent[Owner].frames >= 2
        /\ rx.expected = TransferCrc(Owner)
        /\ Len(rx.crc) >= 1
        /\ \A e \in On(rx.iface) : e[1] >= Owner
        /\ \/ rx.crc = Seeded \o stored
           \/ \A e \in On(rx.iface) : e[1] = Owner => rx.tid # sent[Owner].tid

Intact ==
    \A j \in DOMAIN delivered : Fits(delivered[j].n) =>
        delivered[j].payload = Payload(delivered[j].n)

Inv == TypeInv /\ NothingTwice /\ OneTransfer /\ Intact

(* What makes the state leave its interface brings it nothing that it has had. *)
SwitchSafe ==
    rx # NoState => \A i \in Ifaces \ {rx.iface} :
        /\ bus[i] # <<>>
        /\ \/ TidTimedOut(rx, now)
           \/ Frame(i).sot /\ NonWrappedTid(rx.tid, Frame(i).tid)
        => Frame(i).n > Last /\ (Open => Frame(i).n >= Owner)

(* No payload of zeros, and no single-frame transfer that the bus repeats: those two    *)
(* are known to break what follows, see ReportedOnce and PayloadIsEffective.          *)
Regular == ZeroKinds = {FALSE} /\ RepeatSingles = FALSE

LEMMA LastType ==
    ASSUME Types
    PROVE  /\ Last \in Nat /\ Last <= Len(sent)
           /\ Last # 0 => Last \in DOMAIN sent
<1>1. delivered \in Seq(Delivery) /\ \A j \in DOMAIN delivered : delivered[j].n \in DOMAIN sent
  BY DEF Types
<1>2. CASE delivered = <<>>
  BY <1>2, ChosenProfile DEF Last
<1>3. CASE delivered # <<>>
  <2>1. Len(delivered) \in DOMAIN delivered
    BY <1>1, <1>3
  <2> QED
    BY <1>1, <1>3, <2>1, ChosenProfile DEF Last
<1> QED
  BY <1>2, <1>3

(* Append and the question whether a register may still become what is expected. *)
LEMMA HopelessForGood ==
    ASSUME NEW crc \in Seq(Word), NEW expected \in Seq(Word), NEW c \in Word,
           Hopeless(crc, expected)
    PROVE  Hopeless(Append(crc, c), expected) /\ Append(crc, c) # expected
<1> DEFINE more == Append(crc, c)
<1>1. /\ more \in Seq(Word) /\ Len(more) = Len(crc) + 1 /\ Len(crc) \in Nat
      /\ DOMAIN more = 1 .. Len(crc) + 1 /\ DOMAIN crc = 1 .. Len(crc)
      /\ \A q \in DOMAIN crc : more[q] = crc[q]
      /\ Len(expected) \in Nat
  OBVIOUS
<1> HIDE DEF more
<1>2. CASE Len(crc) >= Len(expected)
  BY <1>1, <1>2 DEF more, Hopeless
<1>3. ASSUME NEW q \in DOMAIN crc, q \in DOMAIN expected, crc[q] # expected[q]
      PROVE  Hopeless(more, expected) /\ more # expected
  <2>1. q \in DOMAIN more /\ more[q] = crc[q]
    BY <1>1
  <2> QED
    BY <1>3, <2>1 DEF Hopeless
<1> QED
  BY <1>2, <1>3 DEF Hopeless, more

LEMMA StillHopeful ==
    ASSUME NEW crc \in Seq(Word), NEW expected \in Seq(Word), NEW c \in Word,
           ~Hopeless(Append(crc, c), expected)
    PROVE  /\ ~Hopeless(crc, expected)
           /\ Len(crc) + 1 < Len(expected)
           /\ expected[Len(crc) + 1] = c
<1>1. ~Hopeless(crc, expected)
  BY HopelessForGood
<1> DEFINE more == Append(crc, c)
<1>2. /\ Len(more) = Len(crc) + 1 /\ Len(crc) \in Nat /\ Len(expected) \in Nat
      /\ Len(crc) + 1 \in DOMAIN more /\ more[Len(crc) + 1] = c
      /\ DOMAIN expected = 1 .. Len(expected)
  OBVIOUS
<1> HIDE DEF more
<1>3. Len(crc) + 1 < Len(expected)
  BY <1>2 DEF more, Hopeless
<1>4. Len(crc) + 1 \in DOMAIN expected
  BY <1>2, <1>3
<1>5. expected[Len(crc) + 1] = c
  BY <1>2, <1>4 DEF more, Hopeless
<1> QED
  BY <1>1, <1>3, <1>5

(* Every chunk tells which frame it is from. *)
LEMMA PlainChunks ==
    ASSUME Types, Regular, NEW n \in DOMAIN sent
    PROVE  /\ \A k \in Nat : Chunk(n, k) = <<n, k>>
           /\ \A k \in Nat, register \in Seq(Word) :
                 CrcAdd(register, Chunk(n, k)) = Append(register, <<n, k>>)
           /\ \A q \in 2 .. sent[n].frames + 1 : TransferCrc(n)[q] = <<n, q - 1>>
           /\ TransferCrc(n)[1] = <<0, 1>>
           /\ \A k \in 1 .. sent[n].frames : Payload(n)[k] = <<n, k>>
<1>1. sent[n].zero = FALSE /\ n \in Nat \ {0} /\ sent[n].frames \in Nat \ {0}
  <2>1. sent \in Seq(Published)
    BY DEF Types
  <2>2. sent[n] \in Published
    BY <2>1
  <2> QED
    BY <2>2, PayloadType DEF Published, Regular
<1>2. \A k \in Nat : Chunk(n, k) = <<n, k>>
  BY <1>1 DEF Chunk
<1>3. \A k \in Nat : <<n, k>> # ZeroChunk
  BY <1>1 DEF ZeroChunk
<1>4. \A k \in Nat, register \in Seq(Word) :
          CrcAdd(register, Chunk(n, k)) = Append(register, <<n, k>>)
  BY <1>2, <1>3 DEF CrcAdd
<1>5. \A k \in 1 .. sent[n].frames : Payload(n)[k] = <<n, k>>
  BY <1>1, <1>2, PayloadType
<1> DEFINE p == Payload(n)
<1>6. p \in Seq(Word) /\ Len(p) = sent[n].frames /\ TransferCrc(n) = Seeded \o p
  BY PayloadType DEF TransferCrc
<1>7. \A q \in 1 .. 1 + sent[n].frames :
          TransferCrc(n)[q] = IF q <= 1 THEN Seeded[q] ELSE p[q - 1]
  <2> HIDE DEF p
  <2>1. \A q \in 1 .. Len(Seeded) + Len(p) :
           (Seeded \o p)[q] = IF q <= Len(Seeded) THEN Seeded[q] ELSE p[q - Len(Seeded)]
    BY <1>6, SeededType, ConcatProperties
  <2> QED
    BY <1>6, <2>1, SeededType
<1>8. \A q \in 2 .. sent[n].frames + 1 : TransferCrc(n)[q] = <<n, q - 1>>
  <2>1. SUFFICES ASSUME NEW q \in 2 .. sent[n].frames + 1
                 PROVE  TransferCrc(n)[q] = <<n, q - 1>>
    OBVIOUS
  <2>2. q \in 1 .. 1 + sent[n].frames /\ ~(q <= 1) /\ q - 1 \in 1 .. sent[n].frames
    BY <1>1
  <2>3. TransferCrc(n)[q] = p[q - 1]
    BY <1>7, <2>2
  <2> QED
    BY <1>5, <2>2, <2>3
<1>9. TransferCrc(n)[1] = <<0, 1>>
  BY <1>1, <1>7, SeededType
<1> QED
  BY <1>2, <1>4, <1>5, <1>8, <1>9

(* The frame at the head of a bus, and those that are still to come after it. *)
Coming(i) ==
    \A e \in On(i)' :
        \/ Precedes(Head(bus[i]), e)
        \/ (e = Head(bus[i]) /\ ~(Frame(i).sot /\ Frame(i).eot))

(* What is assumed of a step that handles a frame of interface i. *)
Handles(i) ==
    /\ bus[i] # <<>>
    /\ HandleRxFrame(Frame(i))
    /\ UNCHANGED <<traffic, now, nextTid, sent>>
    /\ \A l \in Ifaces : On(l)' \subseteq On(l)
    /\ Coming(i)

LEMMA HandlesFacts ==
    ASSUME Inv, Regular, NEW i \in Ifaces, Handles(i)
    PROVE  LET f == Frame(i)
               k == Head(bus[i])[2]
           IN  /\ IsFrame(f) /\ Outcome(f) /\ f.iface = i
               /\ f.n \in DOMAIN sent /\ f.n \in Nat \ {0} /\ f.tid = sent[f.n].tid
               /\ f.tid \in TransferId /\ NextTransferId(f.tid) # f.tid
               /\ k \in 1 .. sent[f.n].frames /\ k \in Nat /\ sent[f.n].frames \in Nat
               /\ f.chunk = <<f.n, k>> /\ f.chunk \in Word
               /\ \A register \in Seq(Word) :
                     CrcAdd(register, f.chunk) = Append(register, f.chunk)
               /\ f.sot <=> k = 1
               /\ f.eot <=> k = sent[f.n].frames
               /\ Head(bus[i]) \in On(i) /\ Head(bus[i])[1] = f.n
               /\ \A e \in On(i)' :
                     /\ e \in On(i) /\ e[1] \in Nat /\ e[2] \in Nat /\ e[1] \in DOMAIN sent
                     /\ e[2] <= sent[e[1]].frames
                     /\ e[1] >= f.n /\ (e[1] = f.n => e[2] >= k)
                     /\ e[1] = f.n => ~(f.sot /\ f.eot)
<1> DEFINE f == Frame(i)
           h == Head(bus[i])
           k == h[2]
<1>1. /\ IsFrame(f) /\ f.n = h[1] /\ f.chunk = Chunk(h[1], h[2]) /\ f.iface = i
      /\ f.tid = sent[h[1]].tid
      /\ f.sot <=> h[2] = 1
      /\ f.eot <=> h[2] = sent[h[1]].frames
  BY FrameIs DEF Inv, TypeInv, Handles
<1>2. /\ h \in On(i) /\ h[1] \in DOMAIN sent /\ h[1] \in Nat \ {0}
      /\ k \in 1 .. sent[h[1]].frames /\ k \in Nat \ {0}
  BY HeadIs, OnType DEF Inv, TypeInv, Handles
<1>3. /\ sent[h[1]].frames \in Nat /\ sent[h[1]].tid \in TransferId
      /\ Chunk(h[1], k) = <<h[1], k>>
      /\ \A register \in Seq(Word) :
            CrcAdd(register, Chunk(h[1], k)) = Append(register, <<h[1], k>>)
  BY <1>2, PayloadType, PlainChunks DEF Inv, TypeInv
<1>4. Outcome(f)
  BY <1>1, Handled DEF Inv, TypeInv, Handles
<1>5. NextTransferId(f.tid) # f.tid
  <2>1. f.tid \in TransferId
    BY <1>1, <1>3
  <2> QED
    BY <2>1, TidModAssumption DEF NextTransferId, TransferId
<1>6. f.chunk \in Word
  BY <1>1 DEF IsFrame, FrameType
<1>7. \A e \in On(i)' : e \in On(i) /\ e[1] \in Nat /\ e[2] \in Nat /\ e[1] \in DOMAIN sent
                        /\ e[2] <= sent[e[1]].frames
  <2>1. SUFFICES ASSUME NEW e \in On(i)'
                 PROVE  e \in On(i) /\ e[1] \in Nat /\ e[2] \in Nat /\ e[1] \in DOMAIN sent
                        /\ e[2] <= sent[e[1]].frames
    OBVIOUS
  <2>2. e \in On(i)
    BY DEF Handles
  <2>3. /\ e[1] \in DOMAIN sent /\ e[1] \in Nat /\ e[2] \in Nat /\ e[2] \in 1 .. sent[e[1]].frames
    BY <2>2, OnType DEF Inv, TypeInv
  <2>4. sent[e[1]].frames \in Nat
    BY <2>3, PayloadType DEF Inv, TypeInv
  <2> QED
    BY <2>2, <2>3, <2>4
<1>8. \A e \in On(i)' : Precedes(h, e) \/ (e = h /\ ~(f.sot /\ f.eot))
  BY DEF Handles, Coming
<1> HIDE DEF f, h
<1>9. \A e \in On(i)' : /\ e[1] >= f.n /\ (e[1] = f.n => e[2] >= k)
                        /\ e[1] = f.n => ~(f.sot /\ f.eot)
  <2>1. SUFFICES ASSUME NEW e \in On(i)'
                 PROVE  /\ e[1] >= f.n /\ (e[1] = f.n => e[2] >= k)
                        /\ e[1] = f.n => ~(f.sot /\ f.eot)
    OBVIOUS
  <2>2. CASE Precedes(h, e)
    BY <1>1, <1>2, <1>3, <1>7, <2>2 DEF Precedes
  <2>3. CASE e = h /\ ~(f.sot /\ f.eot)
    BY <1>1, <1>2, <1>3, <2>3
  <2> QED
    BY <1>8, <2>2, <2>3
<1> QED
  BY <1>1, <1>2, <1>3, <1>4, <1>5, <1>6, <1>7, <1>9 DEF f, h

(* What may be accepted is newer than what was delivered last, and no older than what    *)
(* the state has begun.                                                         *)
LEMMA NothingOld ==
    ASSUME Inv, SwitchSafe, Regular, NEW i \in Ifaces, Handles(i)
    PROVE  LET f == Frame(i)
           IN  /\ (f.sot /\ Heard(f)) \/ Wanted(f) => f.n > Last
               /\ Skipped(f) => f.n >= Last /\ (f.n = Last => rx.iface = i)
               /\ Open /\ ((f.sot /\ Heard(f)) \/ Wanted(f) \/ Skipped(f)) => f.n >= Owner
<1> DEFINE f == Frame(i)
           h == Head(bus[i])
<1>1. /\ f.n \in Nat /\ f.tid = sent[f.n].tid /\ f.iface = i
      /\ f.sot <=> h[2] = 1
      /\ h \in On(i) /\ h[1] = f.n
  BY HandlesFacts
<1>2. Last \in Nat
  BY LastType DEF Inv, TypeInv
<1>3. CASE rx = NoState
  <2>1. h[1] >= Last /\ (h[1] = Last => h[2] > 1)
    BY <1>1, <1>3 DEF Inv, NothingTwice
  <2> QED
    BY <1>1, <1>2, <1>3, <2>1 DEF Open, Wanted, Skipped
<1>4. CASE rx # NoState /\ rx.iface = i
  <2>1. h[1] >= Last /\ (h[1] = Last => h[2] > 1 /\ rx.tid # sent[Last].tid)
    BY <1>1, <1>4 DEF Inv, NothingTwice
  <2>2. Open => h[1] >= Owner
    BY <1>1, <1>4 DEF Inv, OneTransfer
  <2>3. f.n = Last => ~f.sot /\ ~Wanted(f)
    BY <1>1, <2>1 DEF Wanted
  <2>4. f.n >= Last /\ (Open => f.n >= Owner)
    BY <1>1, <2>1, <2>2
  <2> HIDE DEF f, h
  <2>5. (f.sot /\ Heard(f)) \/ Wanted(f) => f.n > Last
    BY <1>1, <1>2, <2>3, <2>4
  <2> QED
    BY <1>4, <2>4, <2>5 DEF f
<1>5. CASE rx # NoState /\ rx.iface # i
  <2>1. i \in Ifaces \ {rx.iface} /\ bus[i] # <<>>
    BY <1>5 DEF Handles
  <2>2. (f.sot /\ Heard(f)) \/ Skipped(f) =>
            TidTimedOut(rx, now) \/ (f.sot /\ NonWrappedTid(rx.tid, f.tid))
    BY <1>1, <1>5 DEF Heard, Skipped
  <2>3. (f.sot /\ Heard(f)) \/ Skipped(f) => f.n > Last /\ (Open => f.n >= Owner)
    BY <1>5, <2>1, <2>2 DEF SwitchSafe
  <2>4. ~Wanted(f)
    BY <1>1, <1>5 DEF Wanted
  <2>5. f.n > Last => f.n >= Last /\ f.n # Last
    BY <1>1, <1>2
  <2> HIDE DEF f
  <2> QED
    BY <2>3, <2>4, <2>5 DEF f
<1> QED
  BY <1>3, <1>4, <1>5

LEMMA LastAfter ==
    ASSUME Types, NEW r, delivered' = Append(delivered, r)
    PROVE  Last' = r.n
<1>1. delivered \in Seq(Delivery)
  BY DEF Types
<1>2. /\ delivered' # <<>> /\ Len(delivered') = Len(delivered) + 1
      /\ delivered'[Len(delivered) + 1] = r
  BY <1>1
<1> QED
  BY <1>2 DEF Last

LEMMA LastSame ==
    ASSUME UNCHANGED delivered
    PROVE  Last' = Last
BY DEF Last

LEMMA NothingTwiceStep ==
    ASSUME Inv, SwitchSafe, Regular, NEW i \in Ifaces, Handles(i)
    PROVE  NothingTwice'
<1> DEFINE f == Frame(i)
           k == Head(bus[i])[2]
<1>1. /\ Outcome(f) /\ f.iface = i /\ f.tid = sent[f.n].tid
      /\ f.n \in Nat /\ k \in Nat \ {0} /\ NextTransferId(f.tid) # f.tid
      /\ f.sot <=> k = 1
      /\ f.eot <=> k = sent[f.n].frames
      /\ Last \in Nat
  BY HandlesFacts, LastType DEF Inv, TypeInv
<1>2. \A e \in On(i)' : /\ e[1] \in Nat /\ e[2] \in Nat /\ e \in On(i)
                        /\ e[2] <= sent[e[1]].frames
                        /\ e[1] >= f.n /\ (e[1] = f.n => e[2] >= k)
                        /\ e[1] = f.n => ~(f.sot /\ f.eot)
  BY HandlesFacts
<1>3. /\ (f.sot /\ Heard(f)) \/ Wanted(f) => f.n > Last
      /\ Skipped(f) => f.n >= Last /\ (f.n = Last => rx.iface = i)
  BY NothingOld
<1>4. Ifaces' = Ifaces /\ sent' = sent /\ \A l \in Ifaces : On(l)' \subseteq On(l)
  BY DEF Handles, Ifaces
<1>5. CASE Ignored
  <2>1. Last' = Last /\ rx' = rx
    BY <1>5, LastSame DEF Ignored
  <2> QED
    BY <1>4, <2>1 DEF Inv, NothingTwice
<1>6. ASSUME rx' # NoState, rx'.iface = i,
             \A e \in On(i)' : /\ e[1] >= Last'
                               /\ e[1] = Last' => e[2] > 1 /\ rx'.tid # sent[Last'].tid
      PROVE  NothingTwice'
  BY <1>4, <1>6 DEF NothingTwice
<1>7. CASE Skipped(f)
  <2>1. /\ Last' = Last /\ rx' # NoState /\ rx'.iface = i
        /\ rx'.tid = NextTransferId(f.tid) /\ rx # NoState
    BY <1>1, <1>7, LastSame DEF Skipped, NoState
  <2>2. ASSUME NEW e \in On(i)'
        PROVE  /\ e[1] >= Last
               /\ e[1] = Last => e[2] > 1 /\ rx'.tid # sent[Last].tid
    <3>1. f.n >= Last /\ e[1] >= f.n
      BY <1>2, <1>3, <1>7, <2>2
    <3>2. e[1] >= Last /\ (e[1] = Last => f.n = Last)
      BY <1>1, <1>2, <2>2, <3>1
    <3>3. e[1] = Last => e[2] > 1
      BY <1>2, <1>3, <1>7, <2>1, <2>2, <3>2 DEF Inv, NothingTwice
    <3> QED
      BY <1>1, <2>1, <3>2, <3>3
  <2> HIDE DEF f
  <2> QED
    BY <1>6, <2>1, <2>2
<1>8. CASE Single(f)
  <2>1. /\ f.sot /\ f.eot /\ Heard(f) /\ rx'.iface = i /\ rx' # NoState
        /\ delivered' = Append(delivered, Transfer(f, <<f.chunk>>, now))
    <3>1. PICK tid \in TransferId :
             rx' = [timestamp |-> now, tid |-> NextTransferId(tid), toggle |-> FALSE,
                    iface |-> f.iface, len |-> 0, wrapped |-> FALSE, blocks |-> {},
                    crc |-> Session.crc, expected |-> Session.expected]
      BY <1>8 DEF Single
    <3>2. rx' # NoState /\ rx'.iface = i
      BY <1>1, <3>1 DEF NoState
    <3> QED
      BY <1>8, <3>2 DEF Single
  <2>2. Last' = f.n
    BY <2>1, LastAfter DEF Transfer, Inv, TypeInv
  <2>3. \A e \in On(i)' : e[1] > f.n
    BY <1>1, <1>2, <2>1
  <2>4. \A e \in On(i)' : e[1] >= f.n /\ e[1] # f.n
    BY <1>1, <1>2, <2>3
  <2> HIDE DEF f
  <2> QED
    BY <1>6, <2>1, <2>2, <2>4
<1>9. ASSUME f.n > Last, rx' # NoState, rx'.iface = i, Last' = Last
      PROVE  NothingTwice'
  <2>1. \A e \in On(i)' : e[1] >= Last /\ e[1] # Last
    BY <1>1, <1>2, <1>9
  <2> QED
    BY <1>6, <1>9, <2>1
<1>10. CASE Begun(f)
  BY <1>1, <1>3, <1>9, <1>10, LastSame DEF Begun, NoState
<1>11. CASE Continued(f)
  BY <1>1, <1>3, <1>9, <1>11, LastSame DEF Continued, Wanted, NoState
<1>12. CASE GivenUp(f)
  BY <1>1, <1>3, <1>9, <1>12, LastSame DEF GivenUp, Wanted, NoState
<1>13. CASE Ended(f)
  <2>1. /\ Wanted(f) /\ rx.iface = i /\ ~f.sot /\ rx' # NoState /\ rx'.iface = i
        /\ rx'.tid = NextTransferId(f.tid)
    BY <1>1, <1>13 DEF Ended, Wanted, NoState
  <2>2. CASE UNCHANGED delivered
    BY <1>3, <1>9, <2>1, <2>2, LastSame
  <2>3. CASE delivered' = Append(delivered, Transfer(f, HandedNow(f), rx.timestamp))
    <3>1. Last' = f.n
      BY <2>3, LastAfter DEF Transfer, Inv, TypeInv
    <3>2. \A e \in On(i)' : e[1] >= f.n /\ (e[1] = f.n => e[2] > 1)
      BY <1>1, <1>2, <2>1
    <3> HIDE DEF f
    <3> QED
      BY <1>1, <1>6, <2>1, <3>1, <3>2
  <2> QED
    BY <1>13, <2>2, <2>3 DEF Ended
<1> QED
  BY <1>1, <1>5, <1>7, <1>8, <1>10, <1>11, <1>12, <1>13 DEF Outcome

(* The register after a frame of the transfer that the state expects: either nothing    *)
(* can come of it, or it still holds one transfer from its beginning.                *)
LEMMA RegisterGrows ==
    ASSUME Inv, SwitchSafe, Regular, NEW i \in Ifaces, Handles(i), Wanted(Frame(i)),
           Open, rx.expected[Len(rx.crc) + 1] = Frame(i).chunk,
           Len(rx.crc) + 1 <= Len(rx.expected)
    PROVE  LET f == Frame(i)
               k == Head(bus[i])[2]
           IN  /\ f.n = Owner /\ rx.expected = TransferCrc(f.n)
               /\ rx.crc = Seeded \o stored
               /\ k = Len(rx.crc) /\ Len(rx.expected) = sent[f.n].frames + 1
               /\ CrcAdd(rx.crc, f.chunk) = Seeded \o Append(stored, f.chunk)
<1> DEFINE f == Frame(i)
           k == Head(bus[i])[2]
           m == Owner
           q == Len(rx.crc) + 1
<1>1. /\ f.chunk = <<f.n, k>> /\ f.chunk \in Word /\ f.tid = sent[f.n].tid
      /\ f.iface = i /\ f.n \in Nat /\ k \in Nat
      /\ Head(bus[i]) \in On(i) /\ Head(bus[i])[1] = f.n
  BY HandlesFacts
<1>2. /\ rx # NoState /\ rx.iface = i /\ rx.tid = f.tid
      /\ rx.crc \in Seq(Word) /\ stored \in Seq(Word)
  BY <1>1 DEF Wanted, Inv, TypeInv, RxOK, StateType, Types
<1>3. /\ m \in DOMAIN sent /\ rx.expected = TransferCrc(m) /\ Len(rx.crc) >= 1
      /\ \/ rx.crc = Seeded \o stored
         \/ \A e \in On(i) : e[1] = m => rx.tid # sent[m].tid
  BY <1>2 DEF Inv, OneTransfer
<1>4. Len(rx.expected) = sent[m].frames + 1 /\ sent[m].frames \in Nat
  BY <1>3, PayloadType DEF Inv, TypeInv
<1>5. q \in 2 .. sent[m].frames + 1
  BY <1>2, <1>3, <1>4
<1> HIDE DEF f, m
<1>6. <<f.n, k>> = <<m, q - 1>>
  <2>1. TransferCrc(m)[q] = <<m, q - 1>>
    BY <1>3, <1>5, PlainChunks DEF Inv, TypeInv
  <2> QED
    BY <1>1, <1>3, <2>1 DEF f
<1>7. f.n = m /\ k = q - 1
  BY <1>6
<1>8. rx.crc = Seeded \o stored
  BY <1>1, <1>2, <1>3, <1>7
<1>9. k = Len(rx.crc)
  BY <1>2, <1>7
<1>10. CrcAdd(rx.crc, f.chunk) = Append(rx.crc, f.chunk)
  <2>1. f.chunk = Chunk(m, k)
    BY <1>1, <1>3, <1>7, PlainChunks DEF Inv, TypeInv
  <2>2. \A j \in Nat, register \in Seq(Word) :
           CrcAdd(register, Chunk(m, j)) = Append(register, <<m, j>>)
    BY <1>3, PlainChunks DEF Inv, TypeInv
  <2>3. CrcAdd(rx.crc, Chunk(m, k)) = Append(rx.crc, <<m, k>>)
    BY <1>1, <1>2, <2>2
  <2> QED
    BY <1>1, <1>7, <2>1, <2>3
<1>11. Append(Seeded \o stored, f.chunk) = Seeded \o Append(stored, f.chunk)
  <2> DEFINE c == f.chunk
  <2>1. c \in Word /\ stored \in Seq(Word) /\ Seeded \in Seq(Word)
    BY <1>1, <1>2, SeededType DEF f
  <2> HIDE DEF c
  <2>2. Seeded \o stored \in Seq(Word) /\ <<c>> \in Seq(Word)
    BY <2>1, ConcatProperties
  <2>3. Append(Seeded \o stored, c) = (Seeded \o stored) \o <<c>>
    BY <2>1, <2>2, AppendIsConcat
  <2>4. Append(stored, c) = stored \o <<c>>
    BY <2>1, AppendIsConcat
  <2>5. (Seeded \o stored) \o <<c>> = Seeded \o (stored \o <<c>>)
    BY <2>1, <2>2, ConcatAssociative
  <2> QED
    BY <2>3, <2>4, <2>5 DEF c
<1> QED
  BY <1>3, <1>4, <1>7, <1>8, <1>9, <1>10, <1>11 DEF f, m

(* A step that leaves the register alone, but not the transfer-ID that goes with it. *)
LEMMA RegisterKept ==
    ASSUME Inv, NEW i \in Ifaces, Handles(i), rx # NoState, rx' # NoState,
           rx'.crc = rx.crc, rx'.expected = rx.expected, rx'.iface = i,
           Open => \A e \in On(i)' : e[1] >= Owner,
           Open => \A e \in On(i)' : e[1] = Owner => rx'.tid # sent[Owner].tid
    PROVE  OneTransfer'
<1>1. (Open <=> Open') /\ Owner' = Owner
  BY DEF Open, Owner
<1>2. sent' = sent
  BY DEF Handles
<1>3. Open => /\ Owner \in DOMAIN sent /\ sent[Owner].frames >= 2
              /\ rx.expected = TransferCrc(Owner) /\ Len(rx.crc) >= 1
  BY DEF Inv, OneTransfer
<1>4. TransferCrc(Owner)' = TransferCrc(Owner)
  BY <1>1, <1>2 DEF TransferCrc, Payload, Chunk
<1> QED
  BY <1>1, <1>2, <1>3, <1>4 DEF OneTransfer

LEMMA OneTransferStep ==
    ASSUME Inv, SwitchSafe, Regular, NEW i \in Ifaces, Handles(i)
    PROVE  OneTransfer'
<1> DEFINE f == Frame(i)
           k == Head(bus[i])[2]
<1>1. /\ Outcome(f) /\ f.iface = i /\ f.tid = sent[f.n].tid /\ f.n \in DOMAIN sent
      /\ f.n \in Nat /\ k \in Nat \ {0} /\ NextTransferId(f.tid) # f.tid
      /\ f.chunk = <<f.n, k>> /\ f.chunk \in Word
      /\ \A register \in Seq(Word) : CrcAdd(register, f.chunk) = Append(register, f.chunk)
      /\ f.sot <=> k = 1
      /\ f.eot <=> k = sent[f.n].frames
      /\ sent[f.n].frames \in Nat /\ k <= sent[f.n].frames
  BY HandlesFacts
<1>2. \A e \in On(i)' : e[1] \in Nat /\ e[1] >= f.n
  BY HandlesFacts
<1>3. Open /\ ((f.sot /\ Heard(f)) \/ Wanted(f) \/ Skipped(f)) => f.n >= Owner
  BY NothingOld
<1>4. Ifaces' = Ifaces /\ sent' = sent /\ \A l \in Ifaces : On(l)' \subseteq On(l)
  BY DEF Handles, Ifaces
<1>5. Open => Owner \in DOMAIN sent /\ Owner \in Nat /\ sent[Owner].frames >= 2
  BY ChosenProfile DEF Inv, TypeInv, OneTransfer
<1>6. rx # NoState => /\ rx.crc \in Seq(Word) /\ rx.expected \in Seq(Word)
                      /\ rx.iface \in Ifaces
  BY DEF Inv, TypeInv, RxOK, StateType
<1>7. ASSUME Open, (f.sot /\ Heard(f)) \/ Wanted(f) \/ Skipped(f)
      PROVE  \A e \in On(i)' : e[1] >= Owner /\ (e[1] = Owner => f.n = Owner)
  <2>1. f.n >= Owner
    BY <1>3, <1>7
  <2> HIDE DEF f
  <2> QED
    BY <1>1, <1>2, <1>5, <1>7, <2>1
<1>8. CASE Ignored
  <2>1. rx' = rx /\ stored' = stored
    BY <1>8 DEF Ignored
  <2>2. (Open <=> Open') /\ Owner' = Owner /\ TransferCrc(Owner)' = TransferCrc(Owner)
    <3>1. (Open <=> Open') /\ Owner' = Owner
      BY <2>1 DEF Open, Owner
    <3>2. TransferCrc(Owner)' = TransferCrc(Owner)
      BY <1>4, <3>1 DEF TransferCrc, Payload, Chunk
    <3> QED
      BY <3>1, <3>2
  <2>3. Open => On(rx.iface)' \subseteq On(rx.iface)
    BY <1>4, <1>6, <2>1 DEF Open
  <2>4. Open => /\ Owner \in DOMAIN sent /\ sent[Owner].frames >= 2
                /\ rx.expected = TransferCrc(Owner)
                /\ Len(rx.crc) >= 1
                /\ \A e \in On(rx.iface)' : e[1] >= Owner
                /\ \/ rx.crc = Seeded \o stored
                   \/ \A e \in On(rx.iface)' : e[1] = Owner => rx.tid # sent[Owner].tid
    BY <2>3 DEF Inv, OneTransfer
  <2> QED
    BY <1>4, <2>1, <2>2, <2>4 DEF OneTransfer
<1>9. CASE Skipped(f)
  <2>1. /\ rx # NoState /\ rx' # NoState /\ rx'.crc = rx.crc /\ rx'.expected = rx.expected
        /\ rx'.iface = i /\ rx'.tid = NextTransferId(f.tid)
    BY <1>1, <1>9 DEF Skipped, NoState
  <2> QED
    BY <1>1, <1>7, <1>9, <2>1, RegisterKept
<1>10. CASE Single(f)
  <2>1. PICK tid \in TransferId :
           rx' = [timestamp |-> now, tid |-> NextTransferId(tid), toggle |-> FALSE,
                  iface |-> f.iface, len |-> 0, wrapped |-> FALSE, blocks |-> {},
                  crc |-> Session.crc, expected |-> Session.expected]
    BY <1>10 DEF Single
  <2>2. rx' # NoState /\ rx'.iface = i /\ rx'.crc = Session.crc /\ rx'.expected = Session.expected
    BY <1>1, <2>1 DEF NoState
  <2>3. f.sot /\ f.eot /\ Heard(f)
    BY <1>10 DEF Single
  <2>4. CASE rx = NoState
    <3>1. rx'.crc = <<>> /\ rx'.expected = <<>>
      BY <2>2, <2>4 DEF Session, NewState
    <3>2. ~Open'
      BY <3>1 DEF Open, Hopeless
    <3> QED
      BY <3>2 DEF OneTransfer
  <2>5. CASE rx # NoState
    <3>1. rx'.crc = rx.crc /\ rx'.expected = rx.expected
      BY <2>2, <2>5 DEF Session
    <3>2. Open => f.n # Owner
      BY <1>1, <1>5, <2>3
    <3> QED
      BY <1>7, <2>2, <2>3, <2>5, <3>1, <3>2, RegisterKept
  <2> QED
    BY <2>4, <2>5
<1>11. CASE Begun(f)
  <2>1. /\ rx' # NoState /\ rx'.iface = i /\ stored' = <<f.chunk>>
        /\ rx'.crc = CrcAdd(Seeded, f.chunk) /\ rx'.expected = TransferCrc(f.n)
        /\ k = 1 /\ sent[f.n].frames # 1
    BY <1>1, <1>11 DEF Begun, NoState
  <2>2. sent[f.n].frames >= 2 /\ 2 \in 2 .. sent[f.n].frames + 1
    BY <1>1, <2>1
  <2>3. TransferCrc(f.n)[2] = <<f.n, 1>>
    <3>1. TransferCrc(f.n)[2] = <<f.n, 2 - 1>>
      BY <1>1, <2>2, PlainChunks DEF Inv, TypeInv
    <3> QED
      BY <3>1
  <2>4. Owner' = f.n
    BY <2>1, <2>3 DEF Owner
  <2>6. rx'.crc = Seeded \o stored'
    <3>3. CrcAdd(Seeded, f.chunk) = Append(Seeded, f.chunk)
      BY <1>1, SeededType
    <3>4. Append(Seeded, f.chunk) = Seeded \o <<f.chunk>>
      BY <1>1, SeededType, AppendIsConcat
    <3> QED
      BY <2>1, <3>3, <3>4
  <2>7. Len(rx'.crc) >= 1
    <3>1. stored' \in Seq(Word) /\ Len(stored') = 1
      BY <1>1, <2>1
    <3>2. Len(Seeded \o stored') = Len(Seeded) + Len(stored')
      BY <3>1, SeededType, ConcatProperties
    <3> QED
      BY <2>6, <3>1, <3>2, SeededType
  <2>8. rx'.expected = TransferCrc(Owner)'
    <3>1. TransferCrc(Owner)' = Seeded \o [j \in 1 .. sent[f.n].frames |-> Chunk(f.n, j)]
      BY <1>4, <2>4 DEF TransferCrc, Payload, Chunk, Seeded
    <3>2. TransferCrc(f.n) = Seeded \o [j \in 1 .. sent[f.n].frames |-> Chunk(f.n, j)]
      BY DEF TransferCrc, Payload
    <3> QED
      BY <2>1, <3>1, <3>2
  <2> HIDE DEF f
  <2> QED
    BY <1>1, <1>2, <1>4, <2>1, <2>2, <2>4, <2>6, <2>7, <2>8 DEF OneTransfer
<1>12. CASE Continued(f)
  <2>1. /\ Wanted(f) /\ rx # NoState /\ rx.iface = i /\ rx' # NoState /\ rx'.iface = i
        /\ rx'.crc = CrcAdd(rx.crc, f.chunk) /\ rx'.expected = rx.expected
        /\ stored' = Append(stored, f.chunk)
    BY <1>1, <1>12 DEF Continued, Wanted, NoState
  <2>2. SUFFICES ASSUME Open' PROVE OneTransfer'
    BY DEF OneTransfer
  <2>3. /\ rx'.crc = Append(rx.crc, f.chunk)
        /\ ~Hopeless(Append(rx.crc, f.chunk), rx.expected)
    BY <1>1, <1>6, <2>1, <2>2 DEF Open
  <2>4. /\ ~Hopeless(rx.crc, rx.expected) /\ Len(rx.crc) + 1 < Len(rx.expected)
        /\ rx.expected[Len(rx.crc) + 1] = f.chunk
    <3>1. rx.crc \in Seq(Word) /\ rx.expected \in Seq(Word) /\ f.chunk \in Word
      BY <1>1, <1>6, <2>1
    <3> HIDE DEF f
    <3> QED
      BY <2>3, <3>1, StillHopeful
  <2>5. Open
    BY <2>1, <2>4 DEF Open
  <2>6. Len(rx.crc) + 1 <= Len(rx.expected) /\ Len(rx.crc) \in Nat
    BY <1>6, <2>1, <2>4
  <2>7. /\ f.n = Owner
        /\ rx.crc = Seeded \o stored
        /\ CrcAdd(rx.crc, f.chunk) = Seeded \o Append(stored, f.chunk)
    BY <2>1, <2>4, <2>5, <2>6, RegisterGrows
  <2>8. Owner' = Owner /\ TransferCrc(Owner)' = TransferCrc(Owner)
    BY <1>4, <2>1 DEF Owner, TransferCrc, Payload, Chunk
  <2>9. Len(rx'.crc) >= 1
    <3>1. Len(Append(rx.crc, f.chunk)) = Len(rx.crc) + 1
      BY <1>1, <1>6, <2>1, AppendProperties
    <3> QED
      BY <2>1, <2>3, <2>6, <3>1
  <2>10. \A e \in On(i)' : e[1] >= Owner
    BY <1>7, <2>1, <2>5
  <2>11. rx.expected = TransferCrc(Owner)
    BY <2>5 DEF Inv, OneTransfer
  <2> QED
    BY <1>4, <1>5, <2>1, <2>5, <2>7, <2>8, <2>9, <2>10, <2>11 DEF OneTransfer
<1>13. CASE GivenUp(f)
  <2>1. /\ Wanted(f) /\ rx # NoState /\ rx' # NoState
        /\ rx'.crc = rx.crc /\ rx'.expected = rx.expected
        /\ rx'.iface = i /\ rx'.tid = NextTransferId(f.tid)
    BY <1>1, <1>13 DEF GivenUp, Wanted, NoState
  <2> QED
    BY <1>1, <1>7, <2>1, RegisterKept
<1>14. CASE Ended(f)
  <2>1. /\ Wanted(f) /\ f.eot /\ rx # NoState /\ rx.iface = i /\ rx' # NoState
        /\ rx'.crc = CrcAdd(rx.crc, f.chunk) /\ rx'.expected = rx.expected
    BY <1>1, <1>14 DEF Ended, Wanted, NoState
  <2>2. SUFFICES ASSUME Open' PROVE FALSE
    BY DEF OneTransfer
  <2>3. /\ rx'.crc = Append(rx.crc, f.chunk)
        /\ ~Hopeless(Append(rx.crc, f.chunk), rx.expected)
    BY <1>1, <1>6, <2>1, <2>2 DEF Open
  <2>4. /\ ~Hopeless(rx.crc, rx.expected) /\ Len(rx.crc) + 1 < Len(rx.expected)
        /\ rx.expected[Len(rx.crc) + 1] = f.chunk
    <3>1. rx.crc \in Seq(Word) /\ rx.expected \in Seq(Word) /\ f.chunk \in Word
      BY <1>1, <1>6, <2>1
    <3> HIDE DEF f
    <3> QED
      BY <2>3, <3>1, StillHopeful
  <2>5. Open
    BY <2>1, <2>4 DEF Open
  <2>6. Len(rx.crc) + 1 <= Len(rx.expected) /\ Len(rx.crc) \in Nat
    BY <1>6, <2>1, <2>4
  <2>7. k = Len(rx.crc) /\ Len(rx.expected) = sent[f.n].frames + 1
    BY <2>1, <2>4, <2>5, <2>6, RegisterGrows
  <2> QED
    BY <1>1, <2>1, <2>4, <2>6, <2>7
<1> QED
  BY <1>1, <1>8, <1>9, <1>10, <1>11, <1>12, <1>13, <1>14 DEF Outcome

LEMMA IntactAfter ==
    ASSUME Types, Intact, UNCHANGED sent,
           \/ UNCHANGED delivered
           \/ \E r \in Delivery : /\ delivered' = Append(delivered, r)
                                  /\ Fits(r.n) => r.payload = Payload(r.n)
    PROVE  Intact'
<1>1. \A n : Payload(n)' = Payload(n) /\ Fits(n)' = Fits(n)
  BY DEF Payload, Chunk, Fits
<1>2. CASE UNCHANGED delivered
  BY <1>1, <1>2 DEF Intact
<1>3. ASSUME NEW r \in Delivery, delivered' = Append(delivered, r), Fits(r.n) => r.payload = Payload(r.n)
      PROVE  Intact'
  <2>1. delivered \in Seq(Delivery)
    BY DEF Types
  <2>2. \A j \in DOMAIN delivered' : delivered'[j] = r \/ (j \in DOMAIN delivered /\ delivered'[j] = delivered[j])
    BY <1>3, <2>1
  <2> QED
    BY <1>1, <1>3, <2>2 DEF Intact
<1> QED
  BY <1>2, <1>3

(* A register that has become what is expected holds one transfer and all of it. *)
LEMMA Completed ==
    ASSUME Inv, SwitchSafe, Regular, NEW i \in Ifaces, Handles(i), Wanted(Frame(i)),
           CrcAdd(rx.crc, Frame(i).chunk) = rx.expected
    PROVE  /\ Open /\ Frame(i).n = Owner
           /\ Append(stored, Frame(i).chunk) = Payload(Frame(i).n)
<1> DEFINE f == Frame(i)
<1>1. /\ f.n \in DOMAIN sent /\ f.chunk \in Word /\ stored \in Seq(Word)
      /\ CrcAdd(rx.crc, f.chunk) = Append(rx.crc, f.chunk)
      /\ rx # NoState /\ rx.crc \in Seq(Word) /\ rx.expected \in Seq(Word)
  <2>1. rx # NoState /\ rx.crc \in Seq(Word) /\ rx.expected \in Seq(Word)
    BY DEF Wanted, Inv, TypeInv, RxOK, StateType
  <2>2. stored \in Seq(Word)
    BY DEF Inv, TypeInv, Types
  <2>3. /\ f.n \in DOMAIN sent /\ f.chunk \in Word
        /\ \A register \in Seq(Word) : CrcAdd(register, f.chunk) = Append(register, f.chunk)
    BY HandlesFacts
  <2> HIDE DEF f
  <2>4. CrcAdd(rx.crc, f.chunk) = Append(rx.crc, f.chunk)
    BY <2>1, <2>3
  <2> QED
    BY <2>1, <2>2, <2>3, <2>4
<1>2. Append(rx.crc, f.chunk) = rx.expected
  BY <1>1
<1>3. ~Hopeless(rx.crc, rx.expected)
  <2> HIDE DEF f
  <2> QED
    BY <1>1, <1>2, HopelessForGood
<1>4. Open
  BY <1>1, <1>3 DEF Open
<1>5. /\ Len(rx.expected) = Len(rx.crc) + 1 /\ rx.expected[Len(rx.crc) + 1] = f.chunk
      /\ Len(rx.crc) + 1 <= Len(rx.expected)
  <2>1. Len(rx.crc) \in Nat
    BY <1>1
  <2>2. \A s \in Seq(Word), w \in Word : /\ Len(Append(s, w)) = Len(s) + 1
                                         /\ Append(s, w)[Len(s) + 1] = w
    BY AppendProperties
  <2> HIDE DEF f
  <2>3. Len(rx.expected) = Len(rx.crc) + 1 /\ rx.expected[Len(rx.crc) + 1] = f.chunk
    BY <1>1, <1>2, <2>2
  <2> QED
    BY <2>1, <2>3
<1>6. /\ f.n = Owner /\ rx.expected = TransferCrc(f.n)
      /\ CrcAdd(rx.crc, f.chunk) = Seeded \o Append(stored, f.chunk)
  BY <1>4, <1>5, RegisterGrows
<1>7. Seeded \o Append(stored, f.chunk) = Seeded \o Payload(f.n)
  BY <1>6 DEF TransferCrc
<1>8. /\ Append(stored, f.chunk) \in Seq(Word) /\ Payload(f.n) \in Seq(Word)
      /\ Seeded \in Seq(Word)
  BY <1>1, PayloadType, SeededType, AppendProperties DEF Inv, TypeInv
<1>9. Append(stored, f.chunk) = Payload(f.n)
  <2>1. \A s, t, v \in Seq(Word) : s \o t = s \o v => t = v
    BY ConcatSimplifications
  <2> HIDE DEF f
  <2> QED
    BY <1>7, <1>8, <2>1
<1> QED
  BY <1>4, <1>6, <1>9

(* What canardHandleRxFrame hands over is a whole transfer, newer than the one before.  *)
LEMMA DeliveryStep ==
    ASSUME Inv, SwitchSafe, Regular, NEW i \in Ifaces, Handles(i)
    PROVE  /\ Intact'
           /\ UNCHANGED delivered \/ Last' \in Last + 1 .. Len(sent)
<1> DEFINE f == Frame(i)
           k == Head(bus[i])[2]
<1>1. /\ Outcome(f) /\ f.n \in DOMAIN sent /\ f.n \in Nat /\ f.n <= Len(sent)
      /\ k \in Nat /\ f.chunk = <<f.n, k>> /\ f.chunk \in Word
      /\ \A register \in Seq(Word) : CrcAdd(register, f.chunk) = Append(register, f.chunk)
      /\ f.sot <=> k = 1
      /\ f.eot <=> k = sent[f.n].frames
      /\ sent[f.n].frames \in Nat
  BY HandlesFacts, ChosenProfile DEF Inv, TypeInv
<1>2. (f.sot /\ Heard(f)) \/ Wanted(f) => f.n > Last
  BY NothingOld
<1>3. /\ sent' = sent /\ Types /\ Intact /\ Last \in Nat
      /\ stored \in Seq(Word)
  BY LastType DEF Handles, Inv, TypeInv, Types
<1>4. ASSUME NEW payload \in Seq(Word), NEW started \in 1 .. now,
             delivered' = Append(delivered, Transfer(f, payload, started)),
             Fits(f.n) => payload = Payload(f.n), f.n > Last
      PROVE  Intact' /\ Last' \in Last + 1 .. Len(sent)
  <2> DEFINE r == Transfer(f, payload, started)
  <2>1. now \in Nat
    BY <1>3, ChosenProfile
  <2>2. r \in Delivery /\ r.payload = payload /\ r.n = f.n
    BY <1>1, <2>1 DEF Transfer, Delivery
  <2>3. delivered' = Append(delivered, r)
    BY <1>4
  <2> HIDE DEF r
  <2>4. Last' = f.n
    BY <1>3, <2>2, <2>3, LastAfter
  <2>5. Intact'
    BY <1>3, <1>4, <2>2, <2>3, IntactAfter
  <2>6. f.n \in Last + 1 .. Len(sent)
    <3>1. f.n \in Nat /\ f.n <= Len(sent) /\ f.n > Last /\ Last \in Nat
      BY <1>1, <1>3, <1>4
    <3>2. Len(sent) \in Nat
      BY <1>3, ChosenProfile
    <3> QED
      BY <3>1, <3>2
  <2> QED
    BY <2>4, <2>5, <2>6
<1>5. CASE UNCHANGED delivered
  BY <1>3, <1>5, IntactAfter
<1>6. CASE Single(f)
  <2>1. /\ f.sot /\ f.eot /\ Heard(f)
        /\ delivered' = Append(delivered, Transfer(f, <<f.chunk>>, now))
    BY <1>6 DEF Single
  <2>2. <<f.chunk>> \in Seq(Word) /\ Len(<<f.chunk>>) = 1 /\ <<f.chunk>>[1] = f.chunk
    BY <1>1
  <2>3. /\ Payload(f.n) \in Seq(Word) /\ Len(Payload(f.n)) = 1
        /\ Payload(f.n)[1] = <<f.n, 1>>
    <3>1. sent[f.n].frames = 1 /\ 1 \in 1 .. sent[f.n].frames
      BY <1>1, <2>1
    <3> QED
      BY <1>1, <1>3, <3>1, PayloadType, PlainChunks
  <2>4. <<f.chunk>> = Payload(f.n)
    <3>1. f.chunk = <<f.n, 1>>
      BY <1>1, <2>1
    <3> DEFINE s == <<f.chunk>>
    <3>2. s \in Seq(Word) /\ Len(s) = 1 /\ s[1] = Payload(f.n)[1]
      BY <2>2, <2>3, <3>1
    <3> HIDE DEF s
    <3>3. \A q \in 1 .. Len(s) : s[q] = Payload(f.n)[q]
      BY <3>2
    <3>4. s = Payload(f.n)
      BY <2>3, <3>2, <3>3, SeqEqual
    <3> QED
      BY <3>4 DEF s
  <2>5. now \in 1 .. now
    BY <1>3, ChosenProfile
  <2> QED
    BY <1>2, <1>4, <2>1, <2>2, <2>4, <2>5
<1>7. CASE Ended(f) /\ CrcAdd(rx.crc, f.chunk) = rx.expected
  <2>1. /\ Wanted(f) /\ rx # NoState
        /\ delivered' = Append(delivered, Transfer(f, HandedNow(f), rx.timestamp))
    BY <1>7 DEF Ended, Wanted
  <2>2. rx.timestamp \in 1 .. now /\ Append(stored, f.chunk) \in Seq(Word)
    BY <1>1, <1>3, <2>1, AppendProperties DEF Inv, TypeInv, RxOK
  <2>3. Append(stored, f.chunk) = Payload(f.n)
    BY <1>7, <2>1, Completed
  <2>4. HandedNow(f) \in Seq(Word)
    BY <1>1, <1>3, HandedType DEF Inv, TypeInv
  <2>5. Fits(f.n) => ~rx.wrapped
    <3>1. Len(Append(stored, f.chunk)) = Len(stored) + 1 /\ Len(stored) \in Nat
      BY <1>1, <1>3, AppendProperties
    <3>2. Len(Payload(f.n)) = sent[f.n].frames
      BY <1>1, <1>3, PayloadType
    <3>3. sent[f.n].frames - 1 = Len(stored)
      BY <2>3, <3>1, <3>2
    <3>4. rx.wrapped => LenMod <= FrameBytes * Len(stored)
      BY <2>1 DEF Inv, TypeInv, RxOK, StorageOK
    <3> HIDE DEF f
    <3> QED
      BY <3>1, <3>3, <3>4, SessionAssumption DEF Fits, FrameBytes
  <2>6. Fits(f.n) => HandedNow(f) = Payload(f.n)
    BY <2>3, <2>5 DEF HandedNow
  <2> QED
    BY <1>2, <1>4, <2>1, <2>2, <2>4, <2>6
<1> QED
  BY <1>1, <1>5, <1>6, <1>7
     DEF Outcome, Ignored, Skipped, Begun, Continued, GivenUp, Ended

(* A frame is handled. *)
LEMMA HandlesStep ==
    ASSUME Inv, SwitchSafe, Regular, NEW i \in Ifaces, Handles(i), BusOK'
    PROVE  /\ Inv'
           /\ UNCHANGED delivered \/ Last' \in Last + 1 .. Len(sent)
<1>1. Types' /\ RxOK'
  BY HandlesFacts, HandledType DEF Inv, TypeInv, Handles
<1> QED
  BY <1>1, NothingTwiceStep, OneTransferStep, DeliveryStep DEF Inv, TypeInv

(* The subscriber does nothing, and nothing new comes. *)
LEMMA NothingHappens ==
    ASSUME Inv, UNCHANGED <<traffic, sent, rx, stored, delivered>>,
           \A l \in Ifaces : On(l)' \subseteq On(l)
    PROVE  NothingTwice' /\ OneTransfer' /\ Intact'
<1>1. Ifaces' = Ifaces /\ Last' = Last
  BY DEF Ifaces, Last
<1>2. NothingTwice'
  BY <1>1 DEF Inv, NothingTwice
<1>3. (Open <=> Open') /\ Owner' = Owner
  BY DEF Open, Owner
<1>4. \A n : Payload(n)' = Payload(n) /\ Fits(n)' = Fits(n)
  BY DEF Payload, Chunk, Fits
<1>5. TransferCrc(Owner)' = TransferCrc(Owner)
  BY <1>3 DEF TransferCrc, Payload, Chunk
<1>6. Open => rx.iface \in Ifaces
  BY DEF Open, Inv, TypeInv, RxOK
<1>7. Open => On(rx.iface)' \subseteq On(rx.iface)
  BY <1>6
<1>8. Open => /\ Owner \in DOMAIN sent /\ sent[Owner].frames >= 2
              /\ rx.expected = TransferCrc(Owner)
              /\ Len(rx.crc) >= 1
              /\ \A e \in On(rx.iface)' : e[1] >= Owner
              /\ \/ rx.crc = Seeded \o stored
                 \/ \A e \in On(rx.iface)' : e[1] = Owner => rx.tid # sent[Owner].tid
  BY <1>7 DEF Inv, OneTransfer
<1>9. OneTransfer'
  BY <1>3, <1>5, <1>8 DEF OneTransfer
<1>10. Intact'
  BY <1>4 DEF Inv, Intact
<1> QED
  BY <1>2, <1>9, <1>10

LEMMA PublishStep ==
    ASSUME Inv, NEW frames \in traffic.frames, NEW zero \in ZeroKinds, Publish(frames, zero)
    PROVE  NothingTwice' /\ OneTransfer' /\ Intact'
<1>1. /\ UNCHANGED <<traffic, now, rx, stored, delivered>> /\ Ifaces' = Ifaces
  BY DEF Publish, Ifaces
<1>2. /\ Len(sent') = Len(sent) + 1 /\ Len(sent) \in Nat
      /\ \A n \in DOMAIN sent : n \in DOMAIN sent' /\ sent'[n] = sent[n]
      /\ \A i \in Ifaces : \A e \in On(i)' \ On(i) : e[1] = Len(sent) + 1
  BY PublishBus, ChosenProfile DEF Inv, TypeInv
<1>3. Last' = Last /\ (Open <=> Open') /\ Owner' = Owner
  BY <1>1 DEF Last, Open, Owner
<1>4. Last \in Nat /\ Last <= Len(sent) /\ (Last # 0 => Last \in DOMAIN sent)
  BY LastType DEF Inv, TypeInv
<1>5. Open => Owner \in DOMAIN sent /\ Owner \in Nat /\ Owner <= Len(sent) /\ rx.iface \in Ifaces
  BY ChosenProfile DEF Inv, TypeInv, OneTransfer, Open, RxOK
<1>6. \A n \in DOMAIN sent : Payload(n)' = Payload(n) /\ Fits(n)' = Fits(n)
  BY <1>2 DEF Payload, Chunk, Fits
<1>7. NothingTwice'
  <2>1. SUFFICES ASSUME NEW i \in Ifaces, rx = NoState \/ rx.iface = i, NEW e \in On(i)'
                 PROVE  /\ e[1] >= Last
                        /\ e[1] = Last => e[2] > 1 /\ (rx # NoState => rx.tid # sent'[Last].tid)
    BY <1>1, <1>3 DEF NothingTwice
  <2>2. CASE e \in On(i)
    <3>1. /\ e[1] >= Last
          /\ e[1] = Last => e[2] > 1 /\ (rx # NoState => rx.tid # sent[Last].tid)
      BY <2>1, <2>2 DEF Inv, NothingTwice
    <3>2. e[1] \in DOMAIN sent
      BY <2>2, OnType DEF Inv, TypeInv
    <3> QED
      BY <1>2, <3>1, <3>2
  <2>3. CASE e \notin On(i)
    <3>1. e[1] = Len(sent) + 1
      BY <1>2, <2>3
    <3> QED
      BY <1>2, <1>4, <3>1
  <2> QED
    BY <2>2, <2>3
<1>8. OneTransfer'
  <2>1. SUFFICES ASSUME Open
                 PROVE  OneTransfer'
    BY <1>3 DEF OneTransfer
  <2>2. /\ Owner \in DOMAIN sent' /\ sent'[Owner].frames >= 2
        /\ rx'.expected = TransferCrc(Owner)' /\ Len(rx'.crc) >= 1
    <3>1. TransferCrc(Owner)' = TransferCrc(Owner)
      BY <1>2, <1>3, <1>5, <2>1 DEF TransferCrc, Payload, Chunk
    <3> QED
      BY <1>1, <1>2, <2>1, <3>1 DEF Inv, OneTransfer
  <2>3. ASSUME NEW e \in On(rx.iface)'
        PROVE  e[1] >= Owner /\ (e[1] = Owner => e \in On(rx.iface))
    <3>1. CASE e \in On(rx.iface)
      BY <2>1, <3>1 DEF Inv, OneTransfer
    <3>2. CASE e \notin On(rx.iface)
      <4> DEFINE i == rx.iface
      <4>1. i \in Ifaces /\ i = rx'.iface
        BY <1>1, <1>5, <2>1
      <4>2. e \in On(i)' \ On(i)
        BY <2>3, <3>2
      <4>3. e[1] = Len(sent) + 1
        <5>1. \A l \in Ifaces : (l = rx.iface) => e \in On(l)' \ On(l)
          BY <1>1, <4>2 DEF On
        <5> QED
          BY <1>2, <4>1, <5>1
      <4> QED
        BY <1>2, <1>5, <2>1, <4>3
    <3> QED
      BY <3>1, <3>2
  <2>4. \/ rx'.crc = Seeded \o stored'
        \/ \A e \in On(rx.iface)' : e[1] = Owner => rx'.tid # sent'[Owner].tid
    BY <1>1, <1>2, <1>5, <2>1, <2>3 DEF Inv, OneTransfer
  <2> QED
    BY <1>3, <2>1, <2>2, <2>3, <2>4 DEF OneTransfer
<1>9. Intact'
  <2>1. \A j \in DOMAIN delivered : delivered[j].n \in DOMAIN sent
    BY DEF Inv, TypeInv, Types
  <2> QED
    BY <1>1, <1>6, <2>1 DEF Inv, Intact
<1> QED
  BY <1>7, <1>8, <1>9

(* canardCleanupStaleTransfers: what is still to come on an interface that is behind     *)
(* would be taken for new by a state that is made for it.                          *)
LEMMA CleanupStep ==
    ASSUME Inv, SwitchSafe, Cleanup
    PROVE  NothingTwice' /\ OneTransfer' /\ Intact'
<1>1. /\ rx # NoState /\ TidTimedOut(rx, now) /\ rx' = NoState
      /\ UNCHANGED <<traffic, sent, bus, delivered>> /\ Ifaces' = Ifaces
      /\ Last' = Last /\ Last \in Nat
  BY LastType DEF Cleanup, TidTimedOut, Ifaces, Last, Inv, TypeInv
<1>2. ASSUME NEW i \in Ifaces, NEW e \in On(i)
      PROVE  e[1] >= Last /\ (e[1] = Last => e[2] > 1)
  <2>1. CASE rx.iface = i
    BY <1>2, <2>1 DEF Inv, NothingTwice
  <2>2. CASE rx.iface # i
    <3>1. bus[i] # <<>>
      BY <1>2 DEF On
    <3>2. Frame(i).n > Last /\ Frame(i).n = Head(bus[i])[1]
      BY <1>1, <2>2, <3>1, FrameIs DEF SwitchSafe, Inv, TypeInv
    <3>3. e = Head(bus[i]) \/ Precedes(Head(bus[i]), e)
      BY <1>2, <3>1, HeadIs DEF Inv, TypeInv
    <3>4. e[1] \in Nat /\ Head(bus[i])[1] \in Nat
      BY <1>2, <3>1, OnType, HeadIs DEF Inv, TypeInv
    <3>5. e[1] > Last
      BY <1>1, <3>2, <3>3, <3>4 DEF Precedes
    <3> QED
      BY <1>1, <3>4, <3>5
  <2> QED
    BY <2>1, <2>2
<1>3. NothingTwice'
  <2>1. \A i \in Ifaces : On(i)' = On(i)
    BY <1>1 DEF On
  <2> QED
    BY <1>1, <1>2, <2>1 DEF NothingTwice
<1>4. OneTransfer'
  BY <1>1 DEF OneTransfer, Open
<1>5. Intact'
  <2>1. \A n : Payload(n)' = Payload(n) /\ Fits(n)' = Fits(n)
    BY <1>1 DEF Payload, Chunk, Fits
  <2> QED
    BY <1>1, <2>1 DEF Inv, Intact
<1> QED
  BY <1>3, <1>4, <1>5

(* What a step does to the channel. *)
ChannelStep ==
    \/ Len(sent') = Len(sent) + 1 /\ UNCHANGED delivered
    \/ UNCHANGED sent /\ (UNCHANGED delivered \/ Last' \in Last + 1 .. Len(sent))

LEMMA InvStep ==
    ASSUME Inv, SwitchSafe, Regular, [Next]_vars
    PROVE  Inv' /\ ChannelStep
<1>1. TypeInv'
  BY TypeStep DEF Inv
<1>2. ASSUME NEW frames \in traffic.frames, NEW zero \in ZeroKinds, Publish(frames, zero)
      PROVE  Inv' /\ ChannelStep
  <2>1. Len(sent') = Len(sent) + 1 /\ UNCHANGED delivered
    BY <1>2, PublishBus DEF Inv, TypeInv, Publish
  <2> QED
    BY <1>1, <1>2, <2>1, PublishStep DEF Inv, ChannelStep
<1>3. ASSUME NEW i \in Ifaces, Receive(i)
      PROVE  Inv' /\ ChannelStep
  <2>1. /\ bus[i] # <<>> /\ HandleRxFrame(Frame(i)) /\ bus' = [bus EXCEPT ![i] = Tail(@)]
        /\ UNCHANGED <<traffic, now, nextTid, sent>>
    BY <1>3 DEF Receive
  <2>2. /\ \A l \in Ifaces : On(l)' \subseteq On(l)
        /\ \A e \in On(i)' : Precedes(Head(bus[i]), e)
    BY <2>1, TailBus DEF Inv, TypeInv
  <2>3. Handles(i)
    BY <2>1, <2>2 DEF Handles, Coming
  <2> QED
    BY <1>1, <2>1, <2>3, HandlesStep DEF TypeInv, ChannelStep
<1>4. ASSUME NEW i \in Ifaces, ReceiveAndRepeat(i)
      PROVE  Inv' /\ ChannelStep
  <2>1. /\ bus[i] # <<>> /\ HandleRxFrame(Frame(i)) /\ ~(Frame(i).sot /\ Frame(i).eot)
        /\ UNCHANGED <<traffic, now, nextTid, sent, bus>>
    BY <1>4 DEF ReceiveAndRepeat, Regular
  <2>2. \A l \in Ifaces : On(l)' = On(l)
    BY <2>1 DEF On
  <2>3. \A e \in On(i) : e = Head(bus[i]) \/ Precedes(Head(bus[i]), e)
    BY <2>1, HeadIs DEF Inv, TypeInv
  <2>4. Handles(i)
    BY <2>1, <2>2, <2>3 DEF Handles, Coming
  <2> QED
    BY <1>1, <2>1, <2>4, HandlesStep DEF TypeInv, ChannelStep
<1>5. ASSUME UNCHANGED <<traffic, sent, rx, stored, delivered>>,
             \A l \in Ifaces : On(l)' \subseteq On(l)
      PROVE  Inv' /\ ChannelStep
  BY <1>1, <1>5, NothingHappens DEF Inv, ChannelStep
<1>6. ASSUME NEW i \in Ifaces, Lose(i)
      PROVE  Inv' /\ ChannelStep
  <2>1. /\ bus[i] # <<>> /\ bus' = [bus EXCEPT ![i] = Tail(@)]
        /\ UNCHANGED <<traffic, now, sent, rx, stored, delivered>>
    BY <1>6 DEF Lose
  <2>2. \A l \in Ifaces : On(l)' \subseteq On(l)
    BY <2>1, TailBus DEF Inv, TypeInv
  <2> QED
    BY <1>5, <2>1, <2>2
<1>7. CASE Cleanup
  BY <1>1, <1>7, CleanupStep DEF Inv, Cleanup, ChannelStep
<1>8. CASE RestartPublisher \/ Tick \/ UNCHANGED vars
  <2>1. UNCHANGED <<traffic, sent, rx, stored, delivered, bus>>
    BY <1>8 DEF RestartPublisher, Tick, vars
  <2>2. \A l \in Ifaces : On(l)' \subseteq On(l)
    BY <2>1 DEF On
  <2> QED
    BY <1>5, <2>1, <2>2
<1> QED
  BY <1>2, <1>3, <1>4, <1>6, <1>7, <1>8 DEF Next

LEMMA InvInit == Init => Inv
<1> SUFFICES ASSUME Init PROVE Inv
  OBVIOUS
<1>1. TypeInv
  BY TypeInit
<1>2. /\ rx = NoState /\ delivered = <<>> /\ \A i \in Ifaces : On(i) = {}
  BY DEF Init, On
<1> QED
  BY <1>1, <1>2 DEF Inv, NothingTwice, OneTransfer, Open, Intact

LEMMA ChannelInit == Init => Channel!Init
BY DEF Init, Channel!Init

(* A step of the protocol is one of the channel or none. *)
LEMMA ChannelRefined ==
    ASSUME Inv, Inv', ChannelStep
    PROVE  [Channel!Next]_Channel!vars
<1>1. Last' = Last \/ ~UNCHANGED delivered
  BY LastSame
<1>2. (Intact <=> TRUE) /\ (Intact' <=> TRUE)
  BY DEF Inv
<1>3. Len(sent) \in Nat /\ Last \in Nat
  BY ChosenProfile, LastType DEF Inv, TypeInv
<1>4. CASE Len(sent') = Len(sent) + 1 /\ UNCHANGED delivered
  <2>1. Channel!Publish
    BY <1>1, <1>2, <1>4 DEF Channel!Publish, Last, Intact
  <2> QED
    BY <2>1 DEF Channel!Next
<1>5. CASE UNCHANGED sent /\ UNCHANGED delivered
  BY <1>1, <1>2, <1>5 DEF Channel!vars, Last, Intact
<1>6. CASE UNCHANGED sent /\ Last' \in Last + 1 .. Len(sent)
  <2>1. Channel!Deliver
    BY <1>2, <1>6 DEF Channel!Deliver, Last, Intact
  <2> QED
    BY <2>1 DEF Channel!Next
<1> QED
  BY <1>4, <1>5, <1>6 DEF ChannelStep

(* On one interface the subscriber sees a channel that only loses transfers, for any       *)
(* number of lost frames, repeated frames of longer transfers, restarts of the publisher,   *)
(* failed allocations, cleanups and any delay between two frames.                        *)
THEOREM OneBusImplementsChannel ==
    ASSUME Regular, \A p \in Profiles : \A i, j \in p.ifaces : i = j
    PROVE  Spec => ImplementsChannel
<1>1. Inv => SwitchSafe
  BY DEF Inv, TypeInv, Types, RxOK, SwitchSafe, Ifaces
<1>2. Inv /\ [Next]_vars => Inv' /\ [Channel!Next]_Channel!vars
  BY <1>1, InvStep, ChannelRefined
<1> QED
  BY <1>2, InvInit, ChannelInit, PTL DEF Spec, ImplementsChannel, Channel!Spec

-----------------------------------------------------------------------------
(* Redundant interfaces *)


(* The publisher does not restart, and its counter tells how many transfers ago a      *)
(* transfer-ID was used.                                                        *)
Numbered ==
    /\ "restarts" \in DOMAIN budget /\ budget.restarts = 0
    /\ \A n \in DOMAIN sent : Len(sent) + 1 - n < TidMod =>
          ForwardDistance(nextTid, sent[n].tid) = Len(sent) + 1 - n

(* What is in flight is recent: an interface that still brings a transfer brings all     *)
(* that were published after it, so that these are outstanding too.                 *)
Window ==
    \A i \in Ifaces : \A e \in On(i) :
        /\ \A n \in e[1] .. Len(sent) : \E d \in On(i) : d[1] = n
        /\ Len(sent) - e[1] < traffic.outstanding
        /\ now - e[3] <= traffic.delay

(* The transfer-ID that the state expects is that of transfer p.  A single-frame       *)
(* transfer whose transfer-ID is one behind moves the state past the transfer after    *)
(* it, which may be one that is published only after the next.                       *)
Expects(p) ==
    /\ p <= Len(sent) + 2
    /\ p > Last
    /\ Open => p >= Owner
    /\ p <= Len(sent) + 1 /\ Len(sent) + 1 - p < TidMod =>
          ForwardDistance(nextTid, rx.tid) = Len(sent) + 1 - p
    /\ p = Len(sent) + 2 => ForwardDistance(rx.tid, nextTid) = 1

Ahead == rx # NoState => \E p \in Nat : Expects(p)

(* The state is as young as every frame of the transfers that it has had. *)
Stamped ==
    rx # NoState => \A i \in Ifaces : \A e \in On(i) :
        e[1] <= Last \/ (Open /\ e[1] <= Owner) => e[3] <= rx.timestamp

RedundantInv == Inv /\ Numbered /\ Window /\ Ahead /\ Stamped

(* One publisher, which does not restart; less than half the ring in flight; and no     *)
(* frame older than what canardCleanupStaleTransfers leaves alone.                   *)
Timely ==
    /\ MaxRestarts = 0
    /\ \A p \in Profiles :
          p.outstanding < TidMod \div 2 /\ p.delay <= TransferTimeout

(* The counter of the publisher is ahead of every transfer-ID in flight, by how many      *)
(* transfers were published since.                                              *)
LEMMA InFlightDistance ==
    ASSUME Inv, Numbered, Window, Timely, NEW i \in Ifaces, NEW e \in On(i)
    PROVE  /\ e[1] \in DOMAIN sent /\ e[1] \in Nat /\ Len(sent) \in Nat /\ e[1] <= Len(sent)
           /\ sent[e[1]].tid \in TransferId /\ nextTid \in TransferId
           /\ Len(sent) + 1 - e[1] < TidMod \div 2 /\ TidMod \div 2 < TidMod
           /\ ForwardDistance(nextTid, sent[e[1]].tid) = Len(sent) + 1 - e[1]
<1>1. /\ e[1] \in DOMAIN sent /\ e[1] \in Nat /\ e[1] <= Len(sent)
      /\ Len(sent) \in Nat /\ traffic.outstanding \in Nat /\ traffic \in Profiles
  BY OnType, ChosenProfile DEF Inv, TypeInv, Types
<1>2. sent[e[1]].tid \in TransferId /\ nextTid \in TransferId
  <2>1. sent \in Seq(Published) /\ nextTid \in TransferId
    BY DEF Inv, TypeInv, Types
  <2>2. sent[e[1]] \in Published
    BY <1>1, <2>1
  <2> QED
    BY <2>1, <2>2 DEF Published
<1>3. Len(sent) - e[1] < traffic.outstanding
  BY DEF Window
<1>4. traffic.outstanding < TidMod \div 2
  BY <1>1 DEF Timely
<1>5. TidMod \div 2 \in Int /\ TidMod \div 2 < TidMod
  BY TidModAssumption
<1>6. Len(sent) + 1 - e[1] < TidMod \div 2
  BY <1>1, <1>3, <1>4, <1>5
<1>7. Len(sent) + 1 - e[1] < TidMod
  BY <1>1, <1>5, <1>6, TidModAssumption
<1>8. ForwardDistance(nextTid, sent[e[1]].tid) = Len(sent) + 1 - e[1]
  BY <1>1, <1>7 DEF Numbered
<1> QED
  BY <1>1, <1>2, <1>5, <1>6, <1>8

(* Whatever makes canardHandleRxFrame leave the interface of the state, the timeout or     *)
(* a transfer-ID that is ahead, it goes to a newer transfer.                         *)
LEMMA SwitchesForward ==
    ASSUME RedundantInv, Timely
    PROVE  SwitchSafe
<1> SUFFICES ASSUME rx # NoState, NEW i \in Ifaces \ {rx.iface}, bus[i] # <<>>,
                    \/ TidTimedOut(rx, now)
                    \/ Frame(i).sot /\ NonWrappedTid(rx.tid, Frame(i).tid)
             PROVE  Frame(i).n > Last /\ (Open => Frame(i).n >= Owner)
  BY DEF SwitchSafe
<1> DEFINE h == Head(bus[i])
<1>1. Frame(i).n = h[1] /\ Frame(i).tid = sent[h[1]].tid /\ h \in On(i)
  BY FrameIs, HeadIs DEF RedundantInv, Inv, TypeInv
<1>2. /\ h[1] \in Nat /\ Len(sent) \in Nat /\ h[1] <= Len(sent)
      /\ sent[h[1]].tid \in TransferId /\ nextTid \in TransferId
      /\ Len(sent) + 1 - h[1] < TidMod \div 2 /\ TidMod \div 2 < TidMod
      /\ ForwardDistance(nextTid, sent[h[1]].tid) = Len(sent) + 1 - h[1]
  BY <1>1, InFlightDistance DEF RedundantInv
<1>3. /\ Last \in Nat /\ (Open => Owner \in Nat)
      /\ rx.tid \in TransferId /\ rx.timestamp \in Nat /\ rx.timestamp <= now /\ now \in Nat
  BY LastType, ChosenProfile DEF RedundantInv, Inv, TypeInv, OneTransfer, RxOK, StateType
<1> HIDE DEF h
<1>4. CASE TidTimedOut(rx, now)
  <2>1. now - rx.timestamp > TransferTimeout
    BY <1>3, <1>4 DEF TidTimedOut, OlderThan
  <2>2. now - h[3] <= traffic.delay /\ h[3] \in Nat
    BY <1>1, OnType DEF RedundantInv, Window, Inv, TypeInv, Slot
  <2>3. traffic.delay <= TransferTimeout /\ traffic.delay \in Nat
    BY ChosenProfile DEF Timely, RedundantInv, Inv, TypeInv, Types
  <2>4. ~(h[3] <= rx.timestamp)
    BY <1>3, <2>1, <2>2, <2>3, SessionAssumption
  <2>5. ~(h[1] <= Last) /\ (Open => ~(h[1] <= Owner))
    BY <1>1, <2>4 DEF RedundantInv, Stamped
  <2> QED
    BY <1>1, <1>2, <1>3, <2>5
<1>5. CASE NonWrappedTid(rx.tid, sent[h[1]].tid)
  <2>1. PICK p \in Nat : Expects(p)
    BY DEF RedundantInv, Ahead
  <2>2. ~(h[1] < p)
    <3>1. SUFFICES ASSUME h[1] < p PROVE FALSE
      OBVIOUS
    <3>2. CASE p = Len(sent) + 2
      BY <1>2, <1>3, <1>5, <2>1, <3>2, BehindIsNotAhead DEF Expects
    <3>3. CASE p <= Len(sent) + 1
      <4>1. Len(sent) + 1 - p < TidMod /\ Len(sent) + 1 - p < Len(sent) + 1 - h[1]
        BY <1>2, <3>1, TidModAssumption
      <4>2. ForwardDistance(nextTid, rx.tid) = Len(sent) + 1 - p
        BY <2>1, <3>3, <4>1 DEF Expects
      <4> QED
        BY <1>2, <1>3, <1>5, <4>1, <4>2, BehindIsNotAhead
    <3> QED
      BY <1>2, <2>1, <3>2, <3>3 DEF Expects
  <2>3. p > Last /\ (Open => p >= Owner)
    BY <2>1 DEF Expects
  <2> QED
    BY <1>1, <1>2, <1>3, <2>1, <2>2, <2>3
<1> QED
  BY <1>1, <1>4, <1>5

-----------------------------------------------------------------------------
(* The steps of the publisher, the buses and the clock *)

(* A step that publishes nothing. *)
LEMMA NumberedKept ==
    ASSUME Numbered, UNCHANGED <<nextTid, sent>>,
           "restarts" \in DOMAIN budget' /\ budget'.restarts = 0
    PROVE  Numbered'
BY DEF Numbered

(* A step in which frames leave the buses in their order. *)
LEMMA WindowKept ==
    ASSUME Inv, Window, UNCHANGED <<traffic, now, sent>>,
           \A i \in Ifaces :
              /\ On(i)' \subseteq On(i)
              /\ \A d \in On(i) \ On(i)' : \A e \in On(i)' : d = e \/ Precedes(d, e)
    PROVE  Window'
<1>1. Ifaces' = Ifaces
  BY DEF Ifaces
<1>2. SUFFICES ASSUME NEW i \in Ifaces, NEW e \in On(i)'
               PROVE  /\ \A n \in e[1] .. Len(sent) : \E d \in On(i)' : d[1] = n
                      /\ Len(sent) - e[1] < traffic.outstanding
                      /\ now - e[3] <= traffic.delay
  BY <1>1 DEF Window
<1>3. e \in On(i)
  OBVIOUS
<1>4. ASSUME NEW n \in e[1] .. Len(sent)
      PROVE  \E d \in On(i)' : d[1] = n
  <2>1. PICK d \in On(i) : d[1] = n
    BY <1>3, <1>4 DEF Window
  <2>2. CASE d \notin On(i)' /\ d # e
    <3>1. d[1] <= e[1] /\ e[1] \in Nat /\ d[1] \in Nat /\ Len(sent) \in Nat
      BY <1>2, <1>3, <2>1, <2>2, OnType, ChosenProfile DEF Precedes, Inv, TypeInv
    <3>2. d[1] = e[1]
      BY <1>4, <2>1, <3>1
    <3> QED
      BY <2>1, <3>2
  <2> QED
    BY <2>1, <2>2
<1> QED
  BY <1>3, <1>4 DEF Window

LEMMA PublishWindow ==
    ASSUME Inv, Numbered, Window, NEW frames \in traffic.frames, NEW zero \in ZeroKinds,
           Publish(frames, zero)
    PROVE  Numbered' /\ Window'
<1> DEFINE L == Len(sent)
<1>1. /\ Len(sent') = L + 1 /\ L \in Nat /\ DOMAIN sent = 1 .. L /\ DOMAIN sent' = 1 .. L + 1
      /\ \A n \in DOMAIN sent : n \in DOMAIN sent' /\ sent'[n] = sent[n]
      /\ sent'[L + 1] = [frames |-> frames, zero |-> zero, tid |-> nextTid]
      /\ \A i \in Ifaces :
            /\ On(i) \subseteq On(i)'
            /\ \A e \in On(i)' \ On(i) : e[1] = L + 1 /\ e[3] = now
            /\ \E e \in On(i)' : e[1] = L + 1
  <2>1. (sent \in Seq(Published))'
    BY PublishBus DEF Inv, TypeInv, Types
  <2>2. sent' \in Seq(Published')
    BY <2>1
  <2> QED
    BY <2>2, PublishBus, ChosenProfile DEF Inv, TypeInv
<1>2. /\ nextTid' = NextTransferId(nextTid) /\ nextTid \in TransferId
      /\ UNCHANGED <<traffic, now, budget>> /\ Ifaces' = Ifaces
      /\ Cardinality(InFlight) < traffic.outstanding
      /\ traffic.outstanding \in Nat /\ traffic.delay \in Nat /\ now \in Nat
  BY ChosenProfile DEF Publish, Ifaces, Inv, TypeInv, Types
<1> HIDE DEF L
<1>3. Numbered'
  <2>1. ASSUME NEW n \in 1 .. L + 1, L + 2 - n < TidMod
        PROVE  ForwardDistance(nextTid', sent'[n].tid) = L + 2 - n
    <3>1. CASE n = L + 1
      <4>1. sent'[n].tid = nextTid
        BY <1>1, <3>1
      <4> QED
        BY <1>1, <1>2, <3>1, <4>1, NextIsOneAhead
    <3>2. CASE n # L + 1
      <4>1. n \in DOMAIN sent /\ L + 1 - n < TidMod /\ sent'[n] = sent[n]
        BY <1>1, <2>1, <3>2, TidModAssumption
      <4>2. ForwardDistance(nextTid, sent[n].tid) = L + 1 - n
        BY <4>1 DEF Numbered, L
      <4>3. sent[n].tid \in TransferId
        <5>1. sent \in Seq(Published)
          BY DEF Inv, TypeInv, Types
        <5>2. sent[n] \in Published
          BY <4>1, <5>1
        <5> QED
          BY <5>2 DEF Published
      <4>4. ForwardDistance(nextTid, sent[n].tid) + 1 < TidMod
        BY <1>1, <2>1, <4>2, TidModAssumption
      <4>5. ForwardDistance(NextTransferId(nextTid), sent[n].tid) = L + 1 - n + 1
        BY <1>2, <4>2, <4>3, <4>4, DistanceSteps
      <4> QED
        BY <1>1, <1>2, <4>1, <4>5
    <3> QED
      BY <3>1, <3>2
  <2>2. \A n \in DOMAIN sent' : Len(sent') + 1 - n < TidMod =>
           ForwardDistance(nextTid', sent'[n].tid) = Len(sent') + 1 - n
    BY <1>1, <2>1
  <2> QED
    BY <1>2, <2>2 DEF Numbered
<1>4. IsFiniteSet(InFlight) /\ InFlight \subseteq 1 .. L
  <2>1. InFlight \subseteq 1 .. L
    BY <1>1 DEF InFlight, Inv, TypeInv, BusOK
  <2>2. IsFiniteSet(1 .. L)
    BY <1>1, FS_Interval
  <2> QED
    BY <2>1, <2>2, FS_Subset
<1>5. Cardinality(InFlight) \in Nat
  BY <1>4, FS_CardinalityType
<1>6. ASSUME NEW i \in Ifaces, NEW e \in On(i)'
      PROVE  /\ \A n \in e[1] .. L + 1 : \E d \in On(i)' : d[1] = n
             /\ L + 1 - e[1] < traffic.outstanding /\ e[1] \in Nat
             /\ now - e[3] <= traffic.delay
  <2>1. CASE e \in On(i)
    <3>1. e[1] \in 1 .. L
      BY <2>1, <1>1, OnType DEF Inv, TypeInv
    <3>2. \A n \in e[1] .. L : \E d \in On(i) : d[1] = n
      BY <2>1 DEF Window, L
    <3>3. e[1] .. L \subseteq InFlight
      BY <1>6, <3>2 DEF InFlight, On
    <3>4. Cardinality(e[1] .. L) = L - e[1] + 1
      <4>1. \A a, b \in Int : Cardinality(a .. b) = IF a > b THEN 0 ELSE b - a + 1
        BY FS_Interval
      <4>2. e[1] \in Int /\ L \in Int /\ ~(e[1] > L)
        BY <1>1, <3>1
      <4> QED
        BY <4>1, <4>2
    <3>5. L - e[1] + 1 <= Cardinality(InFlight)
      <4>1. Cardinality(e[1] .. L) <= Cardinality(InFlight)
        BY <1>4, <3>3, FS_Subset
      <4> QED
        BY <3>4, <4>1
    <3>6. L + 1 - e[1] < traffic.outstanding
      BY <1>1, <1>2, <1>5, <3>1, <3>5
    <3>7. \A n \in e[1] .. L + 1 : n \in e[1] .. L \/ n = L + 1
      BY <1>1, <3>1
    <3>8. \A n \in e[1] .. L + 1 : \E d \in On(i)' : d[1] = n
      BY <1>1, <1>6, <3>2, <3>7
    <3> QED
      BY <1>1, <2>1, <3>1, <3>6, <3>8 DEF Window
  <2>2. CASE e \notin On(i)
    <3>1. e[1] = L + 1 /\ e[3] = now
      BY <1>1, <1>6, <2>2
    <3>2. \A n \in e[1] .. L + 1 : n = L + 1
      BY <1>1, <3>1
    <3> QED
      BY <1>1, <1>2, <1>5, <1>6, <3>1, <3>2
  <2> QED
    BY <2>1, <2>2
<1>7. Window'
  <2>1. SUFFICES ASSUME NEW i \in Ifaces, NEW e \in On(i)'
                 PROVE  /\ \A n \in e[1] .. Len(sent') : \E d \in On(i)' : d[1] = n
                        /\ Len(sent') - e[1] < traffic'.outstanding
                        /\ now' - e[3] <= traffic'.delay
    BY <1>2 DEF Window
  <2>2. Len(sent') = L + 1 /\ traffic' = traffic /\ now' = now
    BY <1>1, <1>2
  <2>3. /\ \A n \in e[1] .. L + 1 : \E d \in On(i)' : d[1] = n
        /\ L + 1 - e[1] < traffic.outstanding /\ e[1] \in Nat
        /\ now - e[3] <= traffic.delay
    BY <1>6
  <2>4. \A n \in e[1] .. Len(sent') : \E d \in On(i)' : d[1] = n
    BY <2>2, <2>3
  <2>5. Len(sent') - e[1] < traffic'.outstanding
    BY <1>1, <2>2, <2>3
  <2>6. now' - e[3] <= traffic'.delay
    BY <2>2, <2>3
  <2> QED
    BY <2>4, <2>5, <2>6
<1> QED
  BY <1>3, <1>7

LEMMA PublishAhead ==
    ASSUME RedundantInv, NEW frames \in traffic.frames, NEW zero \in ZeroKinds,
           Publish(frames, zero)
    PROVE  Ahead' /\ Stamped'
<1> DEFINE L == Len(sent)
<1>1. /\ Len(sent') = L + 1 /\ L \in Nat
      /\ \A i \in Ifaces : \A e \in On(i)' \ On(i) : e[1] = L + 1
  BY PublishBus, ChosenProfile DEF RedundantInv, Inv, TypeInv
<1>2. /\ nextTid' = NextTransferId(nextTid) /\ nextTid \in TransferId
      /\ rx' = rx /\ Last' = Last /\ (Open <=> Open') /\ Owner' = Owner /\ Ifaces' = Ifaces
      /\ (rx # NoState => rx.tid \in TransferId)
  BY DEF Publish, Last, Open, Owner, Ifaces, RedundantInv, Inv, TypeInv, Types, RxOK, StateType
<1>3. ASSUME rx # NoState
      PROVE  \E p \in Nat : Expects(p)'
  <2>1. PICK p \in Nat : Expects(p)
    BY <1>3 DEF RedundantInv, Ahead
  <2>2. /\ p <= L + 2 /\ p > Last /\ (Open => p >= Owner)
        /\ p <= L + 1 /\ L + 1 - p < TidMod => ForwardDistance(nextTid, rx.tid) = L + 1 - p
        /\ p = L + 2 => ForwardDistance(rx.tid, nextTid) = 1
    BY <2>1 DEF Expects
  <2> HIDE DEF L
  <2>3. ASSUME L + 2 - p < TidMod
        PROVE  ForwardDistance(nextTid', rx.tid) = L + 2 - p
    <3>1. CASE p = L + 2
      <4>1. rx.tid = NextTransferId(nextTid)
        BY <1>2, <1>3, <2>2, <3>1, DistanceSteps
      <4>2. ForwardDistance(rx.tid, rx.tid) = 0
        BY <1>2, <1>3 DEF ForwardDistance, TransferId
      <4> QED
        BY <1>1, <1>2, <3>1, <4>1, <4>2
    <3>2. CASE p <= L + 1
      <4>1. L + 1 - p < TidMod
        BY <1>1, <2>3, TidModAssumption
      <4>2. ForwardDistance(nextTid, rx.tid) = L + 1 - p
        BY <2>2, <3>2, <4>1
      <4>3. ForwardDistance(nextTid, rx.tid) + 1 < TidMod
        BY <1>1, <2>3, <4>2, TidModAssumption
      <4>4. ForwardDistance(NextTransferId(nextTid), rx.tid) = L + 1 - p + 1
        BY <1>2, <1>3, <4>2, <4>3, DistanceSteps
      <4> QED
        BY <1>1, <1>2, <4>4
    <3> QED
      BY <1>1, <2>2, <3>1, <3>2
  <2>4. p <= Len(sent') + 2 /\ p # Len(sent') + 2
    BY <1>1, <2>2
  <2>5. Expects(p)'
    BY <1>1, <1>2, <2>2, <2>3, <2>4 DEF Expects
  <2> QED
    BY <2>5
<1>4. Ahead'
  BY <1>2, <1>3 DEF Ahead
<1>5. Stamped'
  <2>1. SUFFICES ASSUME rx # NoState, NEW i \in Ifaces, NEW e \in On(i)',
                        e[1] <= Last \/ (Open /\ e[1] <= Owner)
                 PROVE  e[3] <= rx.timestamp
    BY <1>2 DEF Stamped
  <2>2. Last \in Nat /\ Last <= L /\ (Open => Owner \in Nat /\ Owner <= L)
    BY LastType, ChosenProfile DEF RedundantInv, Inv, TypeInv, OneTransfer
  <2>3. e[1] # L + 1
    BY <1>1, <2>1, <2>2
  <2>4. e \in On(i)
    BY <1>1, <2>1, <2>3
  <2> QED
    BY <2>1, <2>4 DEF RedundantInv, Stamped
<1> QED
  BY <1>4, <1>5

(* A step that changes neither what was published nor what was received. *)
LEMMA AheadKept ==
    ASSUME Ahead, Stamped, UNCHANGED <<traffic, nextTid, sent, rx, delivered>>,
           \A i \in Ifaces : On(i)' \subseteq On(i)
    PROVE  Ahead' /\ Stamped'
<1>1. /\ Last' = Last /\ (Open <=> Open') /\ Owner' = Owner /\ Ifaces' = Ifaces
  BY DEF Last, Open, Owner, Ifaces
<1>2. \A p \in Nat : Expects(p) <=> Expects(p)'
  BY <1>1 DEF Expects
<1> QED
  BY <1>1, <1>2 DEF Ahead, Stamped

-----------------------------------------------------------------------------
(* The steps of canardHandleRxFrame *)

(* The transfer-IDs after that of a transfer in flight. *)
LEMMA DistancesAfter ==
    ASSUME Inv, Numbered, Window, Timely, NEW i \in Ifaces, NEW e \in On(i)
    PROVE  LET t == sent[e[1]].tid
           IN  /\ ForwardDistance(nextTid, t) = Len(sent) + 1 - e[1]
               /\ ForwardDistance(nextTid, NextTransferId(t)) = Len(sent) - e[1]
               /\ e[1] < Len(sent) =>
                     ForwardDistance(nextTid, NextTransferId(NextTransferId(t))) = Len(sent) - 1 - e[1]
               /\ e[1] = Len(sent) =>
                     ForwardDistance(NextTransferId(NextTransferId(t)), nextTid) = 1
<1> DEFINE t == sent[e[1]].tid
           L == Len(sent)
           n == e[1]
<1>1. /\ n \in Nat /\ L \in Nat /\ n <= L
      /\ t \in TransferId /\ nextTid \in TransferId
      /\ ForwardDistance(nextTid, t) = L + 1 - n
  BY InFlightDistance
<1> HIDE DEF t, L, n
<1>2. NextTransferId(t) \in TransferId
  BY <1>1, NextTransferIdType
<1>3. ForwardDistance(nextTid, NextTransferId(t)) = L - n
  <2>1. ForwardDistance(nextTid, t) >= 1
    BY <1>1
  <2>2. ForwardDistance(nextTid, NextTransferId(t)) = L + 1 - n - 1
    BY <1>1, <2>1, DistanceSteps
  <2> QED
    BY <1>1, <2>2
<1>4. n < L => ForwardDistance(nextTid, NextTransferId(NextTransferId(t))) = L - 1 - n
  <2>1. SUFFICES ASSUME n < L
                 PROVE  ForwardDistance(nextTid, NextTransferId(NextTransferId(t))) = L - 1 - n
    OBVIOUS
  <2>2. ForwardDistance(nextTid, NextTransferId(t)) >= 1
    BY <1>1, <1>3, <2>1
  <2>3. ForwardDistance(nextTid, NextTransferId(NextTransferId(t))) = L - n - 1
    BY <1>1, <1>2, <1>3, <2>2, DistanceSteps
  <2> QED
    BY <1>1, <2>3
<1>5. n = L => ForwardDistance(NextTransferId(NextTransferId(t)), nextTid) = 1
  <2>1. SUFFICES ASSUME n = L
                 PROVE  ForwardDistance(NextTransferId(NextTransferId(t)), nextTid) = 1
    OBVIOUS
  <2>2. ForwardDistance(nextTid, t) = 1
    BY <1>1, <2>1
  <2>3. nextTid = NextTransferId(t)
    BY <1>1, <2>2, DistanceSteps
  <2> QED
    BY <1>1, <2>3, NextIsOneAhead
<1> QED
  BY <1>1, <1>3, <1>4, <1>5 DEF t, L, n

(* A register that may still be completed is that of before, or that of a transfer that    *)
(* has just begun.                                                              *)
LEMMA OpenAfter ==
    ASSUME Inv, Regular, NEW i \in Ifaces, Handles(i), Open'
    PROVE  \/ Open /\ Owner' = Owner
           \/ Begun(Frame(i)) /\ Owner' = Frame(i).n
<1> DEFINE f == Frame(i)
<1>1. /\ Outcome(f) /\ f.n \in DOMAIN sent /\ f.chunk \in Word
      /\ \A register \in Seq(Word) : CrcAdd(register, f.chunk) = Append(register, f.chunk)
  BY HandlesFacts
<1>2. rx # NoState => rx.crc \in Seq(Word) /\ rx.expected \in Seq(Word)
  BY DEF Inv, TypeInv, RxOK, StateType
<1> HIDE DEF f
<1>3. ASSUME rx # NoState, rx'.crc = rx.crc, rx'.expected = rx.expected
      PROVE  Open /\ Owner' = Owner
  BY <1>3 DEF Open, Owner
<1>4. ASSUME rx # NoState, rx'.crc = CrcAdd(rx.crc, f.chunk), rx'.expected = rx.expected
      PROVE  Open /\ Owner' = Owner
  <2>1. rx'.crc = Append(rx.crc, f.chunk) /\ ~Hopeless(rx'.crc, rx.expected)
    BY <1>1, <1>2, <1>4 DEF Open
  <2>2. ~Hopeless(rx.crc, rx.expected)
    BY <1>1, <1>2, <1>4, <2>1, HopelessForGood
  <2> QED
    BY <1>4, <2>2 DEF Open, Owner
<1>5. CASE Ignored
  BY <1>5 DEF Ignored, Open, Owner
<1>6. CASE Skipped(f)
  BY <1>3, <1>6 DEF Skipped
<1>7. CASE Single(f)
  <2>1. rx'.crc = Session.crc /\ rx'.expected = Session.expected
    BY <1>7 DEF Single
  <2>2. CASE rx = NoState
    <3>1. rx'.crc = <<>> /\ rx'.expected = <<>>
      BY <2>1, <2>2 DEF Session, NewState
    <3>2. Hopeless(rx'.crc, rx'.expected)
      BY <3>1 DEF Hopeless
    <3> QED
      BY <3>2 DEF Open
  <2>3. CASE rx # NoState
    BY <1>3, <2>1, <2>3 DEF Session
  <2> QED
    BY <2>2, <2>3
<1>8. CASE Begun(f)
  <2>1. rx'.expected = TransferCrc(f.n)
    BY <1>8 DEF Begun
  <2>2. sent[f.n].frames \in Nat \ {0}
    BY <1>1, PayloadType DEF Inv, TypeInv
  <2>3. TransferCrc(f.n)[2] = <<f.n, 1>>
    <3>1. 2 \in 2 .. sent[f.n].frames + 1
      BY <2>2
    <3>2. TransferCrc(f.n)[2] = <<f.n, 2 - 1>>
      BY <1>1, <3>1, PlainChunks DEF Inv, TypeInv
    <3> QED
      BY <3>2
  <2> QED
    BY <1>8, <2>1, <2>3 DEF Owner, f
<1>9. CASE Continued(f)
  BY <1>4, <1>9 DEF Continued, Wanted
<1>10. CASE GivenUp(f)
  BY <1>3, <1>10 DEF GivenUp, Wanted
<1>11. CASE Ended(f)
  BY <1>4, <1>11 DEF Ended, Wanted
<1> QED
  BY <1>1, <1>5, <1>6, <1>7, <1>8, <1>9, <1>10, <1>11 DEF Outcome, f

(* What was delivered last after a step: what was before, or this frame's transfer. *)
LEMMA LastOutcome ==
    ASSUME Inv, Regular, NEW i \in Ifaces, Handles(i)
    PROVE  \/ Last' = Last
           \/ Last' = Frame(i).n /\ Single(Frame(i))
           \/ /\ Last' = Frame(i).n /\ Ended(Frame(i))
              /\ CrcAdd(rx.crc, Frame(i).chunk) = rx.expected
<1> DEFINE f == Frame(i)
<1>1. Outcome(f) /\ Types
  BY HandlesFacts DEF Inv, TypeInv
<1>2. ASSUME NEW payload, NEW started,
             delivered' = Append(delivered, Transfer(f, payload, started))
      PROVE  Last' = f.n
  <2>1. Transfer(f, payload, started).n = f.n
    BY DEF Transfer
  <2> QED
    BY <1>1, <1>2, <2>1, LastAfter
<1> HIDE DEF f
<1>3. CASE UNCHANGED delivered
  BY <1>3, LastSame
<1>4. CASE Single(f)
  BY <1>2, <1>4 DEF Single, f
<1>5. CASE Ended(f) /\ ~UNCHANGED delivered
  BY <1>2, <1>5 DEF Ended, f
<1> QED
  BY <1>1, <1>3, <1>4, <1>5 DEF Outcome, Ignored, Skipped, Begun, Continued, GivenUp

(* However the function leaves the state, it expects a transfer that was not delivered:     *)
(* the one it is in the middle of, the next one, or the next but one.                   *)
LEMMA AheadStep ==
    ASSUME RedundantInv, SwitchSafe, Regular, Timely, NEW i \in Ifaces, Handles(i)
    PROVE  Ahead'
<1> DEFINE f == Frame(i)
           L == Len(sent)
<1>1. /\ Outcome(f) /\ f.n \in Nat \ {0} /\ f.n <= L /\ L \in Nat
      /\ f.tid = sent[f.n].tid /\ f.tid \in TransferId
      /\ Head(bus[i]) \in On(i) /\ Head(bus[i])[1] = f.n
      /\ sent' = sent /\ nextTid' = nextTid /\ nextTid \in TransferId
  <2>1. f.n \in DOMAIN sent /\ DOMAIN sent = 1 .. L /\ L \in Nat
    BY HandlesFacts, ChosenProfile DEF RedundantInv, Inv, TypeInv
  <2> QED
    BY <2>1, HandlesFacts DEF RedundantInv, Inv, TypeInv, Types, Handles
<1>2. /\ ForwardDistance(nextTid, f.tid) = L + 1 - f.n
      /\ ForwardDistance(nextTid, NextTransferId(f.tid)) = L - f.n
      /\ f.n < L =>
            ForwardDistance(nextTid, NextTransferId(NextTransferId(f.tid))) = L - 1 - f.n
      /\ f.n = L =>
            ForwardDistance(NextTransferId(NextTransferId(f.tid)), nextTid) = 1
  BY <1>1, DistancesAfter DEF RedundantInv
<1>3. /\ (f.sot /\ Heard(f)) \/ Wanted(f) => f.n > Last
      /\ Skipped(f) => f.n >= Last
      /\ Open /\ ((f.sot /\ Heard(f)) \/ Wanted(f) \/ Skipped(f)) => f.n >= Owner
  BY NothingOld DEF RedundantInv
<1>4. /\ Last \in Nat
      /\ Open => Owner \in Nat
      /\ Open' => (Owner' = f.n /\ Begun(f)) \/ (Open /\ Owner' = Owner)
      /\ Last' = Last \/ (Last' = f.n /\ (Single(f) \/ Ended(f)))
  <2>1. Last \in Nat /\ (Open => Owner \in Nat)
    BY LastType, ChosenProfile DEF RedundantInv, Inv, TypeInv, OneTransfer
  <2>2. /\ Open' => (Owner' = f.n /\ Begun(f)) \/ (Open /\ Owner' = Owner)
        /\ Last' = Last \/ (Last' = f.n /\ (Single(f) \/ Ended(f)))
    BY LastOutcome, OpenAfter DEF RedundantInv
  <2> QED
    BY <2>1, <2>2
<1> HIDE DEF f, L
<1>5. ASSUME NEW p \in Nat, p <= L + 2, p > Last', Open' => p >= Owner',
             p <= L + 1 => ForwardDistance(nextTid, rx'.tid) = L + 1 - p,
             p = L + 2 => ForwardDistance(rx'.tid, nextTid) = 1
      PROVE  Ahead'
  <2>1. Expects(p)'
    BY <1>1, <1>5 DEF Expects, L
  <2> QED
    BY <2>1 DEF Ahead
<1>6. ASSUME rx'.tid = NextTransferId(f.tid), Last' = Last \/ Last' = f.n,
             f.n >= Last, Open' => Open /\ Owner' = Owner, Open => f.n >= Owner
      PROVE  Ahead'
  <2> DEFINE p == f.n + 1
  <2>1. p \in Nat /\ p <= L + 1 /\ p # L + 2 /\ p > f.n /\ L + 1 - p = L - f.n
    BY <1>1
  <2>2. p > Last' /\ (Open' => p >= Owner')
    BY <1>1, <1>4, <1>6, <2>1
  <2>3. ForwardDistance(nextTid, rx'.tid) = L + 1 - p
    BY <1>2, <1>6, <2>1
  <2>4. p <= L + 2
    BY <1>1, <2>1
  <2> HIDE DEF p
  <2> QED
    BY <1>5, <2>1, <2>2, <2>3, <2>4
<1>7. ASSUME UNCHANGED rx \/ rx'.tid = rx.tid, rx # NoState \/ rx' = NoState,
             Last' = Last, Open' => Open /\ Owner' = Owner
      PROVE  Ahead'
  <2>1. CASE rx' = NoState
    BY <2>1 DEF Ahead
  <2>2. CASE rx # NoState
    <3>1. PICK p \in Nat : Expects(p)
      BY <2>2 DEF RedundantInv, Ahead
    <3>2. Expects(p)'
      BY <1>1, <1>7, <3>1 DEF Expects
    <3> QED
      BY <3>2 DEF Ahead
  <2> QED
    BY <1>7, <2>1, <2>2
<1>8. CASE Ignored
  BY <1>7, <1>8, LastSame DEF Ignored, Open, Owner
<1>9. CASE Skipped(f)
  <2>1. /\ rx # NoState /\ rx'.tid = NextTransferId(f.tid) /\ Last' = Last
        /\ rx'.crc = rx.crc /\ rx'.expected = rx.expected
    BY <1>9, LastSame DEF Skipped
  <2>2. Open' => Open /\ Owner' = Owner
    BY <2>1 DEF Open, Owner
  <2> QED
    BY <1>3, <1>6, <1>9, <2>1, <2>2
<1>10. CASE Single(f)
  <2>1. f.sot /\ f.eot /\ Heard(f)
    BY <1>10 DEF Single
  <2>2. PICK tid \in TransferId : /\ tid = f.tid \/ ForwardDistance(tid, f.tid) = 1
                                  /\ rx'.tid = NextTransferId(tid)
    BY <1>10 DEF Single
  <2>3. ~Begun(f)
    BY <2>1 DEF Begun
  <2>4. f.n > Last /\ (Open => f.n >= Owner) /\ (Open' => Open /\ Owner' = Owner)
        /\ (Last' = Last \/ Last' = f.n)
    BY <1>3, <1>4, <2>1, <2>3
  <2>5. CASE tid = f.tid
    <3>1. f.n >= Last
      BY <1>1, <1>4, <2>4
    <3> QED
      BY <1>6, <2>2, <2>4, <2>5, <3>1
  <2>6. CASE ForwardDistance(tid, f.tid) = 1
    <3> DEFINE p == f.n + 2
    <3>1. rx'.tid = NextTransferId(NextTransferId(f.tid))
      BY <1>1, <2>2, <2>6, DistanceSteps
    <3>2. p \in Nat /\ p <= L + 2 /\ p > f.n
      BY <1>1
    <3>3. p > Last' /\ (Open' => p >= Owner')
      BY <1>1, <1>4, <2>4, <3>2
    <3>4. p <= L + 1 => ForwardDistance(nextTid, rx'.tid) = L + 1 - p
      <4>1. p <= L + 1 => f.n < L /\ L - 1 - f.n = L + 1 - p
        BY <1>1
      <4> QED
        BY <1>2, <3>1, <4>1
    <3>5. p = L + 2 => ForwardDistance(rx'.tid, nextTid) = 1
      <4>1. p = L + 2 => f.n = L
        BY <1>1
      <4> QED
        BY <1>2, <3>1, <4>1
    <3> HIDE DEF p
    <3> QED
      BY <1>5, <3>2, <3>3, <3>4, <3>5
  <2> QED
    BY <2>2, <2>5, <2>6
<1>11. CASE Begun(f)
  <2>1. f.sot /\ Heard(f) /\ rx'.tid = f.tid /\ ~f.eot /\ UNCHANGED delivered
    BY <1>11 DEF Begun
  <2>2. Last' = Last /\ f.n > Last /\ (Open => f.n >= Owner)
    BY <1>3, <2>1, LastSame
  <2>3. Open' => f.n >= Owner'
    BY <1>1, <1>4, <2>2
  <2>4. f.n <= L + 2 /\ f.n # L + 2 /\ f.n \in Nat
    BY <1>1
  <2> QED
    BY <1>2, <1>5, <2>1, <2>2, <2>3, <2>4
<1>12. CASE Continued(f)
  <2>1. rx # NoState /\ ~f.sot /\ rx'.tid = rx.tid /\ UNCHANGED delivered
    BY <1>12 DEF Continued, Wanted
  <2>2. ~Begun(f)
    BY <2>1 DEF Begun
  <2>3. Last' = Last /\ (Open' => Open /\ Owner' = Owner)
    BY <1>4, <2>1, <2>2, LastSame
  <2> QED
    BY <1>7, <2>1, <2>3
<1>13. CASE GivenUp(f) \/ Ended(f)
  <2>1. Wanted(f) /\ ~f.sot /\ rx'.tid = NextTransferId(f.tid)
    BY <1>13 DEF GivenUp, Ended, Wanted
  <2>2. ~Begun(f)
    BY <2>1 DEF Begun
  <2>3. /\ f.n > Last /\ (Open => f.n >= Owner) /\ (Open' => Open /\ Owner' = Owner)
        /\ Last' = Last \/ Last' = f.n
    BY <1>3, <1>4, <2>1, <2>2
  <2>4. f.n >= Last
    BY <1>1, <1>4, <2>3
  <2> QED
    BY <1>6, <2>1, <2>3, <2>4
<1> QED
  BY <1>1, <1>8, <1>9, <1>10, <1>11, <1>12, <1>13 DEF Outcome

(* The timestamp of the state is that of the transfer it has begun, or of the last one     *)
(* frame it has delivered at once.                                              *)
LEMMA StampedStep ==
    ASSUME RedundantInv, SwitchSafe, Regular, NEW i \in Ifaces, Handles(i)
    PROVE  Stamped'
<1> DEFINE f == Frame(i)
<1>1. Outcome(f) /\ Ifaces' = Ifaces
  BY HandlesFacts DEF RedundantInv, Handles, Ifaces
<1>2. \A l \in Ifaces : \A e \in On(l)' : e \in On(l) /\ e[3] \in Nat /\ e[3] <= now
  <2>1. \A l \in Ifaces : \A e \in On(l) : e[3] \in 1 .. now
    BY OnType DEF RedundantInv, Inv, TypeInv
  <2>2. now \in Nat
    BY ChosenProfile DEF RedundantInv, Inv, TypeInv
  <2> QED
    BY <2>1, <2>2 DEF Handles
<1>3. /\ Open' => (Owner' = f.n /\ Begun(f)) \/ (Open /\ Owner' = Owner)
      /\ \/ Last' = Last
         \/ Last' = f.n /\ Single(f)
         \/ Last' = f.n /\ Ended(f) /\ CrcAdd(rx.crc, f.chunk) = rx.expected
  BY LastOutcome, OpenAfter DEF RedundantInv
<1>4. Ended(f) /\ CrcAdd(rx.crc, f.chunk) = rx.expected => Open /\ f.n = Owner
  BY Completed DEF RedundantInv, Ended
<1> HIDE DEF f
<1>5. ASSUME rx'.timestamp = now
      PROVE  Stamped'
  BY <1>1, <1>2, <1>5 DEF Stamped
<1>6. ASSUME rx # NoState \/ rx' = NoState, rx'.timestamp = rx.timestamp,
             Open' => Open /\ Owner' = Owner,
             Last' = Last \/ (Open /\ Last' = Owner)
      PROVE  Stamped'
  <2>1. SUFFICES ASSUME rx' # NoState, NEW l \in Ifaces, NEW e \in On(l)',
                        e[1] <= Last' \/ (Open' /\ e[1] <= Owner')
                 PROVE  e[3] <= rx'.timestamp
    BY <1>1 DEF Stamped
  <2>2. e \in On(l) /\ rx # NoState
    BY <1>2, <1>6, <2>1
  <2>3. e[1] <= Last \/ (Open /\ e[1] <= Owner)
    BY <1>6, <2>1
  <2> QED
    BY <1>6, <2>2, <2>3 DEF RedundantInv, Stamped
<1>7. CASE Ignored
  BY <1>6, <1>7, LastSame DEF Ignored, Open, Owner
<1>8. CASE Single(f) \/ Begun(f)
  <2>1. rx'.timestamp = now
    BY <1>8 DEF Single, Begun
  <2> QED
    BY <1>5, <2>1
<1>9. CASE Skipped(f) \/ Continued(f) \/ GivenUp(f) \/ Ended(f)
  <2>1. rx # NoState /\ rx'.timestamp = rx.timestamp /\ ~f.sot
    BY <1>9 DEF Skipped, Continued, GivenUp, Ended, Wanted
  <2>2. ~Begun(f) /\ ~Single(f)
    BY <2>1 DEF Begun, Single
  <2> QED
    BY <1>3, <1>4, <1>6, <2>1, <2>2
<1> QED
  BY <1>1, <1>7, <1>8, <1>9 DEF Outcome

-----------------------------------------------------------------------------
(* The refinement *)

LEMMA RedundantInit == Timely /\ Init => RedundantInv
<1> SUFFICES ASSUME Timely, Init PROVE RedundantInv
  OBVIOUS
<1>1. /\ Inv /\ sent = <<>> /\ rx = NoState
      /\ budget = [losses |-> traffic.losses, repeats |-> MaxRepeats, restarts |-> MaxRestarts]
      /\ \A i \in Ifaces : On(i) = {}
  BY InvInit DEF Init, On
<1>2. Numbered
  BY <1>1 DEF Numbered, Timely
<1> QED
  BY <1>1, <1>2 DEF RedundantInv, Window, Ahead, Stamped

LEMMA RedundantStep ==
    ASSUME RedundantInv, Regular, Timely, [Next]_vars
    PROVE  RedundantInv'
<1>1. SwitchSafe
  BY SwitchesForward
<1>2. Inv' /\ Inv
  BY <1>1, InvStep DEF RedundantInv
<1> USE DEF RedundantInv
<1>3. ASSUME NEW frames \in traffic.frames, NEW zero \in ZeroKinds, Publish(frames, zero)
      PROVE  RedundantInv'
  BY <1>2, <1>3, PublishWindow, PublishAhead
<1>4. ASSUME NEW i \in Ifaces, Handles(i), Numbered', Window'
      PROVE  RedundantInv'
  BY <1>1, <1>2, <1>4, AheadStep, StampedStep
<1>5. ASSUME NEW i \in Ifaces, bus[i] # <<>>, bus' = [bus EXCEPT ![i] = Tail(@)],
             UNCHANGED <<traffic, now, sent>>
      PROVE  /\ Window' /\ \A l \in Ifaces : On(l)' \subseteq On(l)
             /\ \A e \in On(i)' : Precedes(Head(bus[i]), e)
  <2>1. /\ \A l \in Ifaces : On(l)' \subseteq On(l)
        /\ \A l \in Ifaces : l # i => On(l)' = On(l)
        /\ \A d \in On(i) : d = Head(bus[i]) \/ d \in On(i)'
        /\ \A e \in On(i)' : Precedes(Head(bus[i]), e)
    BY <1>2, <1>5, TailBus DEF Inv, TypeInv
  <2>2. \A l \in Ifaces :
           /\ On(l)' \subseteq On(l)
           /\ \A d \in On(l) \ On(l)' : \A e \in On(l)' : d = e \/ Precedes(d, e)
    BY <2>1
  <2> QED
    BY <1>2, <1>5, <2>1, <2>2, WindowKept
<1>6. ASSUME UNCHANGED bus, UNCHANGED <<traffic, now, sent>>
      PROVE  Window' /\ \A l \in Ifaces : On(l)' = On(l)
  <2>1. \A l \in Ifaces : On(l)' = On(l)
    BY <1>6 DEF On
  <2>2. \A l \in Ifaces :
           /\ On(l)' \subseteq On(l)
           /\ \A d \in On(l) \ On(l)' : \A e \in On(l)' : d = e \/ Precedes(d, e)
    BY <2>1
  <2> QED
    BY <1>2, <1>6, <2>1, <2>2, WindowKept
<1>7. ASSUME NEW i \in Ifaces, Receive(i)
      PROVE  RedundantInv'
  <2>1. /\ bus[i] # <<>> /\ HandleRxFrame(Frame(i)) /\ bus' = [bus EXCEPT ![i] = Tail(@)]
        /\ UNCHANGED <<traffic, now, nextTid, sent, budget>>
    BY <1>7 DEF Receive
  <2>2. /\ Window' /\ \A l \in Ifaces : On(l)' \subseteq On(l)
        /\ \A e \in On(i)' : Precedes(Head(bus[i]), e)
    BY <1>5, <2>1
  <2>3. Handles(i)
    BY <2>1, <2>2 DEF Handles, Coming
  <2>4. Numbered'
    BY <2>1 DEF Numbered
  <2> QED
    BY <1>4, <2>2, <2>3, <2>4
<1>8. ASSUME NEW i \in Ifaces, ReceiveAndRepeat(i)
      PROVE  RedundantInv'
  <2>1. /\ bus[i] # <<>> /\ HandleRxFrame(Frame(i)) /\ ~(Frame(i).sot /\ Frame(i).eot)
        /\ UNCHANGED <<traffic, now, nextTid, sent, bus>>
        /\ budget' = [budget EXCEPT !.repeats = @ - 1]
    BY <1>8 DEF ReceiveAndRepeat, Regular
  <2>2. Window' /\ \A l \in Ifaces : On(l)' = On(l)
    BY <1>6, <2>1
  <2>3. \A e \in On(i) : e = Head(bus[i]) \/ Precedes(Head(bus[i]), e)
    BY <1>2, <2>1, HeadIs DEF Inv, TypeInv
  <2>4. Handles(i)
    BY <2>1, <2>2, <2>3 DEF Handles, Coming
  <2>5. "restarts" \in DOMAIN budget' /\ budget'.restarts = 0
    BY <2>1 DEF Numbered
  <2>6. Numbered'
    BY <2>1, <2>5, NumberedKept
  <2> QED
    BY <1>4, <2>2, <2>4, <2>6
<1>9. ASSUME NEW i \in Ifaces, Lose(i)
      PROVE  RedundantInv'
  <2>1. /\ bus[i] # <<>> /\ bus' = [bus EXCEPT ![i] = Tail(@)]
        /\ UNCHANGED <<traffic, now, nextTid, sent, rx, delivered>>
        /\ budget' = [budget EXCEPT !.losses = @ - 1]
    BY <1>9 DEF Lose
  <2>2. /\ Window' /\ \A l \in Ifaces : On(l)' \subseteq On(l)
    BY <1>5, <2>1
  <2>3. "restarts" \in DOMAIN budget' /\ budget'.restarts = 0
    BY <2>1 DEF Numbered
  <2>4. Numbered'
    BY <2>1, <2>3, NumberedKept
  <2> QED
    BY <1>2, <2>1, <2>2, <2>4, AheadKept
<1>10. CASE RestartPublisher
  BY <1>10, SMT DEF RestartPublisher, Numbered
<1>11. CASE Cleanup
  <2>1. rx' = NoState /\ UNCHANGED <<traffic, now, nextTid, sent, bus, budget>>
    BY <1>11 DEF Cleanup
  <2>2. Window' /\ Numbered'
    BY <1>6, <2>1 DEF Numbered
  <2> QED
    BY <1>2, <2>1, <2>2 DEF Ahead, Stamped
<1>12. CASE Tick
  <2>1. /\ now' = now + 1
        /\ \A i \in Ifaces : bus[i] # <<>> => now - Head(bus[i])[3] < traffic.delay
        /\ UNCHANGED <<traffic, nextTid, sent, bus, rx, delivered, budget>>
    BY <1>12 DEF Tick
  <2>2. (\A i \in Ifaces : On(i)' = On(i)) /\ Ifaces' = Ifaces
    BY <2>1 DEF On, Ifaces
  <2>3. ASSUME NEW i \in Ifaces, NEW e \in On(i)
        PROVE  now' - e[3] <= traffic.delay
    <3>1. bus[i] # <<>>
      BY <2>3 DEF On
    <3>2. /\ Head(bus[i])[3] <= e[3] /\ e[3] \in Nat /\ Head(bus[i])[3] \in Nat
          /\ now \in Nat /\ traffic.delay \in Nat
      BY <1>2, <2>3, <3>1, HeadIs, OnType, ChosenProfile DEF Inv, TypeInv, Slot
    <3>3. now - Head(bus[i])[3] < traffic.delay /\ now' = now + 1
      BY <2>1, <3>1
    <3> QED
      BY <3>2, <3>3
  <2>4. Window'
    <3>1. SUFFICES ASSUME NEW i \in Ifaces, NEW e \in On(i)'
                   PROVE  /\ \A n \in e[1] .. Len(sent') : \E d \in On(i)' : d[1] = n
                          /\ Len(sent') - e[1] < traffic'.outstanding
                          /\ now' - e[3] <= traffic'.delay
      BY <2>2 DEF Window, Ifaces
    <3>2. e \in On(i) /\ On(i)' = On(i) /\ sent' = sent /\ traffic' = traffic
      BY <2>1, <2>2, <3>1
    <3>3. /\ \A n \in e[1] .. Len(sent) : \E d \in On(i) : d[1] = n
          /\ Len(sent) - e[1] < traffic.outstanding
      BY <3>2 DEF Window
    <3>4. now' - e[3] <= traffic.delay
      BY <2>3, <3>2
    <3> QED
      BY <3>2, <3>3, <3>4
  <2>5. Numbered'
    BY <2>1 DEF Numbered
  <2>6. Ahead' /\ Stamped'
    BY <2>1, <2>2, AheadKept
  <2> QED
    BY <1>2, <2>4, <2>5, <2>6
<1>13. CASE UNCHANGED vars
  <2>1. UNCHANGED <<traffic, now, nextTid, sent, bus, rx, delivered, budget>>
    BY <1>13 DEF vars
  <2>2. Window' /\ \A l \in Ifaces : On(l)' = On(l)
    BY <1>6, <2>1
  <2>3. Numbered' /\ Ahead' /\ Stamped'
    BY <2>1, <2>2, AheadKept DEF Numbered
  <2> QED
    BY <1>2, <2>2, <2>3
<1> QED
  BY <1>3, <1>7, <1>8, <1>9, <1>10, <1>11, <1>12, <1>13 DEF Next

(* On any number of redundant interfaces the subscriber sees a channel that only loses      *)
(* transfers: canardHandleRxFrame switches interfaces without delivering anything twice,    *)
(* out of order or mixed up, for any losses, repeated frames of longer transfers, failed    *)
(* allocations and cleanups.  The bound on what is outstanding is sharp: with half the       *)
(* ring in flight, a state that a single-frame transfer has moved one too far takes a       *)
(* frame that is behind it for one ahead.                                            *)
THEOREM RedundantBusesImplementChannel ==
    ASSUME Regular, Timely
    PROVE  Spec => ImplementsChannel
<1>1. RedundantInv /\ [Next]_vars => RedundantInv' /\ [Channel!Next]_Channel!vars
  <2>1. SUFFICES ASSUME RedundantInv, [Next]_vars
                 PROVE  RedundantInv' /\ [Channel!Next]_Channel!vars
    OBVIOUS
  <2>2. SwitchSafe
    BY <2>1, SwitchesForward
  <2>3. Inv /\ Inv' /\ ChannelStep
    BY <2>1, <2>2, InvStep DEF RedundantInv
  <2> QED
    BY <2>1, <2>3, RedundantStep, ChannelRefined
<1> QED
  BY <1>1, RedundantInit, ChannelInit, PTL DEF Spec, ImplementsChannel, Channel!Spec

-----------------------------------------------------------------------------
(* Lost frames, on one interface *)


(* Interface i has lost a frame of transfer n. *)
Missed(i, n) == \E k \in 1 .. sent[n].frames : <<n, k, i>> \in gone

(* The next frame of interface i is frame k of transfer h: what is on the bus is that    *)
(* one and all that were published after it.                                      *)
Position(i, h, k) ==
    /\ h \in 1 .. Len(sent) + 1
    /\ k \in Nat \ {0}
    /\ h \in DOMAIN sent => k <= sent[h].frames
    /\ h = Len(sent) + 1 => k = 1
    /\ \A n \in DOMAIN sent : \A q \in 1 .. sent[n].frames :
          (\E e \in On(i) : e[1] = n /\ e[2] = q) <=> n > h \/ (n = h /\ q >= k)

(* The transfer-ID of transfer n, which may be the one to be published next. *)
TidOf(n) == IF n = Len(sent) + 1 THEN nextTid ELSE sent[n].tid

(* The transfer-IDs count the transfers; the publisher does not restart. *)
Paced ==
    /\ "restarts" \in DOMAIN budget /\ budget.restarts = 0
    /\ \A a, b \in 1 .. Len(sent) + 1 : a <= b /\ b - a < TidMod =>
          ForwardDistance(TidOf(b), TidOf(a)) = b - a

(* No more is lost than the profile says. *)
Counted ==
    /\ "losses" \in DOMAIN budget /\ budget.losses \in Nat
    /\ IsFiniteSet(gone)
    /\ Cardinality(gone) + budget.losses <= traffic.losses

Young(i) == \A e \in On(i) : now - e[3] <= traffic.delay

(* The state expects transfer p. *)
RightTid(p) == p <= Len(sent) + 1 /\ rx.tid = TidOf(p)

(* The state has taken the first c frames of transfer n, and is at least as young as    *)
(* the others.                                                               *)
InSync(i, n, c) ==
    /\ rx # NoState
    /\ n \in DOMAIN sent /\ c \in 1 .. sent[n].frames - 1
    /\ rx.tid = sent[n].tid
    /\ rx.toggle = (c % 2 = 1)
    /\ rx.expected = TransferCrc(n) /\ rx.crc = Seeded \o stored
    /\ stored = [q \in 1 .. c |-> Chunk(n, q)]
    /\ \A e \in On(i) : e[1] = n => e[3] <= rx.timestamp

PastOf(n) == rx # NoState => RightTid(n + 1) /\ ~rx.toggle

(* Before frame k of a transfer that nothing is missing of.  If frame k - 1 is repeated,  *)
(* the state has it already when it comes again.                                 *)
Follows(i, n, k) ==
    \/ k = 1
    \/ InSync(i, n, k - 1)
    \/ InSync(i, n, k)
    \/ Delivered(n) /\ k = sent[n].frames /\ PastOf(n)

(* The state expects a transfer that is no newer than the one that comes, unless it has   *)
(* just done with that; and it is behind only by transfers that were not whole.        *)
Behind(i, n, k) ==
    rx # NoState => \E p \in 1 .. n + 1 :
        /\ RightTid(p)
        /\ \A x \in p .. n - 1 : Missed(i, x)
        /\ p = n + 1 => k > 1 /\ ~rx.toggle
        /\ p = n /\ k = 1 => ~rx.toggle \/ InSync(i, n, 1)

At(i, h, k) ==
    /\ Position(i, h, k)
    /\ \A m \in DOMAIN sent : m < h => Missed(i, m) \/ Delivered(m)
    /\ h \in DOMAIN sent /\ ~Missed(i, h) => Follows(i, h, k)
    /\ Behind(i, h, k)

LossInv(i) ==
    /\ TypeInv /\ Paced /\ Counted /\ Young(i)
    /\ \E h, k \in Nat : At(i, h, k)

(* No allocation fails, no single-frame transfer is repeated, the publisher does not      *)
(* restart, one interface never loses as many frames as take the transfer-ID once round    *)
(* the ring, and no frame is older than what canardCleanupStaleTransfers leaves alone.    *)
Sparse ==
    /\ MemoryShort = FALSE /\ RepeatSingles = FALSE /\ MaxRestarts = 0
    /\ \A p \in Profiles : \A i \in p.ifaces : p.ifaces = {i} =>
          p.losses < TidMod - 1 /\ p.delay <= TransferTimeout

-----------------------------------------------------------------------------
(* What canardHandleRxFrame must accept *)

(* The first frame of a transfer that the state expects or that is not the one before,   *)
(* when the state is not in the middle of it.                                    *)
LEMMA StartTaken ==
    ASSUME Types, RxOK, MemoryShort = FALSE, NEW f, IsFrame(f), HandleRxFrame(f), f.sot,
           rx # NoState =>
               /\ rx.iface = f.iface
               /\ ForwardDistance(rx.tid, f.tid) # 1
               /\ ForwardDistance(rx.tid, f.tid) = 0 => rx.toggle = FALSE
    PROVE  \/ ~f.eot /\ Begun(f)
           \/ f.eot /\ Single(f) /\ rx'.tid = NextTransferId(f.tid)
<1>1. /\ f \in FrameType /\ now \in Nat /\ f.n \in DOMAIN sent /\ f.toggle = FALSE
      /\ f.tid \in TransferId
  BY ChosenProfile DEF IsFrame, FrameType
<1>2. HasState(f) /\ Synchronising(f)
  BY DEF HasState, Synchronising
<1>3. Current(f).iface = f.iface
  <2>1. CASE NeedRestart(Session, f, now)
    <3>1. Current(f) = Restarted(Session, f)
      BY <1>1, <1>2, <2>1, CurrentIs
    <3> QED
      BY <1>1, <3>1, SessionType, RestartedIs
  <2>2. CASE ~NeedRestart(Session, f, now)
    BY <1>1, <1>2, <2>2, CurrentIs
  <2> QED
    BY <2>1, <2>2
<1>4. Expected(f)
  BY <1>2, <1>3 DEF Expected
<1>5. Current(f).tid = f.tid /\ Current(f).toggle = FALSE /\ Current(f) \in StateType
  <2>1. CASE Current(f).tid = f.tid /\ Current(f).toggle = FALSE
    BY <1>1, <1>2, <2>1, CurrentIs
  <2>2. CASE Current(f) = rx /\ rx # NoState /\ ForwardDistance(Current(f).tid, f.tid) <= 1
    <3>1. rx.tid \in TransferId
      BY <2>2 DEF RxOK, StateType
    <3>2. ForwardDistance(rx.tid, f.tid) \in Nat
      BY <1>1, <3>1, ForwardDistanceType, TidModAssumption DEF TransferId
    <3>3. ForwardDistance(rx.tid, f.tid) = 0
      BY <2>2, <3>2
    <3>4. rx.tid = f.tid
      BY <1>1, <3>1, <3>3, DistanceSteps
    <3> QED
      BY <1>1, <1>2, <2>2, <3>3, <3>4, CurrentIs
  <2> QED
    BY <1>1, <1>4, <2>1, <2>2, StartFindsNoBlock
<1>6. SingleFrame(f) \/ StartTransfer(f)
  BY <1>1, <1>2, <1>3, <1>5 DEF HandleRxFrame, MissedStart, NoMemoryForState, RestartInTheMiddle,
     OtherIface, Rejected, ContinueTransfer, StorageExhausted, EndTransfer
<1>7. CASE SingleFrame(f)
  <2> DEFINE st == [Current(f) EXCEPT !.timestamp = now]
  <2>1. /\ st \in StateType /\ st.tid = f.tid
    BY <1>1, <1>5 DEF StateType
  <2>2. rx' = PreparedForNext(st)
    BY <1>7 DEF SingleFrame
  <2> HIDE DEF st
  <2>3. rx'.tid = NextTransferId(f.tid)
    BY <2>1, <2>2, PreparedIs
  <2> QED
    BY <1>1, <1>7, <2>3, SingleOutcome DEF Single
<1>8. CASE StartTransfer(f)
  <2>1. ~(f.sot /\ f.eot)
    BY <1>8 DEF StartTransfer, Accepted, OfMultiFrame
  <2> QED
    BY <1>1, <1>8, <2>1, StartOutcome
<1> QED
  BY <1>6, <1>7, <1>8

(* A later frame that does not come too late is looked at. *)
LEMMA LaterLookedAt ==
    ASSUME RxOK, NEW f \in FrameType, rx # NoState, ~f.sot, rx.iface = f.iface,
           ~TidTimedOut(rx, now)
    PROVE  Expected(f) /\ Current(f) = rx /\ Kept(f) = stored
           /\ ~RestartInTheMiddle(f) /\ ~MissedStart(f)
<1>1. Session = rx /\ ~NotInitialized(rx)
  BY SessionType DEF RxOK, NotInitialized
<1>2. ~NeedRestart(Session, f, now)
  BY <1>1 DEF NeedRestart
<1>3. HasState(f) /\ Synchronising(f)
  BY <1>2 DEF HasState, Synchronising
<1>4. Current(f) = rx /\ Kept(f) = stored
  BY <1>1, <1>2 DEF Current, Synchronised, Kept
<1> QED
  BY <1>2, <1>3, <1>4 DEF Expected, RestartInTheMiddle, MissedStart

(* A frame in the middle or at the end, in its turn. *)
LEMMA LaterTaken ==
    ASSUME Types, RxOK, MemoryShort = FALSE, NEW f, IsFrame(f), HandleRxFrame(f), ~f.sot,
           rx # NoState, rx.iface = f.iface, rx.tid = f.tid, rx.toggle = f.toggle,
           ~TidTimedOut(rx, now)
    PROVE  (~f.eot /\ Continued(f)) \/ (f.eot /\ Ended(f))
<1>1. f \in FrameType
  BY DEF IsFrame
<1>2. /\ Expected(f) /\ Current(f) = rx /\ Kept(f) = stored
      /\ ~RestartInTheMiddle(f) /\ ~MissedStart(f)
  BY <1>1, LaterLookedAt
<1>3. ContinueTransfer(f) \/ EndTransfer(f)
  BY <1>2 DEF HandleRxFrame, NoMemoryForState, OtherIface, Expected, SingleFrame, Rejected,
     StartTransfer, Accepted, StorageExhausted
<1> QED
  BY <1>1, <1>3, ContinueOutcome, EndOutcome DEF Continued, Ended

(* A frame in the middle or at the end, not in its turn. *)
LEMMA LaterRefused ==
    ASSUME Types, RxOK, NEW f, IsFrame(f), HandleRxFrame(f), ~f.sot,
           rx # NoState, rx.iface = f.iface, rx.toggle # f.toggle \/ rx.tid # f.tid,
           ~TidTimedOut(rx, now)
    PROVE  Ignored
<1>1. f \in FrameType
  BY DEF IsFrame
<1>2. /\ Expected(f) /\ Current(f) = rx /\ Kept(f) = stored
      /\ ~RestartInTheMiddle(f) /\ ~MissedStart(f)
  BY <1>1, LaterLookedAt
<1>3. CASE Rejected(f)
  BY <1>2, <1>3 DEF Rejected, Ignored
<1>4. CASE NoMemoryForState(f) \/ OtherIface(f)
  BY <1>4 DEF NoMemoryForState, OtherIface, Ignored
<1> QED
  BY <1>2, <1>3, <1>4 DEF HandleRxFrame, SingleFrame, StartTransfer, ContinueTransfer,
     StorageExhausted, EndTransfer, Accepted

-----------------------------------------------------------------------------
(* Transfer-IDs and losses *)

LEMMA TidOfType ==
    ASSUME Types, NEW n \in 1 .. Len(sent) + 1
    PROVE  /\ TidOf(n) \in TransferId
           /\ n \in DOMAIN sent => TidOf(n) = sent[n].tid
<1>1. Len(sent) \in Nat /\ DOMAIN sent = 1 .. Len(sent) /\ nextTid \in TransferId
  BY ChosenProfile DEF Types
<1>2. n \in DOMAIN sent => n # Len(sent) + 1 /\ sent[n].tid \in TransferId
  BY <1>1, PayloadType
<1>3. n \notin DOMAIN sent => n = Len(sent) + 1
  BY <1>1
<1> QED
  BY <1>1, <1>2, <1>3 DEF TidOf

LEMMA Successor ==
    ASSUME Types, Paced, NEW n \in DOMAIN sent
    PROVE  /\ n + 1 \in 1 .. Len(sent) + 1
           /\ TidOf(n + 1) = NextTransferId(sent[n].tid)
<1>1. /\ n \in 1 .. Len(sent) + 1 /\ n + 1 \in 1 .. Len(sent) + 1
      /\ n <= n + 1 /\ n + 1 - n = 1
  BY ChosenProfile
<1>2. ForwardDistance(TidOf(n + 1), TidOf(n)) = 1
  BY <1>1, TidModAssumption DEF Paced
<1>3. TidOf(n) = sent[n].tid /\ TidOf(n) \in TransferId /\ TidOf(n + 1) \in TransferId
  BY <1>1, TidOfType
<1> QED
  BY <1>1, <1>2, <1>3, DistanceSteps

(* As many transfers that are not whole as frames that were lost, at most. *)
LEMMA MissedAreCounted ==
    ASSUME Types, Counted, NEW i,
           NEW p \in Nat, NEW h \in Nat, p <= h, \A x \in p .. h - 1 : Missed(i, x)
    PROVE  h - p <= traffic.losses /\ traffic.losses \in Nat
<1> DEFINE f == [g \in gone |-> g[1]]
           T == {f[g] : g \in gone}
<1>1. f \in Surjection(gone, T)
  BY DEF Surjection
<1>2. IsFiniteSet(gone)
  BY DEF Counted
<1>3. IsFiniteSet(T) /\ Cardinality(T) <= Cardinality(gone)
  BY <1>1, <1>2, FS_Surjection
<1>4. p .. h - 1 \subseteq T
  <2>1. SUFFICES ASSUME NEW x \in p .. h - 1
                 PROVE  x \in T
    OBVIOUS
  <2>2. PICK k \in 1 .. sent[x].frames : <<x, k, i>> \in gone
    BY DEF Missed
  <2>3. f[<<x, k, i>>] = x
    BY <2>2
  <2> QED
    BY <2>2, <2>3
<1> HIDE DEF f, T
<1>5. Cardinality(p .. h - 1) = h - p
  <2>1. \A a, b \in Int : Cardinality(a .. b) = IF a > b THEN 0 ELSE b - a + 1
    BY FS_Interval
  <2>2. Cardinality(p .. h - 1) = IF p > h - 1 THEN 0 ELSE h - 1 - p + 1
    BY <2>1
  <2> QED
    BY <2>2
<1>6. Cardinality(p .. h - 1) <= Cardinality(T)
  BY <1>3, <1>4, FS_Subset
<1>7. Cardinality(T) \in Nat /\ Cardinality(gone) \in Nat
  BY <1>2, <1>3, FS_CardinalityType
<1>8. Cardinality(gone) <= traffic.losses /\ traffic.losses \in Nat
  <2>1. traffic.losses \in Nat
    BY RxAssumption DEF Types, Profile
  <2> QED
    BY <1>7, <2>1 DEF Counted
<1> QED
  BY <1>3, <1>5, <1>6, <1>7, <1>8

LEMMA FewMissed ==
    ASSUME Types, Counted, traffic.losses < TidMod - 1, NEW i,
           NEW p \in Nat, NEW h \in Nat, p <= h, \A x \in p .. h - 1 : Missed(i, x)
    PROVE  h - p < TidMod - 1
<1>1. h - p <= traffic.losses /\ traffic.losses \in Nat
  BY MissedAreCounted
<1> QED
  BY <1>1, TidModAssumption

(* A state that is behind by transfers that were not whole takes the transfer that       *)
(* comes for the one that it expects, or for none near it.                           *)
LEMMA NotMistaken ==
    ASSUME Types, Paced, Counted, traffic.losses < TidMod - 1, NEW i,
           NEW h \in DOMAIN sent, NEW p \in 1 .. h, \A x \in p .. h - 1 : Missed(i, x),
           rx.tid = TidOf(p)
    PROVE  /\ ForwardDistance(rx.tid, sent[h].tid) # 1
           /\ ForwardDistance(rx.tid, sent[h].tid) = 0 => p = h
<1>1. /\ h \in Nat /\ p \in Nat /\ p <= h /\ h \in 1 .. Len(sent) + 1 /\ p \in 1 .. Len(sent) + 1
  BY ChosenProfile
<1>2. h - p < TidMod - 1
  BY <1>1, FewMissed
<1>3. ForwardDistance(TidOf(h), TidOf(p)) = h - p
  <2>1. h - p < TidMod
    BY <1>1, <1>2, TidModAssumption
  <2> QED
    BY <1>1, <2>1 DEF Paced
<1>4. TidOf(h) = sent[h].tid /\ TidOf(h) \in TransferId /\ TidOf(p) \in TransferId
  BY <1>1, TidOfType
<1>5. CASE p = h
  <2>1. ForwardDistance(rx.tid, sent[h].tid) = 0
    BY <1>4, <1>5 DEF ForwardDistance, TransferId
  <2> QED
    BY <1>5, <2>1
<1>6. CASE p # h
  <2>1. h - p >= 1
    BY <1>1, <1>6
  <2>2. ForwardDistance(TidOf(p), TidOf(h)) = TidMod - (h - p)
    BY <1>3, <1>4, <2>1, RoundTheRing
  <2>3. TidMod - (h - p) > 1
    BY <1>1, <1>2, TidModAssumption
  <2> QED
    BY <1>1, <1>4, <2>2, <2>3, TidModAssumption
<1> QED
  BY <1>5, <1>6

-----------------------------------------------------------------------------
(* Positions *)

LEMMA PositionType ==
    ASSUME Types, NEW i, NEW h, NEW k, Position(i, h, k)
    PROVE  /\ h \in Nat /\ h >= 1 /\ k \in Nat /\ k >= 1 /\ Len(sent) \in Nat /\ h <= Len(sent) + 1
           /\ h \in DOMAIN sent <=> h <= Len(sent)
           /\ h \in DOMAIN sent => sent[h].frames \in Nat /\ k \in 1 .. sent[h].frames
<1>1. /\ h \in Nat /\ h >= 1 /\ k \in Nat /\ k >= 1 /\ Len(sent) \in Nat /\ h <= Len(sent) + 1
      /\ h \in DOMAIN sent <=> h <= Len(sent)
      /\ h \in DOMAIN sent => k <= sent[h].frames
  BY ChosenProfile DEF Position
<1>2. h \in DOMAIN sent => sent[h].frames \in Nat
  BY PayloadType
<1> QED
  BY <1>1, <1>2

LEMMA HeadAt ==
    ASSUME TypeInv, NEW i \in Ifaces, NEW h, NEW k, Position(i, h, k)
    PROVE  IF h \in DOMAIN sent
           THEN bus[i] # <<>> /\ Head(bus[i])[1] = h /\ Head(bus[i])[2] = k
           ELSE bus[i] = <<>>
<1>1. /\ h \in Nat /\ k \in Nat /\ Len(sent) \in Nat
      /\ h \in DOMAIN sent <=> h <= Len(sent)
      /\ h \in DOMAIN sent => sent[h].frames \in Nat /\ k \in 1 .. sent[h].frames
  BY PositionType DEF TypeInv
<1>2. ASSUME bus[i] # <<>>
      PROVE  LET d == Head(bus[i])
             IN  /\ d[1] \in DOMAIN sent /\ d[1] \in Nat /\ d[1] <= Len(sent) /\ d[2] \in Nat
                 /\ d[1] > h \/ (d[1] = h /\ d[2] >= k)
                 /\ \A e \in On(i) : e = d \/ Precedes(d, e)
  <2> DEFINE d == Head(bus[i])
  <2>1. d \in On(i) /\ \A e \in On(i) : e = d \/ Precedes(d, e)
    BY <1>2, HeadIs DEF TypeInv
  <2>2. d[1] \in DOMAIN sent /\ d[1] \in Nat /\ d[1] <= Len(sent) /\ d[2] \in 1 .. sent[d[1]].frames
        /\ d[2] \in Nat
    BY <2>1, OnType DEF TypeInv
  <2>3. d[1] > h \/ (d[1] = h /\ d[2] >= k)
    BY <2>1, <2>2 DEF Position
  <2> QED
    BY <2>1, <2>2, <2>3
<1>3. CASE h \in DOMAIN sent
  <2>1. PICK e \in On(i) : e[1] = h /\ e[2] = k
    <3>1. k >= k
      BY <1>1
    <3> QED
      BY <1>1, <1>3, <3>1 DEF Position
  <2>2. bus[i] # <<>>
    BY <2>1 DEF On
  <2>3. e = Head(bus[i]) \/ Precedes(Head(bus[i]), e)
    BY <1>2, <2>1, <2>2
  <2> QED
    BY <1>1, <1>2, <1>3, <2>1, <2>2, <2>3 DEF Precedes
<1>4. CASE h \notin DOMAIN sent
  <2>1. ~(bus[i] # <<>>)
    BY <1>1, <1>2, <1>4
  <2> QED
    BY <1>4, <2>1
<1> QED
  BY <1>3, <1>4

(* A frame leaves the bus: the next one is the one after it, or the first of the       *)
(* transfer after it.                                                         *)
LEMMA Moves ==
    ASSUME TypeInv, NEW i \in Ifaces, NEW h, NEW k, Position(i, h, k), bus[i] # <<>>,
           bus' = [bus EXCEPT ![i] = Tail(@)], UNCHANGED <<traffic, now, sent>>
    PROVE  /\ k < sent[h].frames => Position(i, h, k + 1)'
           /\ k = sent[h].frames => Position(i, h + 1, 1)'
<1>1. /\ h \in Nat /\ h >= 1 /\ k \in Nat /\ k >= 1 /\ Len(sent) \in Nat /\ DOMAIN sent = 1 .. Len(sent)
      /\ h <= Len(sent) /\ h \in DOMAIN sent
      /\ sent[h].frames \in Nat /\ k \in 1 .. sent[h].frames
      /\ Head(bus[i])[1] = h /\ Head(bus[i])[2] = k
  BY PositionType, HeadAt, ChosenProfile DEF TypeInv
<1>2. /\ On(i)' \subseteq On(i)
      /\ \A e \in On(i) : e = Head(bus[i]) \/ e \in On(i)'
      /\ \A e \in On(i)' : Precedes(Head(bus[i]), e)
  BY TailBus DEF TypeInv
<1>3. ASSUME NEW n \in DOMAIN sent, NEW q \in 1 .. sent[n].frames
      PROVE  (\E e \in On(i)' : e[1] = n /\ e[2] = q) <=> n > h \/ (n = h /\ q > k)
  <2>1. n \in Nat /\ q \in Nat
    BY <1>1
  <2>2. (\E e \in On(i) : e[1] = n /\ e[2] = q) <=> n > h \/ (n = h /\ q >= k)
    BY DEF Position
  <2>3. ASSUME NEW e \in On(i)', e[1] = n, e[2] = q
        PROVE  n > h \/ (n = h /\ q > k)
    BY <1>1, <1>2, <2>1, <2>3 DEF Precedes
  <2>4. ASSUME n > h \/ (n = h /\ q > k)
        PROVE  \E e \in On(i)' : e[1] = n /\ e[2] = q
    <3>1. n > h \/ (n = h /\ q >= k)
      BY <1>1, <2>1, <2>4
    <3>2. PICK e \in On(i) : e[1] = n /\ e[2] = q
      BY <2>2, <3>1
    <3>3. e # Head(bus[i])
      BY <1>1, <2>1, <2>4, <3>2
    <3> QED
      BY <1>2, <3>2, <3>3
  <2> QED
    BY <2>3, <2>4
<1>4. sent' = sent
  OBVIOUS
<1>5. CASE k < sent[h].frames
  <2>1. \A n \in DOMAIN sent : \A q \in 1 .. sent[n].frames :
           (\E e \in On(i)' : e[1] = n /\ e[2] = q) <=> n > h \/ (n = h /\ q >= k + 1)
    BY <1>1, <1>3
  <2>2. /\ h \in 1 .. Len(sent) + 1 /\ k + 1 \in Nat \ {0} /\ k + 1 <= sent[h].frames
        /\ h # Len(sent) + 1
    BY <1>1, <1>5
  <2>3. Position(i, h, k + 1)'
    BY <1>4, <2>1, <2>2 DEF Position
  <2> QED
    BY <1>1, <1>5, <2>3
<1>6. CASE k = sent[h].frames
  <2>1. ASSUME NEW n \in DOMAIN sent, NEW q \in 1 .. sent[n].frames
        PROVE  (\E e \in On(i)' : e[1] = n /\ e[2] = q) <=> n > h + 1 \/ (n = h + 1 /\ q >= 1)
    <3>1. n \in Nat /\ q \in Nat /\ q >= 1 /\ (n = h => ~(q > k))
      BY <1>1, <1>6
    <3>2. (\E e \in On(i)' : e[1] = n /\ e[2] = q) <=> n > h \/ (n = h /\ q > k)
      BY <1>3
    <3>3. (n > h \/ (n = h /\ q > k)) <=> (n > h + 1 \/ (n = h + 1 /\ q >= 1))
      BY <1>1, <3>1
    <3> QED
      BY <3>2, <3>3
  <2>2. /\ h + 1 \in 1 .. Len(sent) + 1 /\ 1 \in Nat \ {0}
        /\ h + 1 \in DOMAIN sent => 1 <= sent[h + 1].frames
    <3>1. h + 1 \in DOMAIN sent => 1 <= sent[h + 1].frames
      BY PayloadType DEF TypeInv
    <3> QED
      BY <1>1, <3>1
  <2>3. Position(i, h + 1, 1)'
    BY <1>4, <2>1, <2>2 DEF Position
  <2> QED
    BY <1>1, <1>6, <2>3
<1> QED
  BY <1>1, <1>5, <1>6

LEMMA MovesOn ==
    ASSUME TypeInv, NEW i \in Ifaces, NEW h, NEW k, Position(i, h, k), bus[i] # <<>>,
           bus' = [bus EXCEPT ![i] = Tail(@)], UNCHANGED <<traffic, now, sent>>
    PROVE  /\ \A c : c = k + 1 /\ k < sent[h].frames => Position(i, h, c)'
           /\ \A g : g = h + 1 /\ k = sent[h].frames => Position(i, g, 1)'
<1>1. ASSUME NEW c, c = k + 1, k < sent[h].frames
      PROVE  Position(i, h, c)'
  <2>1. Position(i, h, k + 1)'
    BY <1>1, Moves
  <2> QED
    BY <1>1, <2>1 DEF Position
<1>2. ASSUME NEW g, g = h + 1, k = sent[h].frames
      PROVE  Position(i, g, 1)'
  <2>1. Position(i, h + 1, 1)'
    BY <1>2, Moves
  <2> QED
    BY <1>2, <2>1 DEF Position
<1> QED
  BY <1>1, <1>2

(* A transfer is published: what is next stays the same. *)
LEMMA PublishPosition ==
    ASSUME TypeInv, NEW i \in Ifaces, NEW h, NEW k, Position(i, h, k),
           NEW frames \in traffic.frames, NEW zero \in ZeroKinds, Publish(frames, zero)
    PROVE  Position(i, h, k)'
<1> DEFINE L == Len(sent)
<1>1. /\ h \in Nat /\ h >= 1 /\ k \in Nat /\ k >= 1 /\ L \in Nat /\ h <= L + 1
      /\ h \in DOMAIN sent <=> h <= L
      /\ h = L + 1 => k = 1
      /\ h \in DOMAIN sent => k <= sent[h].frames
      /\ DOMAIN sent = 1 .. L /\ frames \in Nat \ {0}
  BY PositionType, ChosenProfile DEF Position, TypeInv
<1>2. /\ Len(sent') = L + 1 /\ DOMAIN sent' = 1 .. L + 1
      /\ \A n \in DOMAIN sent : n \in DOMAIN sent' /\ sent'[n] = sent[n]
      /\ sent'[L + 1].frames = frames
      /\ On(i) \subseteq On(i)'
      /\ \A e \in On(i)' \ On(i) : e[1] = L + 1
      /\ \A q \in 1 .. frames : \E e \in On(i)' : e[1] = L + 1 /\ e[2] = q
  <2>1. (sent \in Seq(Published))'
    BY PublishBus DEF TypeInv, Types
  <2>2. sent' \in Seq(Published')
    BY <2>1
  <2>3. Len(sent') = L + 1 /\ DOMAIN sent' = 1 .. L + 1
    <3>1. Len(sent') = L + 1
      BY PublishBus DEF TypeInv
    <3>2. DOMAIN sent' = 1 .. Len(sent')
      BY <2>2
    <3> QED
      BY <3>1, <3>2
  <2>4. sent'[L + 1] = [frames |-> frames, zero |-> zero, tid |-> nextTid]
    BY PublishBus DEF TypeInv
  <2>5. sent'[L + 1].frames = frames
    BY <2>4
  <2> QED
    BY <2>3, <2>5, PublishBus DEF TypeInv
<1>3. \A e \in On(i) : e[1] <= L
  BY OnType DEF TypeInv
<1> HIDE DEF L
<1>4. ASSUME NEW n \in DOMAIN sent', NEW q \in 1 .. sent'[n].frames
      PROVE  (\E e \in On(i)' : e[1] = n /\ e[2] = q) <=> n > h \/ (n = h /\ q >= k)
  <2>1. CASE n \in DOMAIN sent
    <3>1. sent'[n] = sent[n] /\ n # L + 1
      BY <1>1, <1>2, <2>1
    <3>2. (\E e \in On(i) : e[1] = n /\ e[2] = q) <=> n > h \/ (n = h /\ q >= k)
      BY <1>4, <2>1, <3>1 DEF Position
    <3> QED
      BY <1>2, <3>1, <3>2
  <2>2. CASE n \notin DOMAIN sent
    <3>1. n = L + 1 /\ q \in 1 .. frames
      BY <1>1, <1>2, <1>4, <2>2
    <3>2. \E e \in On(i)' : e[1] = n /\ e[2] = q
      BY <1>2, <3>1
    <3>3. n > h \/ (n = h /\ q >= k)
      BY <1>1, <3>1
    <3> QED
      BY <3>2, <3>3
  <2> QED
    BY <2>1, <2>2
<1>5. /\ h \in 1 .. Len(sent') + 1 /\ k \in Nat \ {0} /\ h # Len(sent') + 1
      /\ h \in DOMAIN sent' => k <= sent'[h].frames
  BY <1>1, <1>2
<1> QED
  BY <1>4, <1>5 DEF Position

(* Nothing moves. *)
LEMMA PositionKept ==
    ASSUME NEW i, NEW h, NEW k, Position(i, h, k), UNCHANGED sent, On(i)' = On(i)
    PROVE  Position(i, h, k)'
BY DEF Position

-----------------------------------------------------------------------------
(* A frame is handled *)

Hearing(i) ==
    /\ bus[i] # <<>>
    /\ HandleRxFrame(Frame(i))
    /\ UNCHANGED <<traffic, now, nextTid, sent, gone>>
    /\ On(i)' \subseteq On(i)

LEMMA SparseFacts ==
    ASSUME Types, Sparse, NEW i \in Ifaces, Ifaces = {i}
    PROVE  /\ traffic.losses < TidMod - 1
           /\ traffic.delay <= TransferTimeout
BY DEF Sparse, Types, Ifaces

LEMMA FrameAt ==
    ASSUME TypeInv, NEW i \in Ifaces, NEW h, NEW k, Position(i, h, k), bus[i] # <<>>
    PROVE  /\ IsFrame(Frame(i))
           /\ h \in DOMAIN sent /\ h \in Nat /\ h >= 1
           /\ k \in Nat /\ k >= 1 /\ k <= sent[h].frames /\ sent[h].frames \in Nat
           /\ Frame(i).n = h /\ Frame(i).chunk = Chunk(h, k) /\ Frame(i).iface = i
           /\ Frame(i).tid = sent[h].tid /\ sent[h].tid \in TransferId
           /\ Frame(i).sot <=> k = 1
           /\ Frame(i).eot <=> k = sent[h].frames
           /\ Frame(i).toggle <=> k % 2 = 0
<1>1. /\ h \in DOMAIN sent /\ Head(bus[i])[1] = h /\ Head(bus[i])[2] = k
      /\ h \in Nat /\ h >= 1 /\ k \in Nat /\ k >= 1 /\ k <= sent[h].frames
      /\ sent[h].frames \in Nat /\ sent[h].tid \in TransferId
  BY HeadAt, PositionType, PayloadType DEF TypeInv
<1>2. /\ IsFrame(Frame(i))
      /\ Frame(i).n = h /\ Frame(i).chunk = Chunk(h, k) /\ Frame(i).iface = i
      /\ Frame(i).tid = sent[h].tid
      /\ Frame(i).sot <=> k = 1
      /\ Frame(i).eot <=> k = sent[h].frames
  BY <1>1, FrameIs DEF TypeInv
<1>3. Frame(i).toggle <=> k % 2 = 0
  BY <1>1 DEF Frame
<1> QED
  BY <1>1, <1>2, <1>3

(* A register that is not zero takes every payload. *)
LEMMA SeededGrows ==
    ASSUME NEW s \in Seq(Word), NEW c \in Word
    PROVE  CrcAdd(Seeded \o s, c) = Seeded \o Append(s, c)
<1> DEFINE r == Seeded \o s
<1>1. r \in Seq(Word) /\ Len(r) = 1 + Len(s) /\ Len(s) \in Nat
  BY SeededType, ConcatProperties
<1>2. r # <<>>
  BY <1>1
<1>3. CrcAdd(r, c) = Append(r, c)
  BY <1>2 DEF CrcAdd
<1>4. Append(Seeded \o s, c) = Seeded \o Append(s, c)
  <2> DEFINE z == Seeded
  <2>1. z \in Seq(Word)
    BY SeededType
  <2> HIDE DEF z
  <2>2. Append(z \o s, c) = z \o Append(s, c)
    BY <2>1
  <2> QED
    BY <2>2
<1> QED
  BY <1>3, <1>4

LEMMA InSyncKept ==
    ASSUME NEW i, NEW n, NEW c, InSync(i, n, c), UNCHANGED <<sent, rx, stored>>,
           On(i)' \subseteq On(i)
    PROVE  InSync(i, n, c)'
<1>1. (TransferCrc(n)' = TransferCrc(n)) /\ \A q : Chunk(n, q)' = Chunk(n, q)
  BY DEF TransferCrc, Payload, Chunk
<1> QED
  BY <1>1 DEF InSync

LEMMA BeginsInSync ==
    ASSUME TypeInv, NEW i \in Ifaces, NEW h, Position(i, h, 1), Hearing(i), Begun(Frame(i))
    PROVE  InSync(i, h, 1)' /\ 1 < sent[h].frames
<1> DEFINE f == Frame(i)
<1>1. /\ h \in DOMAIN sent /\ 1 <= sent[h].frames /\ sent[h].frames \in Nat
      /\ f.n = h /\ f.chunk = Chunk(h, 1) /\ f.tid = sent[h].tid /\ f.iface = i
      /\ f.eot <=> 1 = sent[h].frames
  BY FrameAt DEF Hearing
<1>2. Chunk(h, 1) \in Word /\ TransferCrc(h) \in Seq(Word) /\ now \in Nat
  BY <1>1, PayloadType, ChosenProfile DEF TypeInv
<1> HIDE DEF f
<1>3. CrcAdd(Seeded, f.chunk) = Seeded \o <<f.chunk>>
  <2>1. Seeded # <<>>
    BY DEF Seeded
  <2>2. f.chunk \in Word
    <3>1. f.chunk = Chunk(h, 1)
      BY <1>1
    <3> QED
      BY <1>2, <3>1
  <2>3. CrcAdd(Seeded, f.chunk) = Append(Seeded, f.chunk)
    BY <2>1 DEF CrcAdd
  <2>4. \A z \in Seq(Word), c \in Word : Append(z, c) = z \o <<c>>
    OBVIOUS
  <2> QED
    BY <2>2, <2>3, <2>4, SeededType
<1>4. /\ ~f.eot
      /\ rx' = [timestamp |-> now, tid |-> f.tid, toggle |-> TRUE, iface |-> f.iface,
                len |-> StartBytes, wrapped |-> FALSE, blocks |-> {}, crc |-> CrcAdd(Seeded, f.chunk),
                expected |-> TransferCrc(f.n)]
      /\ stored' = <<f.chunk>>
  BY DEF Begun, f
<1>5. 1 < sent[h].frames /\ 1 \in 1 .. sent[h].frames - 1
  BY <1>1, <1>4
<1>6. rx' # NoState /\ sent' = sent
  BY <1>4 DEF NoState, Hearing
<1>7. TransferCrc(h)' = TransferCrc(h) /\ \A q : Chunk(h, q)' = Chunk(h, q)
  BY <1>6 DEF TransferCrc, Payload, Chunk
<1>8. stored' = [q \in 1 .. 1 |-> Chunk(h, q)]
  BY <1>1, <1>4
<1>9. \A e \in On(i)' : e[3] <= rx'.timestamp
  <2>1. SUFFICES ASSUME NEW e \in On(i)'
                 PROVE  e[3] <= now
    BY <1>4
  <2>2. e \in On(i)
    BY DEF Hearing
  <2>3. e[3] \in 1 .. now
    BY <2>2, OnType DEF TypeInv
  <2> QED
    BY <1>2, <2>3
<1>10. rx'.toggle = (1 % 2 = 1)
  <2>1. 1 % 2 = 1
    BY SMT
  <2> QED
    BY <1>4, <2>1
<1>11. /\ rx'.tid = sent[h].tid /\ rx'.expected = TransferCrc(h)
       /\ rx'.crc = Seeded \o stored'
  BY <1>1, <1>3, <1>4
<1>12. InSync(i, h, 1)'
  BY <1>1, <1>5, <1>6, <1>7, <1>8, <1>9, <1>10, <1>11 DEF InSync
<1> QED
  BY <1>5, <1>12

LEMMA InSyncFacts ==
    ASSUME TypeInv, NEW i \in Ifaces, NEW h, NEW k, NEW c, Position(i, h, k), Hearing(i),
           InSync(i, h, c)
    PROVE  /\ rx # NoState /\ rx.tid = Frame(i).tid
           /\ c \in 1 .. sent[h].frames - 1 /\ c \in Nat
           /\ stored \in Seq(Word) /\ Len(stored) = c
           /\ \A q \in 1 .. c : stored[q] = Chunk(h, q)
           /\ Frame(i).chunk \in Word
           /\ CrcAdd(rx.crc, Frame(i).chunk) = Seeded \o Append(stored, Frame(i).chunk)
<1>1. /\ h \in DOMAIN sent /\ sent[h].frames \in Nat /\ Frame(i).tid = sent[h].tid
      /\ IsFrame(Frame(i))
  BY FrameAt DEF Hearing
<1>2. Frame(i).chunk \in Word
  BY <1>1 DEF IsFrame, FrameType
<1>3. stored \in Seq(Word)
  BY DEF TypeInv, Types
<1>4. /\ rx # NoState /\ rx.tid = sent[h].tid /\ c \in 1 .. sent[h].frames - 1
      /\ rx.crc = Seeded \o stored /\ stored = [q \in 1 .. c |-> Chunk(h, q)]
  BY DEF InSync
<1>5. c \in Nat
  BY <1>1, <1>4
<1>6. Len(stored) = c /\ \A q \in 1 .. c : stored[q] = Chunk(h, q)
  BY <1>3, <1>4, <1>5
<1>7. CrcAdd(rx.crc, Frame(i).chunk) = Seeded \o Append(stored, Frame(i).chunk)
  BY <1>2, <1>3, <1>4, SeededGrows
<1> QED
  BY <1>1, <1>2, <1>3, <1>4, <1>5, <1>6, <1>7

LEMMA ContinuesInSync ==
    ASSUME TypeInv, NEW i \in Ifaces, NEW h, NEW k, Position(i, h, k), Hearing(i),
           InSync(i, h, k - 1), Continued(Frame(i))
    PROVE  InSync(i, h, k)' /\ k < sent[h].frames
<1> DEFINE f == Frame(i)
<1>1. /\ h \in DOMAIN sent /\ k \in Nat /\ k >= 1 /\ k <= sent[h].frames /\ sent[h].frames \in Nat
      /\ f.chunk = Chunk(h, k) /\ f.tid = sent[h].tid
      /\ f.eot <=> k = sent[h].frames
  BY FrameAt DEF Hearing
<1>2. /\ rx # NoState /\ rx.tid = f.tid /\ k - 1 \in 1 .. sent[h].frames - 1
      /\ stored \in Seq(Word) /\ Len(stored) = k - 1
      /\ \A q \in 1 .. k - 1 : stored[q] = Chunk(h, q)
      /\ f.chunk \in Word
      /\ CrcAdd(rx.crc, f.chunk) = Seeded \o Append(stored, f.chunk)
  BY InSyncFacts
<1>3. /\ rx.toggle = ((k - 1) % 2 = 1) /\ rx.expected = TransferCrc(h)
      /\ \A e \in On(i) : e[1] = h => e[3] <= rx.timestamp
  BY DEF InSync
<1> HIDE DEF f
<1>4. /\ ~f.eot
      /\ rx' = [timestamp |-> rx.timestamp, tid |-> rx.tid, toggle |-> ~rx.toggle,
                iface |-> rx.iface, len |-> Lengthened(rx.len, FrameBytes),
                wrapped |-> WrappedNow, blocks |-> 1 .. ChainNow,
                crc |-> CrcAdd(rx.crc, f.chunk), expected |-> rx.expected]
      /\ stored' = Append(stored, f.chunk)
  BY DEF Continued, f
<1>5. k < sent[h].frames /\ k \in 1 .. sent[h].frames - 1
  BY <1>1, <1>4
<1>6. rx' # NoState /\ sent' = sent /\ On(i)' \subseteq On(i)
  BY <1>4 DEF NoState, Hearing
<1>7. TransferCrc(h)' = TransferCrc(h) /\ \A q : Chunk(h, q)' = Chunk(h, q)
  BY <1>6 DEF TransferCrc, Payload, Chunk
<1>8. stored' = [q \in 1 .. k |-> Chunk(h, q)]
  <2>1. /\ stored' \in Seq(Word) /\ Len(stored') = k
        /\ \A q \in 1 .. k : stored'[q] = IF q = k THEN f.chunk ELSE stored[q]
    BY <1>1, <1>2, <1>4
  <2>2. \A q \in 1 .. k : stored'[q] = Chunk(h, q)
    BY <1>1, <1>2, <2>1
  <2>3. stored' = [q \in 1 .. k |-> stored'[q]]
    BY <2>1
  <2> QED
    BY <2>2, <2>3
<1>9. rx'.toggle = (k % 2 = 1)
  <2>1. ((k - 1) % 2 = 1) <=> ~(k % 2 = 1)
    BY <1>1
  <2>2. rx'.toggle = ~rx.toggle
    BY <1>4
  <2> QED
    BY <1>3, <2>1, <2>2
<1>10. /\ rx'.tid = sent[h].tid /\ rx'.expected = TransferCrc(h)
       /\ rx'.crc = Seeded \o stored' /\ rx'.timestamp = rx.timestamp
  BY <1>1, <1>2, <1>3, <1>4
<1>11. \A e \in On(i)' : e[1] = h => e[3] <= rx'.timestamp
  BY <1>3, <1>6, <1>10
<1>12. InSync(i, h, k)'
  BY <1>1, <1>5, <1>6, <1>7, <1>8, <1>9, <1>10, <1>11 DEF InSync
<1> QED
  BY <1>5, <1>12

(* The transfer that was just handed over is among the delivered. *)
LEMMA DeliveredAfter ==
    ASSUME Types, NEW r, delivered' = Append(delivered, r), NEW n, r.n = n
    PROVE  Delivered(n)'
<1>1. delivered \in Seq(Delivery)
  BY DEF Types
<1>2. /\ Len(delivered) + 1 \in DOMAIN delivered'
      /\ delivered'[Len(delivered) + 1] = r
  BY <1>1
<1> QED
  BY <1>2 DEF Delivered

LEMMA DeliveredKept ==
    ASSUME TypeInv, NEW i, Outcome(Frame(i)), NEW n, Delivered(n)
    PROVE  Delivered(n)'
<1>1. delivered \in Seq(Delivery)
  BY DEF TypeInv, Types
<1>2. delivered' = delivered \/ \E r : delivered' = Append(delivered, r)
  BY DEF Outcome, Ignored, Skipped, Single, Begun, Continued, GivenUp, Ended
<1>3. PICK j \in DOMAIN delivered : delivered[j].n = n
  BY DEF Delivered
<1>4. j \in DOMAIN delivered' /\ delivered'[j] = delivered[j]
  BY <1>1, <1>2, <1>3
<1> QED
  BY <1>3, <1>4 DEF Delivered

(* The state goes on to the next transfer. *)
LEMMA GoesOn ==
    ASSUME TypeInv, Paced, NEW i \in Ifaces, NEW h, NEW k, Position(i, h, k), Hearing(i),
           rx'.tid = NextTransferId(Frame(i).tid)
    PROVE  RightTid(h + 1)'
<1>1. h \in DOMAIN sent /\ Frame(i).tid = sent[h].tid
  BY FrameAt DEF Hearing
<1>2. h + 1 \in 1 .. Len(sent) + 1 /\ TidOf(h + 1) = NextTransferId(sent[h].tid)
  BY <1>1, Successor DEF TypeInv
<1>3. TidOf(h + 1)' = TidOf(h + 1) /\ Len(sent') = Len(sent)
  BY DEF TidOf, Hearing
<1>4. h + 1 <= Len(sent) + 1
  BY <1>1, <1>2, ChosenProfile DEF TypeInv
<1> QED
  BY <1>1, <1>2, <1>3, <1>4 DEF RightTid

LEMMA EndsWhole ==
    ASSUME TypeInv, Paced, NEW i \in Ifaces, NEW h, NEW k, Position(i, h, k), Hearing(i),
           InSync(i, h, k - 1), Ended(Frame(i))
    PROVE  k = sent[h].frames /\ Delivered(h)' /\ PastOf(h)'
<1> DEFINE f == Frame(i)
<1>1. /\ h \in DOMAIN sent /\ k \in Nat /\ k >= 1 /\ k <= sent[h].frames /\ sent[h].frames \in Nat
      /\ f.n = h /\ f.chunk = Chunk(h, k) /\ f.tid = sent[h].tid
      /\ f.eot <=> k = sent[h].frames
  BY FrameAt DEF Hearing
<1>2. /\ stored \in Seq(Word) /\ Len(stored) = k - 1
      /\ \A q \in 1 .. k - 1 : stored[q] = Chunk(h, q)
      /\ f.chunk \in Word
      /\ CrcAdd(rx.crc, f.chunk) = Seeded \o Append(stored, f.chunk)
  BY InSyncFacts
<1>3. k = sent[h].frames
  BY <1>1 DEF Ended
<1>4. /\ Payload(h) \in Seq(Word) /\ Len(Payload(h)) = k
      /\ \A q \in 1 .. k : Payload(h)[q] = Chunk(h, q)
  BY <1>1, <1>3, PayloadType DEF TypeInv
<1> HIDE DEF f
<1>5. Append(stored, f.chunk) = Payload(h)
  <2> DEFINE s == Append(stored, f.chunk)
  <2>1. /\ s \in Seq(Word) /\ Len(s) = k
        /\ \A q \in 1 .. k : s[q] = IF q = k THEN f.chunk ELSE stored[q]
    BY <1>1, <1>2
  <2> HIDE DEF s
  <2>2. ASSUME NEW q \in 1 .. k
        PROVE  s[q] = Payload(h)[q]
    <3>1. s[q] = Chunk(h, q)
      <4>1. CASE q = k
        BY <1>1, <2>1, <4>1
      <4>2. CASE q # k
        <5>1. q \in 1 .. k - 1
          BY <1>1, <4>2
        <5> QED
          BY <1>2, <2>1, <4>2, <5>1
      <4> QED
        BY <4>1, <4>2
    <3> QED
      BY <1>4, <3>1
  <2>3. s = Payload(h)
    BY <1>4, <2>1, <2>2, SeqEqual
  <2> QED
    BY <2>3 DEF s
<1>6. CrcAdd(rx.crc, f.chunk) = rx.expected
  BY <1>2, <1>5 DEF InSync, TransferCrc
<1>7. delivered' = Append(delivered, Transfer(f, HandedNow(f), rx.timestamp))
  BY <1>6 DEF Ended, f
<1>8. Delivered(h)'
  <2>1. Transfer(f, HandedNow(f), rx.timestamp).n = h
    BY <1>1 DEF Transfer
  <2> QED
    BY <1>7, <2>1, DeliveredAfter DEF TypeInv
<1>9. rx'.tid = NextTransferId(f.tid) /\ rx'.toggle = FALSE
  BY DEF Ended, f
<1>10. PastOf(h)'
  BY <1>9, GoesOn DEF PastOf, f
<1> QED
  BY <1>3, <1>8, <1>10

LEMMA NotStale ==
    ASSUME TypeInv, NEW i \in Ifaces, NEW h, NEW k, NEW c, Position(i, h, k), bus[i] # <<>>,
           InSync(i, h, c), Young(i), traffic.delay <= TransferTimeout
    PROVE  ~TidTimedOut(rx, now)
<1> DEFINE d == Head(bus[i])
<1>1. d[1] = h /\ d \in On(i)
  BY HeadAt, HeadIs DEF TypeInv
<1>2. d[3] <= rx.timestamp /\ now - d[3] <= traffic.delay
  BY <1>1 DEF InSync, Young
<1>3. /\ d[3] \in Nat /\ now \in Nat /\ traffic.delay \in Nat
      /\ rx.timestamp \in Nat /\ rx.timestamp <= now
  <2>1. now \in Nat /\ traffic.delay \in Nat
    BY ChosenProfile DEF TypeInv
  <2>2. d[3] \in 1 .. now /\ rx.timestamp \in 1 .. now
    BY <1>1, OnType DEF TypeInv, RxOK, InSync
  <2> QED
    BY <2>1, <2>2
<1> HIDE DEF d
<1> QED
  BY <1>2, <1>3, SessionAssumption DEF TidTimedOut, OlderThan

(* What is assumed of the one interface that there is. *)
Only(i) == i \in Ifaces /\ Ifaces = {i} /\ TypeInv /\ Paced /\ Counted /\ Young(i) /\ Sparse

LEMMA HearsFrame ==
    ASSUME NEW i, Only(i), NEW h, NEW k, Position(i, h, k), Hearing(i)
    PROVE  Outcome(Frame(i)) /\ (rx # NoState => rx.iface = Frame(i).iface)
<1>1. IsFrame(Frame(i)) /\ Frame(i).iface = i
  BY FrameAt DEF Only, Hearing
<1>2. rx # NoState => rx.iface \in Ifaces
  BY DEF Only, TypeInv, RxOK
<1> QED
  BY <1>1, <1>2, Handled DEF Only, TypeInv, Hearing

(* The first frame of a transfer is taken, unless the state has taken it already. *)
LEMMA TakesStart ==
    ASSUME NEW i, Only(i), NEW h, At(i, h, 1), Hearing(i), ~InSync(i, h, 1)
    PROVE  \/ Begun(Frame(i))
           \/ Single(Frame(i)) /\ rx'.tid = NextTransferId(Frame(i).tid)
<1> DEFINE f == Frame(i)
<1>1. /\ IsFrame(f) /\ h \in DOMAIN sent /\ h \in Nat /\ h >= 1 /\ f.tid = sent[h].tid /\ f.sot
  BY FrameAt DEF Only, At, Hearing
<1>2. rx # NoState => rx.iface = f.iface
  BY HearsFrame DEF At
<1>3. traffic.losses < TidMod - 1
  BY SparseFacts DEF Only, TypeInv
<1>4. ASSUME rx # NoState
      PROVE  /\ ForwardDistance(rx.tid, f.tid) # 1
             /\ ForwardDistance(rx.tid, f.tid) = 0 => rx.toggle = FALSE
  <2>1. PICK p \in 1 .. h + 1 :
           /\ RightTid(p)
           /\ \A x \in p .. h - 1 : Missed(i, x)
           /\ p = h + 1 => 1 > 1 /\ ~rx.toggle
           /\ p = h => ~rx.toggle \/ InSync(i, h, 1)
    BY <1>4 DEF At, Behind
  <2>2. p \in 1 .. h
    BY <1>1, <2>1
  <2>3. /\ ForwardDistance(rx.tid, f.tid) # 1
        /\ ForwardDistance(rx.tid, f.tid) = 0 => p = h
    BY <1>1, <1>3, <2>1, <2>2, NotMistaken DEF Only, TypeInv, RightTid
  <2>4. rx.toggle \in BOOLEAN
    BY <1>4 DEF Only, TypeInv, RxOK, StateType
  <2> QED
    BY <2>1, <2>3, <2>4
<1> HIDE DEF f
<1>5. \/ ~f.eot /\ Begun(f)
      \/ f.eot /\ Single(f) /\ rx'.tid = NextTransferId(f.tid)
  BY <1>1, <1>2, <1>4, StartTaken DEF Only, TypeInv, Sparse, Hearing, f
<1> QED
  BY <1>5 DEF f

(* A frame of a transfer that nothing is missing of does its work: the state has taken     *)
(* it, or the transfer has been handed over.                                      *)
LEMMA TakesWhole ==
    ASSUME NEW i, Only(i), NEW h, NEW k, At(i, h, k), Hearing(i), ~Missed(i, h)
    PROVE  \/ k < sent[h].frames /\ InSync(i, h, k)'
           \/ k = sent[h].frames /\ Delivered(h)' /\ PastOf(h)'
<1> DEFINE f == Frame(i)
<1>1. /\ IsFrame(f) /\ h \in DOMAIN sent /\ h \in Nat
      /\ k \in Nat /\ k >= 1 /\ k <= sent[h].frames /\ sent[h].frames \in Nat
      /\ f.n = h /\ f.tid = sent[h].tid /\ f.tid \in TransferId
      /\ f.sot <=> k = 1
      /\ f.eot <=> k = sent[h].frames
      /\ f.toggle <=> k % 2 = 0
  BY FrameAt DEF Only, At, Hearing
<1>2. Outcome(f) /\ (rx # NoState => rx.iface = f.iface)
  BY HearsFrame DEF At
<1>3. /\ \A c : InSync(i, h, c) => ~TidTimedOut(rx, now)
      /\ \A c : InSync(i, h, c) =>
            rx # NoState /\ rx.tid = f.tid /\ c \in 1 .. sent[h].frames - 1 /\ c \in Nat
  BY SparseFacts, NotStale, InSyncFacts DEF Only, TypeInv, At, Hearing
<1>4. f.toggle \in BOOLEAN /\ (rx # NoState => rx.toggle \in BOOLEAN)
  BY <1>1 DEF IsFrame, FrameType, Only, TypeInv, RxOK, StateType
<1> HIDE DEF f
<1>5. CASE k > 1 /\ InSync(i, h, k - 1)
  <2>1. ~f.sot /\ rx # NoState /\ rx.tid = f.tid /\ ~TidTimedOut(rx, now)
    BY <1>1, <1>3, <1>5
  <2>2. rx.toggle = f.toggle
    <3>1. ((k - 1) % 2 = 1) <=> (k % 2 = 0)
      BY <1>1
    <3>2. rx.toggle = ((k - 1) % 2 = 1)
      BY <1>5 DEF InSync
    <3> QED
      BY <1>1, <1>4, <2>1, <3>1, <3>2
  <2>3. (~f.eot /\ Continued(f)) \/ (f.eot /\ Ended(f))
    BY <1>1, <1>2, <2>1, <2>2, LaterTaken DEF Only, TypeInv, Sparse, Hearing, f
  <2>4. CASE Continued(f)
    BY <1>5, <2>4, ContinuesInSync DEF f, At, Only
  <2>5. CASE Ended(f)
    BY <1>5, <2>5, EndsWhole DEF f, At, Only
  <2> QED
    BY <2>3, <2>4, <2>5
<1>6. CASE k > 1 /\ InSync(i, h, k)
  <2>1. ~f.sot /\ rx # NoState /\ ~TidTimedOut(rx, now) /\ k < sent[h].frames
    BY <1>1, <1>3, <1>6
  <2>2. rx.toggle # f.toggle
    <3>1. (k % 2 = 1) <=> ~(k % 2 = 0)
      BY <1>1
    <3>2. rx.toggle = (k % 2 = 1)
      BY <1>6 DEF InSync
    <3> QED
      BY <1>1, <1>4, <2>1, <3>1, <3>2
  <2>3. Ignored
    BY <1>1, <1>2, <2>1, <2>2, LaterRefused DEF Only, TypeInv, Hearing, f
  <2>4. InSync(i, h, k)'
    BY <1>6, <2>3, InSyncKept DEF Ignored, Hearing
  <2> QED
    BY <2>1, <2>4
<1>7. CASE k > 1 /\ Delivered(h) /\ k = sent[h].frames /\ PastOf(h)
  <2>1. ~f.sot
    BY <1>1, <1>7
  <2>2. ~Wanted(f)
    <3>1. SUFFICES ASSUME rx # NoState, rx.tid = f.tid PROVE FALSE
      BY DEF Wanted
    <3>2. rx.tid = NextTransferId(sent[h].tid)
      BY <1>1, <1>7, <3>1, Successor DEF PastOf, RightTid, Only, TypeInv
    <3>3. ForwardDistance(NextTransferId(f.tid), f.tid) = 1
      BY <1>1, NextIsOneAhead
    <3>4. ForwardDistance(f.tid, f.tid) = 0
      BY <1>1 DEF ForwardDistance, TransferId
    <3> QED
      BY <1>1, <3>1, <3>2, <3>3, <3>4
  <2>3. Ignored \/ Skipped(f)
    BY <1>2, <2>1, <2>2 DEF Outcome, Single, Begun, Continued, GivenUp, Ended
  <2>4. Delivered(h)'
    BY <1>2, <1>7, DeliveredKept DEF f, Only
  <2>5. PastOf(h)'
    <3>1. CASE Ignored
      BY <1>7, <3>1 DEF PastOf, RightTid, TidOf, Ignored, Hearing
    <3>2. CASE Skipped(f)
      <4>1. rx'.tid = NextTransferId(f.tid) /\ rx'.toggle = FALSE
        BY <3>2 DEF Skipped
      <4>2. RightTid(h + 1)'
        BY <4>1, GoesOn DEF f, At, Only
      <4> QED
        BY <4>1, <4>2 DEF PastOf
    <3> QED
      BY <2>3, <3>1, <3>2
  <2> QED
    BY <1>7, <2>4, <2>5
<1>8. CASE k = 1 /\ InSync(i, h, 1)
  <2>1. 1 < sent[h].frames
    BY <1>1, <1>3, <1>8
  <2>2. f.sot /\ ~f.eot
    BY <1>1, <1>8, <2>1
  <2>3. Ignored \/ Begun(f)
    BY <1>2, <2>2 DEF Outcome, Skipped, Single, Continued, GivenUp, Ended, Wanted
  <2>4. CASE Ignored
    BY <1>8, <2>1, <2>4, InSyncKept DEF Ignored, Hearing
  <2>5. CASE Begun(f)
    BY <1>8, <2>5, BeginsInSync DEF f, At, Only
  <2> QED
    BY <2>3, <2>4, <2>5
<1>9. CASE k = 1 /\ ~InSync(i, h, 1)
  <2>1. Begun(f) \/ (Single(f) /\ rx'.tid = NextTransferId(f.tid))
    BY <1>9, TakesStart DEF f
  <2>2. CASE Begun(f)
    BY <1>9, <2>2, BeginsInSync DEF f, At, Only
  <2>3. CASE Single(f) /\ rx'.tid = NextTransferId(f.tid)
    <3>1. k = sent[h].frames /\ rx'.toggle = FALSE
      BY <1>1, <2>3 DEF Single
    <3>2. RightTid(h + 1)'
      BY <2>3, GoesOn DEF f, At, Only
    <3>3. Delivered(h)'
      <4>1. delivered' = Append(delivered, Transfer(f, <<f.chunk>>, now))
        BY <2>3 DEF Single
      <4>2. Transfer(f, <<f.chunk>>, now).n = h
        BY <1>1 DEF Transfer
      <4> QED
        BY <4>1, <4>2, DeliveredAfter DEF Only, TypeInv
    <3> QED
      BY <3>1, <3>2, <3>3 DEF PastOf
  <2> QED
    BY <2>1, <2>2, <2>3
<1>10. Follows(i, h, k)
  BY <1>1 DEF At
<1> QED
  BY <1>1, <1>5, <1>6, <1>7, <1>8, <1>9, <1>10 DEF Follows

(* Where the state stands when a frame has been handled. *)
LEMMA Leaves ==
    ASSUME NEW i, Only(i), NEW h, NEW k, At(i, h, k), Hearing(i), rx' # NoState
    PROVE  \E p \in 1 .. h + 1 :
              /\ RightTid(p)'
              /\ \A x \in p .. h - 1 : Missed(i, x)
              /\ p = h + 1 => (k > 1 \/ k = sent[h].frames) /\ ~rx'.toggle
              /\ p <= h /\ k = sent[h].frames => Missed(i, h)
              /\ p = h /\ k = 1 => ~rx'.toggle \/ InSync(i, h, 1)'
<1> DEFINE f == Frame(i)
<1>1. /\ h \in DOMAIN sent /\ h \in Nat /\ h >= 1 /\ h <= Len(sent) + 1 /\ h # Len(sent) + 1
      /\ k \in Nat /\ k >= 1 /\ k <= sent[h].frames /\ sent[h].frames \in Nat
      /\ f.tid = sent[h].tid
      /\ f.sot <=> k = 1
      /\ f.eot <=> k = sent[h].frames
  BY FrameAt, ChosenProfile DEF Only, At, Hearing, TypeInv
<1>2. Outcome(f)
  BY HearsFrame DEF At
<1>3. ASSUME RightTid(h + 1)', k > 1 \/ k = sent[h].frames, ~rx'.toggle
      PROVE  \E p \in 1 .. h + 1 :
                /\ RightTid(p)'
                /\ \A x \in p .. h - 1 : Missed(i, x)
                /\ p = h + 1 => (k > 1 \/ k = sent[h].frames) /\ ~rx'.toggle
                /\ p <= h /\ k = sent[h].frames => Missed(i, h)
                /\ p = h /\ k = 1 => ~rx'.toggle \/ InSync(i, h, 1)'
  <2>1. h + 1 \in 1 .. h + 1 /\ ~(h + 1 <= h) /\ h + 1 # h /\ \A x \in h + 1 .. h - 1 : FALSE
    BY <1>1
  <2> QED
    BY <1>3, <2>1
<1>4. ASSUME rx'.tid = f.tid, k < sent[h].frames, k = 1 => InSync(i, h, 1)'
      PROVE  \E p \in 1 .. h + 1 :
                /\ RightTid(p)'
                /\ \A x \in p .. h - 1 : Missed(i, x)
                /\ p = h + 1 => (k > 1 \/ k = sent[h].frames) /\ ~rx'.toggle
                /\ p <= h /\ k = sent[h].frames => Missed(i, h)
                /\ p = h /\ k = 1 => ~rx'.toggle \/ InSync(i, h, 1)'
  <2>1. RightTid(h)'
    BY <1>1, <1>4 DEF RightTid, TidOf, Hearing
  <2>2. h \in 1 .. h + 1 /\ h # h + 1 /\ k # sent[h].frames /\ \A x \in h .. h - 1 : FALSE
    BY <1>1, <1>4
  <2> QED
    BY <1>4, <2>1, <2>2
<1>5. CASE Ignored
  <2>1. CASE k = sent[h].frames /\ ~Missed(i, h)
    <3>1. PastOf(h)'
      BY <1>1, <2>1, TakesWhole
    <3> QED
      BY <1>3, <2>1, <3>1 DEF PastOf
  <2>2. CASE k # sent[h].frames \/ Missed(i, h)
    <3>1. PICK p \in 1 .. h + 1 :
             /\ RightTid(p)
             /\ \A x \in p .. h - 1 : Missed(i, x)
             /\ p = h + 1 => k > 1 /\ ~rx.toggle
             /\ p = h /\ k = 1 => ~rx.toggle \/ InSync(i, h, 1)
      BY <1>5 DEF At, Behind, Ignored
    <3>2. RightTid(p)' /\ rx'.toggle = rx.toggle
      BY <1>5, <3>1 DEF RightTid, TidOf, Ignored, Hearing
    <3>3. InSync(i, h, 1) => InSync(i, h, 1)'
      BY <1>5, InSyncKept DEF Ignored, Hearing
    <3> QED
      BY <2>2, <3>1, <3>2, <3>3
  <2> QED
    BY <2>1, <2>2
<1>6. CASE Skipped(f) \/ GivenUp(f) \/ Ended(f)
  <2>1. rx'.tid = NextTransferId(f.tid) /\ rx'.toggle = FALSE /\ ~f.sot
    BY <1>6 DEF Skipped, GivenUp, Ended, Wanted
  <2>2. RightTid(h + 1)'
    BY <2>1, GoesOn DEF f, At, Only
  <2> QED
    BY <1>1, <1>3, <2>1, <2>2
<1>7. CASE Single(f)
  <2>1. f.sot /\ f.eot /\ rx'.toggle = FALSE
    BY <1>7 DEF Single
  <2>2. k = 1 /\ k = sent[h].frames
    BY <1>1, <2>1
  <2>3. ~InSync(i, h, 1)
    BY <1>1, <2>2 DEF InSync
  <2>4. ~Begun(f)
    BY <2>1 DEF Begun
  <2>5. rx'.tid = NextTransferId(f.tid)
    BY <2>2, <2>3, <2>4, TakesStart DEF f
  <2>6. RightTid(h + 1)'
    BY <2>5, GoesOn DEF f, At, Only
  <2> QED
    BY <1>3, <2>1, <2>2, <2>6
<1>8. CASE Begun(f)
  <2>1. rx'.tid = f.tid /\ f.sot
    BY <1>8 DEF Begun
  <2>2. InSync(i, h, 1)' /\ k < sent[h].frames
    BY <1>1, <1>8, <2>1, BeginsInSync DEF f, At, Only
  <2> QED
    BY <1>4, <2>1, <2>2
<1>9. CASE Continued(f)
  <2>1. rx'.tid = f.tid /\ ~f.sot /\ ~f.eot
    BY <1>9 DEF Continued, Wanted
  <2>2. k # 1 /\ k < sent[h].frames
    BY <1>1, <2>1
  <2> QED
    BY <1>4, <2>1, <2>2
<1> QED
  BY <1>2, <1>5, <1>6, <1>7, <1>8, <1>9 DEF Outcome

-----------------------------------------------------------------------------
(* The invariant *)

(* A frame has been handled and is still to come again, or the one after it is next.      *)
LEMMA HandledAt ==
    ASSUME NEW i, Only(i), NEW h, NEW k, At(i, h, k), Hearing(i)
    PROVE  /\ Position(i, h, k)' /\ ~(k = 1 /\ k = sent[h].frames) => At(i, h, k)'
           /\ \A c : c = k + 1 /\ k < sent[h].frames /\ Position(i, h, c)' => At(i, h, c)'
           /\ \A g : g = h + 1 /\ k = sent[h].frames /\ Position(i, g, 1)' => At(i, g, 1)'
<1>1. /\ h \in DOMAIN sent /\ h \in Nat /\ h >= 1
      /\ k \in Nat /\ k >= 1 /\ k <= sent[h].frames /\ sent[h].frames \in Nat
      /\ sent' = sent /\ gone' = gone /\ Outcome(Frame(i)) /\ \A m \in DOMAIN sent : m \in Nat
  BY FrameAt, HearsFrame, PayloadType DEF Only, At, Hearing, TypeInv
<1>2. \A x : Missed(i, x)' <=> Missed(i, x)
  BY <1>1 DEF Missed
<1>3. \A m \in DOMAIN sent : m < h => Missed(i, m)' \/ Delivered(m)'
  BY <1>1, <1>2, DeliveredKept DEF At, Only
<1>4. ~Missed(i, h) =>
         \/ k < sent[h].frames /\ InSync(i, h, k)'
         \/ k = sent[h].frames /\ Delivered(h)' /\ PastOf(h)'
  BY TakesWhole
<1>5. rx' # NoState =>
         \E p \in 1 .. h + 1 :
            /\ RightTid(p)'
            /\ \A x \in p .. h - 1 : Missed(i, x)
            /\ p = h + 1 => (k > 1 \/ k = sent[h].frames) /\ ~rx'.toggle
            /\ p <= h /\ k = sent[h].frames => Missed(i, h)
            /\ p = h /\ k = 1 => ~rx'.toggle \/ InSync(i, h, 1)'
  BY Leaves
<1>6. ASSUME Position(i, h, k)', ~(k = 1 /\ k = sent[h].frames)
      PROVE  At(i, h, k)'
  <2>1. ~Missed(i, h)' => Follows(i, h, k)'
    BY <1>1, <1>2, <1>4 DEF Follows
  <2>2. Behind(i, h, k)'
    <3>1. SUFFICES ASSUME rx' # NoState
                   PROVE  \E p \in 1 .. h + 1 :
                             /\ RightTid(p)'
                             /\ \A x \in p .. h - 1 : Missed(i, x)'
                             /\ p = h + 1 => k > 1 /\ ~rx'.toggle
                             /\ p = h /\ k = 1 => ~rx'.toggle \/ InSync(i, h, 1)'
      BY DEF Behind
    <3>2. k > 1 \/ k = sent[h].frames => k > 1
      BY <1>1, <1>6
    <3> QED
      BY <1>2, <1>5, <3>1, <3>2
  <2> QED
    BY <1>1, <1>3, <1>6, <2>1, <2>2 DEF At
<1>7. ASSUME NEW c, c = k + 1, k < sent[h].frames, Position(i, h, c)'
      PROVE  At(i, h, c)'
  <2>1. ~Missed(i, h)' => Follows(i, h, c)'
    <3>1. SUFFICES ASSUME ~Missed(i, h)'
                   PROVE  InSync(i, h, c - 1)'
      BY DEF Follows
    <3>2. InSync(i, h, k)'
      BY <1>1, <1>2, <1>4, <1>7, <3>1
    <3>3. c - 1 = k
      BY <1>1, <1>7
    <3> QED
      BY <3>2, <3>3 DEF InSync
  <2>2. Behind(i, h, c)'
    <3>1. SUFFICES ASSUME rx' # NoState
                   PROVE  \E p \in 1 .. h + 1 :
                             /\ RightTid(p)'
                             /\ \A x \in p .. h - 1 : Missed(i, x)'
                             /\ p = h + 1 => c > 1 /\ ~rx'.toggle
                             /\ p = h /\ c = 1 => ~rx'.toggle \/ InSync(i, h, 1)'
      BY DEF Behind
    <3>2. c > 1 /\ c # 1
      BY <1>1, <1>7
    <3> QED
      BY <1>2, <1>5, <3>1, <3>2
  <2> QED
    BY <1>1, <1>3, <1>7, <2>1, <2>2 DEF At
<1>8. ASSUME NEW g, g = h + 1, k = sent[h].frames, Position(i, g, 1)'
      PROVE  At(i, g, 1)'
  <2>1. \A m \in DOMAIN sent : m < g => m < h \/ m = h
    BY <1>1, <1>8
  <2>2. Missed(i, h)' \/ Delivered(h)'
    BY <1>1, <1>2, <1>4, <1>8
  <2>3. \A m \in DOMAIN sent : m < g => Missed(i, m)' \/ Delivered(m)'
    BY <1>3, <2>1, <2>2
  <2>4. Follows(i, g, 1)'
    BY DEF Follows
  <2>5. Behind(i, g, 1)'
    <3>1. SUFFICES ASSUME rx' # NoState
                   PROVE  \E p \in 1 .. g + 1 :
                             /\ RightTid(p)'
                             /\ \A x \in p .. g - 1 : Missed(i, x)'
                             /\ p = g + 1 => 1 > 1 /\ ~rx'.toggle
                             /\ p = g /\ 1 = 1 => ~rx'.toggle \/ InSync(i, g, 1)'
      BY DEF Behind
    <3>2. PICK p \in 1 .. g :
             /\ RightTid(p)'
             /\ \A x \in p .. h - 1 : Missed(i, x)
             /\ p = g => ~rx'.toggle
             /\ p <= h => Missed(i, h)
      BY <1>5, <1>8, <3>1
    <3>3. p \in 1 .. g + 1 /\ p # g + 1
      BY <1>1, <1>8
    <3>4. \A x \in p .. g - 1 : Missed(i, x)'
      <4>1. SUFFICES ASSUME NEW x \in p .. g - 1
                     PROVE  Missed(i, x)
        BY <1>2
      <4>2. x \in p .. h - 1 \/ (x = h /\ p <= h)
        BY <1>1, <1>8, <3>2
      <4> QED
        BY <3>2, <4>2
    <3> QED
      BY <3>2, <3>3, <3>4
  <2> QED
    BY <1>1, <1>8, <2>3, <2>4, <2>5 DEF At
<1> QED
  BY <1>6, <1>7, <1>8

(* A frame is lost. *)
LEMMA LostAt ==
    ASSUME NEW i, Only(i), NEW h, NEW k, At(i, h, k), Lose(i)
    PROVE  /\ \A c : c = k + 1 /\ k < sent[h].frames => At(i, h, c)'
           /\ \A g : g = h + 1 /\ k = sent[h].frames => At(i, g, 1)'
           /\ k < sent[h].frames \/ k = sent[h].frames
<1>1. /\ bus[i] # <<>> /\ bus' = [bus EXCEPT ![i] = Tail(@)]
      /\ gone' = gone \cup {<<Head(bus[i])[1], Head(bus[i])[2], i>>}
      /\ UNCHANGED <<traffic, now, nextTid, sent, rx, stored, delivered>>
  BY DEF Lose
<1>2. /\ h \in DOMAIN sent /\ h \in Nat /\ h >= 1 /\ Head(bus[i])[1] = h /\ Head(bus[i])[2] = k
      /\ k \in Nat /\ k >= 1 /\ sent[h].frames \in Nat /\ k \in 1 .. sent[h].frames
  BY <1>1, HeadAt, PositionType DEF Only, At, TypeInv
<1>3. Missed(i, h)' /\ \A x : Missed(i, x) => Missed(i, x)'
  BY <1>1, <1>2 DEF Missed
<1>4. \A m : Delivered(m)' <=> Delivered(m)
  BY <1>1 DEF Delivered
<1>5. ASSUME rx' # NoState
      PROVE  \E p \in 1 .. h + 1 :
                /\ RightTid(p)'
                /\ \A x \in p .. h - 1 : Missed(i, x)'
                /\ p = h + 1 => ~rx'.toggle
  <2>1. PICK p \in 1 .. h + 1 :
           /\ RightTid(p)
           /\ \A x \in p .. h - 1 : Missed(i, x)
           /\ p = h + 1 => ~rx.toggle
    BY <1>1, <1>5 DEF At, Behind
  <2>2. RightTid(p)'
    BY <1>1, <2>1 DEF RightTid, TidOf
  <2> QED
    BY <1>1, <1>3, <2>1, <2>2
<1>6. ASSUME NEW c, c = k + 1, k < sent[h].frames
      PROVE  At(i, h, c)'
  <2>1. Position(i, h, c)'
    BY <1>1, <1>6, MovesOn DEF Only, At
  <2>2. Behind(i, h, c)'
    <3>1. c > 1 /\ c # 1
      BY <1>2, <1>6
    <3> QED
      BY <1>5, <3>1 DEF Behind
  <2>3. \A m \in DOMAIN sent : m < h => Missed(i, m)' \/ Delivered(m)'
    BY <1>3, <1>4 DEF At
  <2>4. At(i, h, c)'
    BY <1>1, <1>3, <2>1, <2>2, <2>3 DEF At
  <2> QED
    BY <2>4
<1>7. ASSUME NEW g, g = h + 1, k = sent[h].frames
      PROVE  At(i, g, 1)'
  <2>1. Position(i, g, 1)'
    BY <1>1, <1>7, MovesOn DEF Only, At
  <2>2. Follows(i, g, 1)'
    BY DEF Follows
  <2>3. \A m \in DOMAIN sent : m < g => Missed(i, m)' \/ Delivered(m)'
    <3>1. \A m \in DOMAIN sent : m \in Nat /\ (m < g => m < h \/ m = h)
      BY <1>2, <1>7, PayloadType DEF Only, TypeInv
    <3> QED
      BY <1>3, <1>4, <3>1 DEF At
  <2>4. Behind(i, g, 1)'
    <3>1. SUFFICES ASSUME rx' # NoState
                   PROVE  \E p \in 1 .. g + 1 :
                             /\ RightTid(p)'
                             /\ \A x \in p .. g - 1 : Missed(i, x)'
                             /\ p = g + 1 => 1 > 1 /\ ~rx'.toggle
                             /\ p = g /\ 1 = 1 => ~rx'.toggle \/ InSync(i, g, 1)'
      BY DEF Behind
    <3>2. PICK p \in 1 .. g :
             /\ RightTid(p)'
             /\ \A x \in p .. h - 1 : Missed(i, x)'
             /\ p = g => ~rx'.toggle
      BY <1>5, <1>7, <3>1
    <3>3. p \in 1 .. g + 1 /\ p # g + 1
      BY <1>2, <1>7
    <3>4. \A x \in p .. g - 1 : Missed(i, x)'
      <4>1. SUFFICES ASSUME NEW x \in p .. g - 1
                     PROVE  Missed(i, x)'
        OBVIOUS
      <4>2. x \in p .. h - 1 \/ x = h
        BY <1>2, <1>7, <3>2
      <4> QED
        BY <1>3, <3>2, <4>2
    <3> QED
      BY <3>2, <3>3, <3>4
  <2>5. At(i, g, 1)'
    BY <1>1, <2>1, <2>2, <2>3, <2>4 DEF At
  <2> QED
    BY <2>5
<1> QED
  BY <1>2, <1>6, <1>7

(* The subscriber does nothing, and what is to come stays the same. *)
LEMMA UndisturbedAt ==
    ASSUME NEW i, NEW h, NEW k, At(i, h, k),
           UNCHANGED <<nextTid, sent, rx, stored, delivered, gone>>, On(i)' = On(i)
    PROVE  At(i, h, k)'
<1>1. Position(i, h, k)'
  BY PositionKept DEF At
<1>2. /\ \A x : Missed(i, x)' <=> Missed(i, x)
      /\ \A m : Delivered(m)' <=> Delivered(m)
      /\ \A p : RightTid(p)' <=> RightTid(p)
      /\ PastOf(h)' <=> PastOf(h)
  BY DEF Missed, Delivered, RightTid, PastOf, TidOf
<1>3. \A c : InSync(i, h, c) => InSync(i, h, c)'
  BY InSyncKept
<1>4. Follows(i, h, k) => Follows(i, h, k)'
  BY <1>2, <1>3 DEF Follows
<1>5. Behind(i, h, k)'
  BY <1>2, <1>3 DEF At, Behind
<1> QED
  BY <1>1, <1>2, <1>4, <1>5 DEF At

(* canardCleanupStaleTransfers finds no state that is in the middle of a transfer that     *)
(* still comes.                                                               *)
LEMMA CleanedAt ==
    ASSUME NEW i, Only(i), NEW h, NEW k, At(i, h, k), Cleanup
    PROVE  At(i, h, k)'
<1>1. /\ TidTimedOut(rx, now) /\ rx' = NoState
      /\ UNCHANGED <<traffic, now, nextTid, sent, bus, delivered, gone>>
  BY DEF Cleanup, TidTimedOut
<1>2. Position(i, h, k)'
  BY <1>1, PositionKept DEF At, On
<1>3. /\ \A x : Missed(i, x)' <=> Missed(i, x)
      /\ \A m : Delivered(m)' <=> Delivered(m)
      /\ PastOf(h)'
  BY <1>1 DEF Missed, Delivered, PastOf
<1>4. h \in DOMAIN sent => \A c : ~InSync(i, h, c)
  <2>1. h \in DOMAIN sent => bus[i] # <<>>
    BY HeadAt DEF Only, At
  <2> QED
    BY <1>1, <2>1, NotStale, SparseFacts DEF Only, At, TypeInv
<1>5. h \in DOMAIN sent /\ Follows(i, h, k) => Follows(i, h, k)'
  BY <1>1, <1>3, <1>4 DEF Follows
<1>6. Behind(i, h, k)'
  BY <1>1 DEF Behind
<1> QED
  BY <1>1, <1>2, <1>3, <1>5, <1>6 DEF At

(* A transfer is published: the transfer-IDs go on counting. *)
LEMMA PublishedTids ==
    ASSUME TypeInv, Paced, NEW frames \in traffic.frames, NEW zero \in ZeroKinds,
           Publish(frames, zero), NEW L, L = Len(sent)
    PROVE  /\ Paced'
           /\ \A n \in 1 .. L + 1 : TidOf(n)' = TidOf(n)
           /\ L \in Nat /\ DOMAIN sent = 1 .. L
           /\ Len(sent') = L + 1 /\ DOMAIN sent' = 1 .. L + 1
           /\ \A n \in DOMAIN sent : sent'[n] = sent[n]
           /\ sent'[L + 1].tid = nextTid /\ sent'[L + 1].frames = frames
<1>1. L \in Nat /\ L = Len(sent) /\ DOMAIN sent = 1 .. L
  BY ChosenProfile DEF TypeInv
<1>2. /\ Len(sent') = L + 1 /\ DOMAIN sent' = 1 .. L + 1
      /\ \A n \in DOMAIN sent : sent'[n] = sent[n]
      /\ sent'[L + 1].tid = nextTid /\ sent'[L + 1].frames = frames
  <2>1. (sent \in Seq(Published))'
    BY PublishBus DEF TypeInv, Types
  <2>2. sent' \in Seq(Published')
    BY <2>1
  <2>3. Len(sent') = L + 1
    BY <1>1, PublishBus DEF TypeInv
  <2>4. DOMAIN sent' = 1 .. Len(sent')
    BY <2>2
  <2>5. sent'[L + 1] = [frames |-> frames, zero |-> zero, tid |-> nextTid]
    BY <1>1, PublishBus DEF TypeInv
  <2>6. sent'[L + 1].tid = nextTid /\ sent'[L + 1].frames = frames
    BY <2>5
  <2> QED
    BY <1>1, <2>3, <2>4, <2>6, PublishBus DEF TypeInv
<1>3. nextTid' = NextTransferId(nextTid) /\ nextTid \in TransferId /\ UNCHANGED budget
  BY DEF Publish, TypeInv, Types
<1>4. /\ \A n \in 1 .. L + 1 : TidOf(n)' = TidOf(n)
      /\ TidOf(L + 2)' = NextTransferId(nextTid)
      /\ TidOf(L + 1) = nextTid
  <2>1. \A n \in 1 .. L + 1 : TidOf(n)' = TidOf(n)
    BY <1>1, <1>2 DEF TidOf
  <2>2. L + 2 = Len(sent') + 1
    BY <1>1, <1>2
  <2> QED
    BY <1>1, <1>3, <2>1, <2>2 DEF TidOf
<1>5. Paced'
  <2>1. ASSUME NEW a \in 1 .. L + 2, NEW b \in 1 .. L + 2, a <= b, b - a < TidMod
        PROVE  ForwardDistance(TidOf(b)', TidOf(a)') = b - a
    <3>1. CASE b # L + 2
      <4>1. a \in 1 .. L + 1 /\ b \in 1 .. L + 1
        BY <1>1, <2>1, <3>1
      <4> QED
        BY <1>1, <1>4, <2>1, <4>1 DEF Paced
    <3>2. CASE b = L + 2 /\ a # L + 2
      <4>1. /\ a \in 1 .. L + 1 /\ L + 1 \in 1 .. L + 1 /\ a <= L + 1 /\ L + 1 - a < TidMod
            /\ L + 1 - a + 1 < TidMod
        BY <1>1, <2>1, <3>2, TidModAssumption
      <4>2. ForwardDistance(nextTid, TidOf(a)) = L + 1 - a
        BY <1>1, <1>4, <4>1 DEF Paced
      <4>3. TidOf(a) \in TransferId
        BY <1>1, <4>1, TidOfType DEF TypeInv
      <4>4. ForwardDistance(NextTransferId(nextTid), TidOf(a)) = L + 1 - a + 1
        BY <1>3, <4>1, <4>2, <4>3, DistanceSteps
      <4>5. L + 1 - a + 1 = b - a
        BY <1>1, <2>1, <3>2
      <4> QED
        BY <1>4, <3>2, <4>1, <4>4, <4>5
    <3>3. CASE b = L + 2 /\ a = L + 2
      <4>1. NextTransferId(nextTid) \in TransferId
        BY <1>3, NextTransferIdType
      <4>2. ForwardDistance(NextTransferId(nextTid), NextTransferId(nextTid)) = 0
        BY <4>1 DEF ForwardDistance, TransferId
      <4> QED
        BY <1>1, <1>4, <3>3, <4>2
    <3> QED
      BY <3>1, <3>2, <3>3
  <2>2. Len(sent') + 1 = L + 2
    BY <1>1, <1>2
  <2> QED
    BY <1>3, <2>1, <2>2 DEF Paced
<1> QED
  BY <1>1, <1>2, <1>4, <1>5

LEMMA PublishedAt ==
    ASSUME NEW i, Only(i), NEW h, NEW k, At(i, h, k),
           NEW frames \in traffic.frames, NEW zero \in ZeroKinds, Publish(frames, zero)
    PROVE  At(i, h, k)' /\ Young(i)'
<1>0. PICK L \in Nat : L = Len(sent)
  <2>1. Types
    BY DEF Only, TypeInv
  <2>2. Len(sent) \in Nat
    BY <2>1, ChosenProfile
  <2> QED
    BY <2>2
<1>1. /\ h \in Nat /\ h >= 1 /\ k \in Nat /\ k >= 1 /\ L \in Nat /\ h <= L + 1
      /\ h \in DOMAIN sent <=> h <= L
      /\ h = L + 1 => k = 1
      /\ DOMAIN sent = 1 .. L
  BY <1>0, PositionType, ChosenProfile DEF At, Position, Only, TypeInv
<1>2. /\ Len(sent') = L + 1 /\ DOMAIN sent' = 1 .. L + 1
      /\ \A n \in DOMAIN sent : sent'[n] = sent[n]
      /\ \A e \in On(i)' : e \in On(i) \/ (e[1] = L + 1 /\ e[3] = now)
  BY <1>0, PublishedTids, PublishBus DEF Only, TypeInv
<1>3. UNCHANGED <<traffic, now, rx, stored, delivered, gone, budget>>
  BY DEF Publish
<1>4. Position(i, h, k)'
  BY PublishPosition DEF Only, At
<1>5. \A n \in 1 .. L + 1 : TidOf(n)' = TidOf(n)
  BY <1>0, PublishedTids DEF Only
<1>6. Young(i)'
  <2>1. now \in Nat /\ traffic.delay \in Nat
    BY ChosenProfile DEF Only, TypeInv
  <2>2. ASSUME NEW e \in On(i)'
        PROVE  now - e[3] <= traffic.delay
    <3>1. CASE e \in On(i)
      BY <3>1 DEF Only, Young
    <3>2. CASE e[3] = now
      BY <2>1, <3>2
    <3> QED
      BY <1>2, <3>1, <3>2
  <2> QED
    BY <1>3, <2>2 DEF Young
<1>7. /\ \A x \in DOMAIN sent : Missed(i, x)' <=> Missed(i, x)
      /\ \A m : Delivered(m)' <=> Delivered(m)
  BY <1>2, <1>3 DEF Missed, Delivered
<1>8. \A p \in 1 .. L + 1 : RightTid(p) => RightTid(p)'
  BY <1>0, <1>1, <1>2, <1>3, <1>5 DEF RightTid
<1>9. \A c : InSync(i, h, c) => InSync(i, h, c)'
  <2>1. SUFFICES ASSUME NEW c, InSync(i, h, c)
                 PROVE  InSync(i, h, c)'
    OBVIOUS
  <2>2. h \in DOMAIN sent /\ h \in DOMAIN sent' /\ sent'[h] = sent[h] /\ h # L + 1
    BY <1>1, <1>2, <2>1 DEF InSync
  <2>3. TransferCrc(h)' = TransferCrc(h) /\ \A q : Chunk(h, q)' = Chunk(h, q)
    BY <2>2 DEF TransferCrc, Payload, Chunk
  <2>4. \A e \in On(i)' : e[1] = h => e \in On(i)
    BY <1>2, <2>2
  <2> QED
    BY <1>3, <2>1, <2>2, <2>3, <2>4 DEF InSync
<1>10. ASSUME h \in DOMAIN sent', ~Missed(i, h)'
       PROVE  Follows(i, h, k)'
  <2>1. CASE h = L + 1
    BY <1>1, <2>1 DEF Follows
  <2>2. CASE h # L + 1
    <3>1. h \in DOMAIN sent /\ sent'[h] = sent[h]
      BY <1>1, <1>2, <2>2
    <3>2. Follows(i, h, k)
      BY <1>7, <1>10, <3>1 DEF At
    <3>3. PastOf(h) => PastOf(h)'
      <4>1. h + 1 \in 1 .. L + 1
        BY <1>1, <3>1
      <4> QED
        BY <1>3, <1>8, <4>1 DEF PastOf
    <3> QED
      BY <1>7, <1>9, <3>1, <3>2, <3>3 DEF Follows
  <2> QED
    BY <2>1, <2>2
<1>11. Behind(i, h, k)'
  <2>1. SUFFICES ASSUME rx # NoState
                 PROVE  \E p \in 1 .. h + 1 :
                           /\ RightTid(p)'
                           /\ \A x \in p .. h - 1 : Missed(i, x)'
                           /\ p = h + 1 => k > 1 /\ ~rx.toggle
                           /\ p = h /\ k = 1 => ~rx.toggle \/ InSync(i, h, 1)'
    BY <1>3 DEF Behind
  <2>2. PICK p \in 1 .. h + 1 :
           /\ RightTid(p)
           /\ \A x \in p .. h - 1 : Missed(i, x)
           /\ p = h + 1 => k > 1 /\ ~rx.toggle
           /\ p = h /\ k = 1 => ~rx.toggle \/ InSync(i, h, 1)
    BY <2>1 DEF At, Behind
  <2>3. p \in 1 .. L + 1
    BY <1>0, <1>1, <2>2 DEF RightTid
  <2>4. \A x \in p .. h - 1 : x \in DOMAIN sent
    BY <1>1
  <2> QED
    BY <1>7, <1>8, <1>9, <2>2, <2>3, <2>4
<1>12. \A m \in DOMAIN sent' : m < h => Missed(i, m)' \/ Delivered(m)'
  <2>1. \A m \in DOMAIN sent' : m < h => m \in DOMAIN sent
    BY <1>1, <1>2
  <2> QED
    BY <1>7, <2>1 DEF At
<1> QED
  BY <1>4, <1>6, <1>10, <1>11, <1>12 DEF At

LEMMA PacedStep ==
    ASSUME TypeInv, Paced, [Next]_vars
    PROVE  Paced'
<1>1. "restarts" \in DOMAIN budget /\ budget.restarts = 0
  BY DEF Paced
<1>2. ASSUME UNCHANGED <<nextTid, sent>>, "restarts" \in DOMAIN budget', budget'.restarts = 0
      PROVE  Paced'
  <2>1. \A n : TidOf(n)' = TidOf(n)
    BY <1>2 DEF TidOf
  <2> QED
    BY <1>2, <2>1 DEF Paced
<1>3. ASSUME NEW frames \in traffic.frames, NEW zero \in ZeroKinds, Publish(frames, zero)
      PROVE  Paced'
  BY <1>3, PublishedTids
<1>4. ASSUME RestartPublisher
      PROVE  FALSE
  BY <1>1, <1>4, SMT DEF RestartPublisher
<1>5. ASSUME NEW i \in Ifaces, Receive(i)
      PROVE  Paced'
  <2>1. UNCHANGED <<nextTid, sent, budget>>
    BY <1>5 DEF Receive
  <2> QED
    BY <1>1, <1>2, <2>1
<1>6. ASSUME NEW i \in Ifaces, ReceiveAndRepeat(i)
      PROVE  Paced'
  <2>1. UNCHANGED <<nextTid, sent>> /\ budget' = [budget EXCEPT !.repeats = @ - 1]
    BY <1>6 DEF ReceiveAndRepeat
  <2> QED
    BY <1>1, <1>2, <2>1
<1>7. ASSUME NEW i \in Ifaces, Lose(i)
      PROVE  Paced'
  <2>1. UNCHANGED <<nextTid, sent>> /\ budget' = [budget EXCEPT !.losses = @ - 1]
    BY <1>7 DEF Lose
  <2> QED
    BY <1>1, <1>2, <2>1
<1>8. ASSUME Cleanup \/ Tick \/ UNCHANGED vars
      PROVE  Paced'
  <2>1. UNCHANGED <<nextTid, sent, budget>>
    BY <1>8 DEF Cleanup, Tick, vars
  <2> QED
    BY <1>1, <1>2, <2>1
<1> QED
  BY <1>3, <1>4, <1>5, <1>6, <1>7, <1>8 DEF Next

LEMMA CountedStep ==
    ASSUME TypeInv, Counted, [Next]_vars
    PROVE  Counted'
<1>1. "losses" \in DOMAIN budget /\ budget.losses \in Nat
  BY DEF Counted
<1>2. ASSUME UNCHANGED <<traffic, gone>>, "losses" \in DOMAIN budget',
             budget'.losses = budget.losses
      PROVE  Counted'
  BY <1>2 DEF Counted
<1>3. ASSUME NEW i \in Ifaces, Lose(i)
      PROVE  Counted'
  <2>1. /\ budget.losses > 0 /\ budget' = [budget EXCEPT !.losses = @ - 1]
        /\ gone' = gone \cup {<<Head(bus[i])[1], Head(bus[i])[2], i>>}
        /\ traffic' = traffic
    BY <1>3 DEF Lose
  <2>2. /\ IsFiniteSet(gone) /\ Cardinality(gone) + budget.losses <= traffic.losses
        /\ traffic.losses \in Nat
    BY RxAssumption DEF Counted, TypeInv, Types, Profile
  <2>3. Cardinality(gone) \in Nat
    BY <2>2, FS_CardinalityType
  <2>4. IsFiniteSet(gone') /\ Cardinality(gone') <= Cardinality(gone) + 1 /\ Cardinality(gone') \in Nat
    <3> DEFINE x == <<Head(bus[i])[1], Head(bus[i])[2], i>>
    <3>1. gone' = gone \cup {x}
      BY <2>1
    <3> HIDE DEF x
    <3>2. IsFiniteSet(gone \cup {x})
          /\ Cardinality(gone \cup {x}) = IF x \in gone THEN Cardinality(gone) ELSE Cardinality(gone) + 1
      BY <2>2, FS_AddElement
    <3> QED
      BY <2>3, <3>1, <3>2
  <2>5. "losses" \in DOMAIN budget' /\ budget'.losses = budget.losses - 1
    BY <1>1, <2>1
  <2>6. budget'.losses \in Nat /\ Cardinality(gone') + budget'.losses <= traffic.losses
    BY <1>1, <2>1, <2>2, <2>3, <2>4, <2>5
  <2> QED
    BY <2>1, <2>4, <2>5, <2>6 DEF Counted
<1>4. ASSUME NEW i \in Ifaces, ReceiveAndRepeat(i)
      PROVE  Counted'
  <2>1. UNCHANGED <<traffic, gone>> /\ budget' = [budget EXCEPT !.repeats = @ - 1]
    BY <1>4 DEF ReceiveAndRepeat
  <2> QED
    BY <1>1, <1>2, <2>1
<1>5. ASSUME RestartPublisher
      PROVE  Counted'
  <2>1. UNCHANGED <<traffic, gone>> /\ budget' = [budget EXCEPT !.restarts = @ - 1]
    BY <1>5 DEF RestartPublisher
  <2> QED
    BY <1>1, <1>2, <2>1
<1>6. ASSUME UNCHANGED <<traffic, gone, budget>>
      PROVE  Counted'
  BY <1>1, <1>2, <1>6
<1> QED
  BY <1>3, <1>4, <1>5, <1>6 DEF Next, Publish, Receive, Cleanup, Tick, vars

LEMMA LossInit ==
    ASSUME Sparse, Init, NEW i \in Ifaces
    PROVE  LossInv(i)
<1>1. /\ TypeInv /\ traffic \in Profile /\ nextTid = 0
      /\ sent = <<>> /\ rx = NoState /\ gone = {} /\ On(i) = {}
      /\ budget = [losses |-> traffic.losses, repeats |-> MaxRepeats, restarts |-> MaxRestarts]
  BY TypeInit, RxAssumption DEF Init, On
<1>2. Paced
  <2>1. ForwardDistance(TidOf(1), TidOf(1)) = 0
    BY <1>1 DEF TidOf, ForwardDistance
  <2>2. "restarts" \in DOMAIN budget /\ budget.restarts = 0
    BY <1>1 DEF Sparse
  <2>3. Len(sent) + 1 = 1
    BY <1>1
  <2>4. \A a, b \in 1 .. 1 : a = 1 /\ b = 1 /\ b - a = 0
    OBVIOUS
  <2> QED
    BY <2>1, <2>2, <2>3, <2>4 DEF Paced
<1>3. Counted
  BY <1>1, FS_EmptySet DEF Counted, Profile
<1>4. Position(i, 1, 1)
  BY <1>1 DEF Position
<1>5. At(i, 1, 1)
  BY <1>1, <1>4 DEF At, Behind
<1> QED
  BY <1>1, <1>2, <1>3, <1>5 DEF LossInv, Young

LEMMA LossStep ==
    ASSUME Sparse, NEW i \in Ifaces, Ifaces = {i}, LossInv(i), [Next]_vars
    PROVE  LossInv(i)'
<1>1. Only(i) /\ TypeInv'
  BY TypeStep DEF LossInv, Only
<1>2. PICK h, k \in Nat : At(i, h, k)
  BY DEF LossInv
<1>3. PICK g, c \in Nat : g = h + 1 /\ c = k + 1
  OBVIOUS
<1>4. Paced' /\ Counted'
  BY <1>1, PacedStep, CountedStep DEF Only
<1>5. ASSUME UNCHANGED <<traffic, now>>, On(i)' \subseteq On(i)
      PROVE  Young(i)'
  BY <1>1, <1>5 DEF Only, Young
<1>6. ASSUME NEW frames \in traffic.frames, NEW zero \in ZeroKinds, Publish(frames, zero)
      PROVE  LossInv(i)'
  <2>1. At(i, h, k)' /\ Young(i)'
    BY <1>1, <1>2, <1>6, PublishedAt
  <2> QED
    BY <1>1, <1>4, <2>1 DEF LossInv
<1>7. CASE RestartPublisher
  <2>1. "restarts" \in DOMAIN budget /\ budget.restarts = 0
    BY <1>1 DEF Only, Paced
  <2> QED
    BY <1>7, <2>1, SMT DEF RestartPublisher
<1>8. CASE Receive(i)
  <2>1. /\ bus[i] # <<>> /\ HandleRxFrame(Frame(i)) /\ bus' = [bus EXCEPT ![i] = Tail(@)]
        /\ UNCHANGED <<traffic, now, nextTid, sent, gone, budget>>
    BY <1>8 DEF Receive
  <2>2. On(i)' \subseteq On(i)
    BY <1>1, <2>1, TailBus DEF Only, TypeInv
  <2>3. Hearing(i)
    BY <2>1, <2>2 DEF Hearing
  <2>4. At(i, h, c)' \/ At(i, g, 1)'
    <3>1. /\ k < sent[h].frames => Position(i, h, c)'
          /\ k = sent[h].frames => Position(i, g, 1)'
      BY <1>1, <1>2, <1>3, <2>1, MovesOn DEF Only, At
    <3>2. k < sent[h].frames \/ k = sent[h].frames
      <4>1. k \in Nat /\ k <= sent[h].frames /\ sent[h].frames \in Nat
        BY <1>1, <1>2, <2>1, FrameAt DEF Only, At
      <4> QED
        BY <4>1
    <3> QED
      BY <1>1, <1>2, <1>3, <2>3, <3>1, <3>2, HandledAt
  <2>5. Young(i)'
    BY <1>5, <2>1, <2>2
  <2> QED
    BY <1>1, <1>3, <1>4, <2>4, <2>5 DEF LossInv
<1>9. CASE ReceiveAndRepeat(i)
  <2>1. /\ bus[i] # <<>> /\ HandleRxFrame(Frame(i)) /\ ~(Frame(i).sot /\ Frame(i).eot)
        /\ UNCHANGED <<traffic, now, nextTid, sent, gone, bus>>
        /\ budget' = [budget EXCEPT !.repeats = @ - 1]
    BY <1>9 DEF ReceiveAndRepeat, Sparse
  <2>2. On(i)' = On(i)
    BY <2>1 DEF On
  <2>3. Hearing(i)
    BY <2>1, <2>2 DEF Hearing
  <2>4. At(i, h, k)'
    <3>1. ~(k = 1 /\ k = sent[h].frames)
      BY <1>1, <1>2, <2>1, FrameAt DEF Only, At
    <3>2. Position(i, h, k)'
      BY <1>2, <2>1, <2>2, PositionKept DEF At
    <3> QED
      BY <1>1, <1>2, <2>3, <3>1, <3>2, HandledAt
  <2>5. Young(i)'
    BY <1>5, <2>1, <2>2
  <2> QED
    BY <1>1, <1>4, <2>4, <2>5 DEF LossInv
<1>10. CASE Lose(i)
  <2>1. /\ bus[i] # <<>> /\ bus' = [bus EXCEPT ![i] = Tail(@)]
        /\ UNCHANGED <<traffic, now, nextTid, sent>>
    BY <1>10 DEF Lose
  <2>2. On(i)' \subseteq On(i)
    BY <1>1, <2>1, TailBus DEF Only, TypeInv
  <2>3. At(i, h, c)' \/ At(i, g, 1)'
    BY <1>1, <1>2, <1>3, <1>10, LostAt
  <2>4. Young(i)'
    BY <1>5, <2>1, <2>2
  <2> QED
    BY <1>1, <1>3, <1>4, <2>3, <2>4 DEF LossInv
<1>11. CASE Cleanup
  <2>1. UNCHANGED <<traffic, now, nextTid, sent, bus, gone, budget>>
    BY <1>11 DEF Cleanup
  <2>2. On(i)' = On(i)
    BY <2>1 DEF On
  <2>3. At(i, h, k)'
    BY <1>1, <1>2, <1>11, CleanedAt
  <2>4. Young(i)'
    BY <1>5, <2>1, <2>2
  <2> QED
    BY <1>1, <1>4, <2>3, <2>4 DEF LossInv
<1>12. CASE Tick
  <2>1. /\ now' = now + 1
        /\ bus[i] # <<>> => now - Head(bus[i])[3] < traffic.delay
        /\ UNCHANGED <<traffic, nextTid, sent, bus, rx, stored, delivered, gone, budget>>
    BY <1>12 DEF Tick
  <2>2. On(i)' = On(i)
    BY <2>1 DEF On
  <2>3. At(i, h, k)'
    BY <1>2, <2>1, <2>2, UndisturbedAt
  <2>4. ASSUME NEW e \in On(i)
        PROVE  now' - e[3] <= traffic.delay
    <3>1. bus[i] # <<>>
      BY <2>4 DEF On
    <3>2. /\ Head(bus[i])[3] <= e[3] /\ e[3] \in Nat /\ Head(bus[i])[3] \in Nat
          /\ now \in Nat /\ traffic.delay \in Nat
      BY <1>1, <2>4, <3>1, HeadIs, OnType, ChosenProfile DEF Only, TypeInv, Slot
    <3>3. now - Head(bus[i])[3] < traffic.delay /\ now' = now + 1
      BY <2>1, <3>1
    <3>4. \A d, t \in Nat : now - d < traffic.delay /\ d <= t => now + 1 - t <= traffic.delay
      BY <3>2
    <3> QED
      BY <3>2, <3>3, <3>4
  <2>5. Young(i)'
    BY <2>1, <2>2, <2>4 DEF Young
  <2> QED
    BY <1>1, <1>4, <2>3, <2>5 DEF LossInv
<1>13. CASE UNCHANGED vars
  <2>1. UNCHANGED <<traffic, now, nextTid, sent, bus, rx, stored, delivered, gone, budget>>
    BY <1>13 DEF vars
  <2>2. On(i)' = On(i)
    BY <2>1 DEF On
  <2>3. At(i, h, k)'
    BY <1>2, <2>1, <2>2, UndisturbedAt
  <2>4. Young(i)'
    BY <1>5, <2>1, <2>2
  <2> QED
    BY <1>1, <1>4, <2>3, <2>4 DEF LossInv
<1> QED
  BY <1>6, <1>7, <1>8, <1>9, <1>10, <1>11, <1>12, <1>13 DEF Next

LEMMA MissingNone ==
    ASSUME Types, NEW i, NEW n \in DOMAIN sent, Missing(n, i) = 0
    PROVE  ~Missed(i, n)
<1> DEFINE S == {k \in 1 .. sent[n].frames : <<n, k, i>> \in gone}
<1>1. sent[n].frames \in Nat
  BY PayloadType
<1>2. IsFiniteSet(1 .. sent[n].frames)
  BY <1>1, FS_Interval
<1>3. IsFiniteSet(S)
  BY <1>2, FS_Subset
<1>4. Cardinality(S) = 0
  BY DEF Missing
<1>5. S = {}
  BY <1>3, <1>4, FS_EmptySet
<1> QED
  BY <1>5 DEF Missed

(* On one interface, a transfer whose frames all arrived has been delivered: what          *)
(* canardHandleRxFrame was left in by the frames before, which may be lost or repeated,    *)
(* never makes it refuse the first frame of the next transfer.  The bound on the losses     *)
(* is sharp: after one less than the ring of lost single-frame transfers the next one has   *)
(* the transfer-ID that is one behind the state, and is taken for a repetition.           *)
THEOREM WholeTransfersAreDelivered ==
    ASSUME Sparse
    PROVE  Spec => []EveryWholeTransferDelivered
<1> DEFINE LInv == TypeInv /\ \A i \in Ifaces : Ifaces = {i} => LossInv(i)
<1>1. Init => LInv
  BY LossInit, TypeInit
<1>2. LInv /\ [Next]_vars => LInv'
  <2>1. SUFFICES ASSUME LInv, [Next]_vars
                 PROVE  LInv'
    OBVIOUS
  <2>2. TypeInv' /\ Ifaces' = Ifaces
    BY <2>1, TypeStep DEF Next, Publish, RestartPublisher, Receive, ReceiveAndRepeat, Lose,
       Cleanup, Tick, vars, Ifaces
  <2>3. ASSUME NEW i \in Ifaces, Ifaces = {i}
        PROVE  LossInv(i)'
    BY <2>1, <2>3, LossStep
  <2> QED
    BY <2>2, <2>3
<1>3. LInv => EveryWholeTransferDelivered
  <2>1. SUFFICES ASSUME LInv, Cardinality(Ifaces) = 1, NEW n \in DOMAIN sent \ InFlight,
                        \A i \in Ifaces : Missing(n, i) = 0
                 PROVE  Delivered(n)
    BY DEF EveryWholeTransferDelivered
  <2>2. PICK i : Ifaces = {i}
    <3>1. IsFiniteSet(Ifaces)
      BY <2>1, RxAssumption DEF TypeInv, Types, Ifaces
    <3> QED
      BY <2>1, <3>1, FS_Singleton
  <2>3. i \in Ifaces /\ LossInv(i)
    BY <2>1, <2>2
  <2>4. PICK h, k \in Nat : At(i, h, k)
    BY <2>3 DEF LossInv
  <2>5. ~Missed(i, n)
    BY <2>1, <2>3, MissingNone DEF TypeInv
  <2>6. n < h
    <3>1. /\ n \in Nat /\ h \in Nat /\ k \in Nat /\ sent[n].frames \in Nat \ {0}
          /\ h = n => k \in 1 .. sent[n].frames
      BY <2>1, <2>4, PayloadType, PositionType DEF TypeInv, At
    <3>2. SUFFICES ASSUME n >= h
                   PROVE  FALSE
      BY <3>1
    <3>3. PICK q \in 1 .. sent[n].frames : n > h \/ (n = h /\ q >= k)
      <4>1. CASE n = h
        BY <3>1, <4>1
      <4>2. CASE n # h
        <5>1. 1 \in 1 .. sent[n].frames /\ n > h
          BY <3>1, <3>2, <4>2
        <5> QED
          BY <5>1
      <4> QED
        BY <4>1, <4>2
    <3>4. PICK e \in On(i) : e[1] = n /\ e[2] = q
      BY <2>1, <2>4, <3>3 DEF At, Position
    <3>5. n \in InFlight
      BY <2>3, <3>4 DEF InFlight, On
    <3> QED
      BY <2>1, <3>5
  <2> QED
    BY <2>1, <2>4, <2>5, <2>6 DEF At
<1> QED
  BY <1>1, <1>2, <1>3, PTL DEF Spec

-----------------------------------------------------------------------------
(* Fail-over, on any number of interfaces *)


Half == TidMod \div 2

(* The premise of FailoverDelivers: the publisher waits until everything has arrived and    *)
(* the state may be taken over.                                                 *)
Staggered == traffic.period > IfaceSwitchDelay + traffic.delay

(* No interface brought the first frame of transfer m. *)
Cut(m) == \A i \in Ifaces : <<m, 1, i>> \in gone

(* The subscriber has never been cut off from half a ring of transfers: what comes next is   *)
(* ahead of what it expects.                                                    *)
NeverCutOff ==
    \A p \in DOMAIN sent : p + Half <= Len(sent) =>
        \E m \in p + 1 .. p + Half - 1 : ~Cut(m)

(* No allocation fails, the publisher does not restart, no frame is repeated, and no frame   *)
(* is older than what canardCleanupStaleTransfers leaves alone.                       *)
Steady ==
    /\ MemoryShort = FALSE /\ MaxRestarts = 0 /\ MaxRepeats = 0
    /\ \A p \in Profiles : p.delay <= TransferTimeout

(* Only the newest transfer is in flight, and both it and the state are so young that      *)
(* neither meets the next one.                                                  *)
Spaced ==
    /\ wait \in Nat
    /\ \A i \in Ifaces : \A e \in On(i) :
          /\ e[1] = Len(sent)
          /\ now - e[3] <= traffic.delay
          /\ traffic.period <= wait + (now - e[3])
    /\ rx # NoState => traffic.period <= wait + (now - rx.timestamp) + traffic.delay

Placed == \A i \in Ifaces : \E h, k \in Nat : Position(i, h, k)

(* What an interface has lost it does not bring. *)
LostIsOff ==
    \A i \in Ifaces : \A n, k \in Nat : <<n, k, i>> \in gone =>
        n \in DOMAIN sent /\ \A e \in On(i) : ~(e[1] = n /\ e[2] = k)

StartToCome(i) == \E e \in On(i) : e[2] = 1

(* The state expects a transfer p such that no interface brought the start of a later one;  *)
(* when it is behind the newest, it may be taken over at once.                       *)
Near ==
    rx # NoState => \E p \in 1 .. Len(sent) + 1 :
        /\ RightTid(p)
        /\ \A m \in p + 1 .. Len(sent) : \A i \in Ifaces :
              <<m, 1, i>> \in gone \/ (m = Len(sent) /\ StartToCome(i))
        /\ p < Len(sent) => now - rx.timestamp > IfaceSwitchDelay
        /\ p = Len(sent) + 1 => ~StartToCome(rx.iface)

(* Interface i has lost all of transfer n; or has brought none of it so far. *)
AllLost(i, n) == \A k \in 1 .. sent[n].frames : <<n, k, i>> \in gone
Unheard(i, n) ==
    \A k \in 1 .. sent[n].frames :
        <<n, k, i>> \in gone \/ \E e \in On(i) : e[1] = n /\ e[2] = k

(* What FailoverDelivers asks of the interfaces, when all is over and before. *)
Carried(n) ==
    /\ \E i \in Ifaces : ~Missed(i, n)
    /\ \A i \in Ifaces : ~Missed(i, n) \/ AllLost(i, n)
Hopeful(n) == \A i \in Ifaces : ~Missed(i, n) \/ Unheard(i, n)
Untouched(n) == \A i \in Ifaces : Unheard(i, n)

Past == \A n \in DOMAIN sent : n # Len(sent) /\ Carried(n) => Delivered(n)

(* Whatever interface brings a frame of transfer n first makes the state follow it. *)
Ready(n) ==
    rx # NoState =>
        /\ now - rx.timestamp > IfaceSwitchDelay
        /\ \E p \in 1 .. n : RightTid(p) /\ \A m \in p + 1 .. n - 1 : Cut(m)

(* The state has all that its interface has brought of transfer n. *)
Following(i, n, c) ==
    rx.iface = i /\ InSync(i, n, c) /\ ~Missed(i, n) /\ Position(i, n, c + 1)

Progress(n) ==
    /\ Untouched(n) => Ready(n)
    /\ Hopeful(n) /\ ~Untouched(n) =>
          Delivered(n) \/ \E i \in Ifaces, c \in Nat : Following(i, n, c)

FailoverInv ==
    /\ Spaced /\ Placed /\ LostIsOff /\ Near /\ Past
    /\ \A n \in DOMAIN sent : n = Len(sent) => Progress(n)

(* What is assumed in a step. *)
Failover ==
    TypeInv /\ Paced /\ Steady /\ Staggered /\ NeverCutOff /\ FailoverInv

(* The frame has started a transfer, or was the whole of it. *)
Taken(f) ==
    \/ ~f.eot /\ Begun(f)
    \/ f.eot /\ Single(f) /\ rx'.tid = NextTransferId(f.tid)

(* A first frame is taken, unless the state lets it be: on its own interface because it is   *)
(* in the middle of that transfer, on another one because it does not switch.           *)
LEMMA StartHeard ==
    ASSUME Types, RxOK, MemoryShort = FALSE, NEW f, IsFrame(f), HandleRxFrame(f), f.sot,
           rx # NoState /\ rx.iface = f.iface => ForwardDistance(rx.tid, f.tid) # 1
    PROVE  Taken(f) \/ (Ignored /\ rx # NoState /\ ~NeedRestart(rx, f, now))
<1>1. /\ f \in FrameType /\ now \in Nat /\ f.n \in DOMAIN sent /\ f.toggle = FALSE
      /\ f.tid \in TransferId
  BY ChosenProfile DEF IsFrame, FrameType
<1>2. HasState(f) /\ Synchronising(f)
  BY DEF HasState, Synchronising
<1>3. ASSUME Current(f).iface = f.iface, Current(f).tid = f.tid, Current(f).toggle = FALSE
      PROVE  Taken(f)
  <2>1. Current(f) \in StateType
    BY <1>1, <1>2, CurrentIs
  <2>2. SingleFrame(f) \/ StartTransfer(f)
    BY <1>1, <1>2, <1>3 DEF HandleRxFrame, MissedStart, NoMemoryForState, RestartInTheMiddle,
       OtherIface, Rejected, ContinueTransfer, StorageExhausted, EndTransfer
  <2>3. CASE SingleFrame(f)
    <3> DEFINE st == [Current(f) EXCEPT !.timestamp = now]
    <3>1. /\ st \in StateType /\ st.tid = f.tid
      BY <1>1, <1>3, <2>1 DEF StateType
    <3>2. rx' = PreparedForNext(st)
      BY <2>3 DEF SingleFrame
    <3> HIDE DEF st
    <3>3. rx'.tid = NextTransferId(f.tid)
      BY <3>1, <3>2, PreparedIs
    <3> QED
      BY <1>1, <2>3, <3>3, SingleOutcome DEF Single, Taken
  <2>4. CASE StartTransfer(f)
    <3>1. ~(f.sot /\ f.eot)
      BY <2>4 DEF StartTransfer, Accepted, OfMultiFrame
    <3> QED
      BY <1>1, <2>4, <3>1, StartOutcome DEF Taken
  <2> QED
    BY <2>2, <2>3, <2>4
<1>4. CASE NeedRestart(Session, f, now)
  <2>1. Current(f) = Restarted(Session, f)
    BY <1>1, <1>2, <1>4, CurrentIs
  <2>2. Current(f).iface = f.iface /\ Current(f).tid = f.tid /\ Current(f).toggle = FALSE
    BY <1>1, <2>1, SessionType, RestartedIs
  <2> QED
    BY <1>3, <2>2
<1>5. CASE ~NeedRestart(Session, f, now)
  <2>1. rx # NoState /\ Current(f) = rx /\ Session = rx /\ rx \in StateType
    BY <1>1, <1>2, <1>5, CurrentIs, SessionType DEF RxOK
  <2>2. CASE rx.iface # f.iface
    <3>1. OtherIface(f)
      BY <1>1, <1>2, <2>1, <2>2 DEF HandleRxFrame, MissedStart, NoMemoryForState,
         RestartInTheMiddle, Expected, SingleFrame, OfMultiFrame, Accepted, Rejected,
         StartTransfer, ContinueTransfer, StorageExhausted, EndTransfer
    <3> QED
      BY <1>5, <2>1, <3>1 DEF OtherIface, Ignored
  <2>3. CASE rx.iface = f.iface
    <3>1. Expected(f)
      BY <1>2, <2>1, <2>3 DEF Expected
    <3>2. rx.tid \in TransferId /\ rx.toggle \in BOOLEAN
      BY <2>1 DEF StateType
    <3>3. ForwardDistance(rx.tid, f.tid) \in Nat
      BY <1>1, <3>2, ForwardDistanceType, TidModAssumption DEF TransferId
    <3>4. rx.tid = f.tid
      <4>1. CASE Current(f).tid = f.tid
        BY <2>1, <4>1
      <4>2. CASE ForwardDistance(Current(f).tid, f.tid) <= 1
        <5>1. ForwardDistance(rx.tid, f.tid) = 0
          BY <2>1, <2>3, <3>3, <4>2
        <5> QED
          BY <1>1, <3>2, <5>1, DistanceSteps
      <4> QED
        BY <1>1, <3>1, <4>1, <4>2, StartFindsNoBlock
    <3>5. CASE rx.toggle = FALSE
      BY <1>3, <2>1, <2>3, <3>4, <3>5
    <3>6. CASE rx.toggle = TRUE /\ ~f.eot
      <4>1. Rejected(f) \/ OtherIface(f)
        BY <1>1, <1>2, <2>1, <3>6 DEF HandleRxFrame, MissedStart, NoMemoryForState,
           RestartInTheMiddle, SingleFrame, Accepted, StartTransfer, ContinueTransfer,
           StorageExhausted, EndTransfer
      <4>2. Ignored
        BY <1>1, <4>1, RejectedOutcome DEF OtherIface, Ignored
      <4> QED
        BY <1>5, <2>1, <4>2
    <3>7. CASE rx.toggle = TRUE /\ f.eot
      <4>1. SingleFrame(f)
        BY <1>1, <1>2, <2>1, <2>3, <3>7 DEF HandleRxFrame, MissedStart, NoMemoryForState,
           RestartInTheMiddle, OtherIface, Rejected, OfMultiFrame, Accepted, StartTransfer,
           ContinueTransfer, StorageExhausted, EndTransfer
      <4> DEFINE st == [rx EXCEPT !.timestamp = now]
      <4>2. st \in StateType /\ st.tid = f.tid
        BY <1>1, <2>1, <3>4 DEF StateType
      <4>3. rx' = PreparedForNext(st)
        BY <2>1, <4>1 DEF SingleFrame
      <4> HIDE DEF st
      <4>4. rx'.tid = NextTransferId(f.tid)
        BY <4>2, <4>3, PreparedIs
      <4> QED
        BY <1>1, <3>7, <4>1, <4>4, SingleOutcome DEF Taken
    <3> QED
      BY <3>2, <3>5, <3>6, <3>7
  <2> QED
    BY <2>2, <2>3
<1> QED
  BY <1>4, <1>5

LEMMA FailoverFacts ==
    ASSUME Failover
    PROVE  /\ Types /\ BusOK /\ RxOK
           /\ traffic.period \in Nat /\ traffic.delay \in Nat /\ wait \in Nat /\ now \in Nat
           /\ traffic.delay <= TransferTimeout
           /\ traffic.period > IfaceSwitchDelay + traffic.delay
           /\ Len(sent) \in Nat /\ DOMAIN sent = 1 .. Len(sent)
           /\ Half \in Nat /\ 1 < Half /\ Half + Half = TidMod
           /\ rx # NoState =>
                 /\ rx \in StateType /\ rx.timestamp \in Nat /\ rx.timestamp <= now
                 /\ rx.tid \in TransferId /\ rx.iface \in Ifaces
<1>1. Types /\ BusOK /\ RxOK
  BY DEF Failover, TypeInv
<1>2. /\ traffic.period \in Nat /\ traffic.delay \in Nat /\ now \in Nat
      /\ Len(sent) \in Nat /\ DOMAIN sent = 1 .. Len(sent)
  BY <1>1, ChosenProfile
<1>3. wait \in Nat /\ traffic.period > IfaceSwitchDelay + traffic.delay
  BY DEF Failover, Staggered, FailoverInv, Spaced
<1>4. traffic.delay <= TransferTimeout
  BY <1>1 DEF Failover, Steady, Types
<1>5. Half \in Nat /\ 1 < Half /\ Half + Half = TidMod
  BY TidModAssumption DEF Half
<1>6. rx # NoState => /\ rx \in StateType /\ rx.timestamp \in 1 .. now /\ rx.iface \in Ifaces
                      /\ rx.tid \in TransferId
  BY <1>1 DEF RxOK, StateType
<1> QED
  BY <1>1, <1>2, <1>3, <1>4, <1>5, <1>6

(* What comes next on a bus is of the newest transfer. *)
LEMMA NewestOnly ==
    ASSUME Failover, NEW i \in Ifaces
    PROVE  /\ \A e \in On(i) : e[1] = Len(sent) /\ e[1] \in DOMAIN sent
           /\ \A h, k : Position(i, h, k) /\ bus[i] # <<>> => h = Len(sent)
           /\ bus[i] # <<>> => \E k \in Nat : Position(i, Len(sent), k)
<1>1. \A e \in On(i) : e[1] = Len(sent) /\ e[1] \in DOMAIN sent
  BY FailoverFacts, OnType DEF Failover, FailoverInv, Spaced
<1>2. ASSUME NEW h, NEW k, Position(i, h, k), bus[i] # <<>>
      PROVE  h = Len(sent)
  <2>1. h \in DOMAIN sent /\ Head(bus[i])[1] = h
    BY <1>2, HeadAt DEF Failover
  <2>2. Head(bus[i]) \in On(i)
    BY <1>2, FailoverFacts, HeadIs
  <2> QED
    BY <1>1, <2>1, <2>2
<1>3. PICK h, k \in Nat : Position(i, h, k)
  BY DEF Failover, FailoverInv, Placed
<1>4. bus[i] # <<>> => \E k1 \in Nat : Position(i, Len(sent), k1)
  BY <1>2, <1>3
<1> QED
  BY <1>1, <1>2, <1>4

(* A state that is not half a ring behind finds the newest transfer ahead of it. *)
LEMMA AheadOfState ==
    ASSUME Failover, NEW n \in DOMAIN sent, NEW p \in 1 .. n, RightTid(p), n - p < Half
    PROVE  /\ NonWrappedTid(rx.tid, sent[n].tid)
           /\ ForwardDistance(rx.tid, sent[n].tid) # 1
           /\ ForwardDistance(rx.tid, sent[n].tid) = 0 => p = n
<1>0. /\ Len(sent) \in Nat /\ DOMAIN sent = 1 .. Len(sent) /\ Types
      /\ Half \in Nat /\ 1 < Half /\ Half + Half = TidMod
  BY FailoverFacts
<1>1. /\ n \in Nat /\ n \in 1 .. Len(sent) + 1 /\ p \in Nat /\ p <= n /\ p \in 1 .. Len(sent) + 1
      /\ Half \in Nat /\ 1 < Half /\ Half + Half = TidMod
  BY <1>0
<1>2. /\ TidOf(n) = sent[n].tid /\ TidOf(n) \in TransferId
      /\ rx.tid = TidOf(p) /\ TidOf(p) \in TransferId
  BY <1>0, <1>1, TidOfType DEF RightTid
<1>3. ForwardDistance(sent[n].tid, rx.tid) = n - p
  <2>1. n - p < TidMod
    BY <1>1
  <2> QED
    BY <1>1, <1>2, <2>1 DEF Failover, Paced
<1>4. NonWrappedTid(rx.tid, sent[n].tid)
  BY <1>3 DEF NonWrappedTid, Half
<1>5. CASE p = n
  <2>1. ForwardDistance(rx.tid, sent[n].tid) = 0
    BY <1>2, <1>5 DEF ForwardDistance, TransferId
  <2> QED
    BY <1>4, <1>5, <2>1
<1>6. CASE p # n
  <2>1. n - p >= 1
    BY <1>1, <1>6
  <2>2. ForwardDistance(rx.tid, sent[n].tid) = TidMod - (n - p)
    BY <1>2, <1>3, <2>1, RoundTheRing
  <2>3. TidMod - (n - p) > 1
    BY <1>1
  <2> QED
    BY <1>1, <1>4, <2>2, <2>3
<1> QED
  BY <1>5, <1>6

LEMMA NotHalfBehind ==
    ASSUME Failover, NEW p \in 1 .. Len(sent),
           \A m \in p + 1 .. Len(sent) - 1 : Cut(m)
    PROVE  Len(sent) - p < Half
<1>1. /\ Len(sent) \in Nat /\ p \in DOMAIN sent /\ p \in Nat /\ Half \in Nat
  BY FailoverFacts
<1>2. SUFFICES ASSUME p + Half <= Len(sent)
               PROVE  FALSE
  BY <1>1
<1>3. PICK m \in p + 1 .. p + Half - 1 : ~Cut(m)
  BY <1>1, <1>2 DEF Failover, NeverCutOff
<1>4. m \in p + 1 .. Len(sent) - 1
  BY <1>1, <1>2, <1>3
<1> QED
  BY <1>3, <1>4

-----------------------------------------------------------------------------
(* A frame is handled *)

Hears(i, n, k) ==
    /\ Failover /\ i \in Ifaces /\ n = Len(sent) /\ n \in Nat /\ k \in Nat /\ Position(i, n, k)
    /\ Hearing(i) /\ bus' = [bus EXCEPT ![i] = Tail(@)]
    /\ UNCHANGED wait

LEMMA HearsFacts ==
    ASSUME NEW i, NEW n, NEW k, Hears(i, n, k)
    PROVE  LET f == Frame(i)
           IN  /\ IsFrame(f) /\ f \in FrameType /\ f.n = n /\ f.iface = i
               /\ f.tid = sent[n].tid /\ f.tid \in TransferId
               /\ f.sot <=> k = 1
               /\ f.eot <=> k = sent[n].frames
               /\ f.toggle <=> k % 2 = 0
               /\ n \in DOMAIN sent /\ n >= 1 /\ k >= 1 /\ k <= sent[n].frames
               /\ sent[n].frames \in Nat
               /\ Outcome(f)
               /\ Head(bus[i]) \in On(i) /\ Head(bus[i])[1] = n /\ Head(bus[i])[2] = k
               /\ \A e \in On(i) : e = Head(bus[i]) \/ e \in On(i)'
               /\ \A e \in On(i)' : e \in On(i) /\ e[2] > k
               /\ \A l \in Ifaces : l # i => On(l)' = On(l)
               /\ \A l \in Ifaces : On(l)' \subseteq On(l)
               /\ Ifaces' = Ifaces
               /\ UNCHANGED <<traffic, now, nextTid, sent, gone>>
<1> DEFINE f == Frame(i)
           d == Head(bus[i])
<1>1. /\ Types /\ BusOK /\ RxOK /\ TypeInv /\ i \in Ifaces /\ Position(i, n, k) /\ n \in Nat /\ k \in Nat
      /\ bus[i] # <<>> /\ HandleRxFrame(f) /\ bus' = [bus EXCEPT ![i] = Tail(@)]
      /\ UNCHANGED <<traffic, now, nextTid, sent, gone>>
  BY DEF Hears, Failover, TypeInv, Hearing
<1>2. /\ IsFrame(f) /\ f.n = n /\ f.iface = i
      /\ f.tid = sent[n].tid /\ sent[n].tid \in TransferId
      /\ f.sot <=> k = 1
      /\ f.eot <=> k = sent[n].frames
      /\ f.toggle <=> k % 2 = 0
      /\ n \in DOMAIN sent /\ n >= 1 /\ k >= 1 /\ k <= sent[n].frames
      /\ sent[n].frames \in Nat
  BY <1>1, FrameAt
<1>3. Outcome(f) /\ f \in FrameType
  BY <1>1, <1>2, Handled DEF IsFrame
<1>4. d \in On(i) /\ d[1] = n /\ d[2] = k
  BY <1>1, <1>2, HeadAt, HeadIs
<1>5. /\ \A e \in On(i) : e = d \/ e \in On(i)'
      /\ \A e \in On(i)' : e \in On(i) /\ Precedes(d, e)
      /\ \A l \in Ifaces : l # i => On(l)' = On(l)
      /\ \A l \in Ifaces : On(l)' \subseteq On(l)
  BY <1>1, TailBus
<1>6. ASSUME NEW e \in On(i)'
      PROVE  e \in On(i) /\ e[2] > k
  <2>1. e \in On(i) /\ Precedes(d, e)
    BY <1>5, <1>6
  <2>2. e[1] = n
    BY <1>1, <2>1, NewestOnly DEF Hears
  <2>3. e[2] \in Nat
    BY <1>1, <2>1, OnType
  <2> QED
    BY <1>1, <1>4, <2>1, <2>2, <2>3 DEF Precedes
<1>7. Ifaces' = Ifaces
  BY <1>1 DEF Ifaces
<1> HIDE DEF f, d
<1>8. /\ IsFrame(f) /\ f \in FrameType /\ f.n = n /\ f.iface = i
      /\ f.tid = sent[n].tid /\ f.tid \in TransferId
      /\ f.sot <=> k = 1
      /\ f.eot <=> k = sent[n].frames
      /\ f.toggle <=> k % 2 = 0
      /\ n \in DOMAIN sent /\ n >= 1 /\ k >= 1 /\ k <= sent[n].frames
      /\ sent[n].frames \in Nat
      /\ Outcome(f)
  BY <1>2, <1>3
<1> QED
  BY <1>1, <1>4, <1>5, <1>6, <1>7, <1>8 DEF f, d

(* The first frame of the newest transfer, on whatever interface: taken, or nothing to a      *)
(* state that need not restart.                                                  *)
LEMMA HearsStart ==
    ASSUME NEW i, NEW n, NEW k, Hears(i, n, k), k = 1
    PROVE  \/ Taken(Frame(i))
           \/ /\ Ignored /\ rx # NoState /\ ~NeedRestart(rx, Frame(i), now)
              /\ \E p \in n .. n + 1 :
                    RightTid(p) /\ (p = n + 1 => ~StartToCome(rx.iface))
<1> DEFINE f == Frame(i)
<1>1. /\ IsFrame(f) /\ f.iface = i /\ f.tid = sent[n].tid /\ f.sot /\ f.tid \in TransferId
      /\ n \in DOMAIN sent /\ n \in Nat /\ n >= 1 /\ n = Len(sent) /\ i \in Ifaces
      /\ Head(bus[i]) \in On(i) /\ Head(bus[i])[2] = 1
      /\ Types /\ RxOK /\ Half \in Nat /\ HandleRxFrame(f) /\ MemoryShort = FALSE
  <2>1. /\ IsFrame(f) /\ f.iface = i /\ f.tid = sent[n].tid /\ f.sot /\ f.tid \in TransferId
        /\ n \in DOMAIN sent /\ n >= 1
        /\ Head(bus[i]) \in On(i) /\ Head(bus[i])[2] = 1
    BY HearsFacts
  <2>2. Failover /\ n \in Nat /\ n = Len(sent) /\ i \in Ifaces /\ HandleRxFrame(f)
    BY DEF Hears, Hearing
  <2>3. Types /\ RxOK /\ Half \in Nat
    BY <2>2, FailoverFacts
  <2>4. MemoryShort = FALSE
    BY <2>2 DEF Failover, Steady
  <2> QED
    BY <2>1, <2>2, <2>3, <2>4
<1>2. StartToCome(i)
  BY <1>1 DEF StartToCome
<1>3. rx # NoState => \E p \in 1 .. n + 1 :
         /\ RightTid(p)
         /\ \A m \in p + 1 .. n : \A l \in Ifaces :
               <<m, 1, l>> \in gone \/ (m = n /\ StartToCome(l))
         /\ p < n => now - rx.timestamp > IfaceSwitchDelay
         /\ p = n + 1 => ~StartToCome(rx.iface)
  BY <1>1 DEF Hears, Failover, FailoverInv, Near
<1>4. ASSUME NEW p \in 1 .. n, RightTid(p),
             \A m \in p + 1 .. n : \A l \in Ifaces :
                 <<m, 1, l>> \in gone \/ (m = n /\ StartToCome(l))
      PROVE  /\ NonWrappedTid(rx.tid, f.tid)
             /\ ForwardDistance(rx.tid, f.tid) # 1
  <2>1. \A m \in p + 1 .. n - 1 : m \in p + 1 .. n /\ m # n
    BY <1>1
  <2>2. ASSUME NEW m \in p + 1 .. n - 1
        PROVE  Cut(m)
    <3>1. m \in p + 1 .. n /\ m # n
      BY <2>1
    <3>2. \A l \in Ifaces : <<m, 1, l>> \in gone
      BY <1>4, <3>1
    <3> QED
      BY <3>2 DEF Cut
  <2>3. n - p < Half
    BY <1>1, <2>2, NotHalfBehind DEF Hears
  <2> QED
    BY <1>1, <1>4, <2>3, AheadOfState DEF Hears
<1> HIDE DEF f
<1>5. rx # NoState /\ rx.iface = f.iface => ForwardDistance(rx.tid, f.tid) # 1
  <2>1. SUFFICES ASSUME rx # NoState, rx.iface = i
                 PROVE  ForwardDistance(rx.tid, f.tid) # 1
    BY <1>1
  <2>2. PICK p \in 1 .. n + 1 :
           /\ RightTid(p)
           /\ \A m \in p + 1 .. n : \A l \in Ifaces :
                 <<m, 1, l>> \in gone \/ (m = n /\ StartToCome(l))
           /\ p = n + 1 => ~StartToCome(rx.iface)
    BY <1>3, <2>1
  <2>3. p \in 1 .. n
    BY <1>1, <1>2, <2>1, <2>2
  <2> QED
    BY <1>4, <2>2, <2>3
<1>6. Taken(f) \/ (Ignored /\ rx # NoState /\ ~NeedRestart(rx, f, now))
  BY <1>1, <1>5, StartHeard
<1>7. ASSUME Ignored, rx # NoState, ~NeedRestart(rx, f, now)
      PROVE  \E p \in n .. n + 1 :
                RightTid(p) /\ (p = n + 1 => ~StartToCome(rx.iface))
  <2>1. PICK p \in 1 .. n + 1 :
           /\ RightTid(p)
           /\ \A m \in p + 1 .. n : \A l \in Ifaces :
                 <<m, 1, l>> \in gone \/ (m = n /\ StartToCome(l))
           /\ p < n => now - rx.timestamp > IfaceSwitchDelay
           /\ p = n + 1 => ~StartToCome(rx.iface)
    BY <1>3, <1>7
  <2>2. ~(p < n)
    <3>1. SUFFICES ASSUME p < n PROVE FALSE
      OBVIOUS
    <3>2. p \in 1 .. n
      BY <1>1, <3>1
    <3>3. NonWrappedTid(rx.tid, f.tid)
      BY <1>4, <2>1, <3>2
    <3>4. IfaceSwitchAllowed(rx, now)
      BY <2>1, <3>1 DEF IfaceSwitchAllowed, OlderThan
    <3>5. NeedRestart(rx, f, now)
      BY <1>1, <3>3, <3>4 DEF NeedRestart
    <3> QED
      BY <1>7, <3>5
  <2>3. p \in n .. n + 1
    BY <1>1, <2>1, <2>2
  <2> QED
    BY <2>1, <2>3
<1> QED
  BY <1>6, <1>7 DEF f

(* Before anything of the transfer has been heard, whatever interface starts is taken. *)
LEMMA HearsFirst ==
    ASSUME NEW i, NEW n, NEW k, Hears(i, n, k), k = 1, Ready(n)
    PROVE  Taken(Frame(i))
<1> DEFINE f == Frame(i)
<1>1. /\ f.tid = sent[n].tid /\ f.sot /\ n \in DOMAIN sent /\ n = Len(sent) /\ Failover
  BY HearsFacts DEF Hears
<1> HIDE DEF f
<1>2. SUFFICES ASSUME rx # NoState, ~NeedRestart(rx, f, now)
               PROVE  FALSE
  BY HearsStart DEF f
<1>3. PICK p \in 1 .. n : RightTid(p) /\ \A m \in p + 1 .. n - 1 : Cut(m)
  BY <1>2 DEF Ready
<1>4. NonWrappedTid(rx.tid, f.tid)
  BY <1>1, <1>3, NotHalfBehind, AheadOfState
<1>5. IfaceSwitchAllowed(rx, now)
  BY <1>2 DEF Ready, IfaceSwitchAllowed, OlderThan
<1> QED
  BY <1>1, <1>2, <1>4, <1>5 DEF NeedRestart

LEMMA NearAfter ==
    ASSUME NEW i, NEW n, NEW k, Hears(i, n, k)
    PROVE  Near'
<1> DEFINE f == Frame(i)
<1>1. /\ f.tid = sent[n].tid /\ f.iface = i
      /\ f.sot <=> k = 1
      /\ n \in DOMAIN sent /\ n \in Nat /\ n >= 1 /\ k \in Nat /\ n = Len(sent) /\ i \in Ifaces
      /\ Outcome(f)
      /\ Head(bus[i])[2] = k
      /\ \A e \in On(i) : e = Head(bus[i]) \/ e \in On(i)'
      /\ \A e \in On(i)' : e \in On(i) /\ e[2] > k
      /\ \A l \in Ifaces : l # i => On(l)' = On(l)
      /\ \A l \in Ifaces : On(l)' \subseteq On(l)
      /\ Ifaces' = Ifaces /\ TypeInv /\ Paced /\ Position(i, n, k) /\ Hearing(i)
      /\ UNCHANGED <<now, nextTid, sent, gone>>
  <2>1. /\ f.tid = sent[n].tid /\ f.iface = i
        /\ f.sot <=> k = 1
        /\ n \in DOMAIN sent /\ n >= 1
        /\ Outcome(f)
        /\ Head(bus[i])[2] = k
        /\ \A e \in On(i) : e = Head(bus[i]) \/ e \in On(i)'
        /\ \A e \in On(i)' : e \in On(i) /\ e[2] > k
        /\ \A l \in Ifaces : l # i => On(l)' = On(l)
        /\ \A l \in Ifaces : On(l)' \subseteq On(l)
        /\ Ifaces' = Ifaces
        /\ UNCHANGED <<now, nextTid, sent, gone>>
    BY HearsFacts
  <2>2. /\ n \in Nat /\ k \in Nat /\ n = Len(sent) /\ i \in Ifaces
        /\ TypeInv /\ Paced /\ Position(i, n, k) /\ Hearing(i)
    BY DEF Hears, Failover
  <2> QED
    BY <2>1, <2>2
<1>2. k >= 1
  BY HearsFacts
<1>3. ~StartToCome(i)'
  <2>1. SUFFICES ASSUME NEW e \in On(i)' PROVE e[2] # 1
    BY DEF StartToCome
  <2> QED
    BY <1>1, <1>2
<1> HIDE DEF f
<1>4. SUFFICES ASSUME rx' # NoState
               PROVE  \E p \in 1 .. n + 1 :
                         /\ RightTid(p)'
                         /\ \A m \in p + 1 .. n : \A l \in Ifaces :
                               <<m, 1, l>> \in gone \/ (m = n /\ StartToCome(l)')
                         /\ p < n => now - rx'.timestamp > IfaceSwitchDelay
                         /\ p = n + 1 => ~StartToCome(rx.iface)'
  BY <1>1 DEF Near
<1>5. ASSUME rx'.tid = f.tid
      PROVE  \E p \in 1 .. n + 1 :
                /\ RightTid(p)'
                /\ \A m \in p + 1 .. n : \A l \in Ifaces :
                      <<m, 1, l>> \in gone \/ (m = n /\ StartToCome(l)')
                /\ p < n => now - rx'.timestamp > IfaceSwitchDelay
                /\ p = n + 1 => ~StartToCome(rx.iface)'
  <2>1. RightTid(n)'
    BY <1>1, <1>5 DEF RightTid, TidOf
  <2>2. n \in 1 .. n + 1 /\ ~(n < n) /\ n # n + 1 /\ \A m \in n + 1 .. n : FALSE
    BY <1>1
  <2> QED
    BY <2>1, <2>2
<1>6. ASSUME rx'.tid = NextTransferId(f.tid), rx'.iface = i
      PROVE  \E p \in 1 .. n + 1 :
                /\ RightTid(p)'
                /\ \A m \in p + 1 .. n : \A l \in Ifaces :
                      <<m, 1, l>> \in gone \/ (m = n /\ StartToCome(l)')
                /\ p < n => now - rx'.timestamp > IfaceSwitchDelay
                /\ p = n + 1 => ~StartToCome(rx.iface)'
  <2>1. RightTid(n + 1)'
    BY <1>1, <1>6, GoesOn DEF f
  <2>2. n + 1 \in 1 .. n + 1 /\ ~(n + 1 < n) /\ \A m \in (n + 1) + 1 .. n : FALSE
    BY <1>1
  <2>3. ~StartToCome(rx.iface)'
    BY <1>3, <1>6 DEF StartToCome, On
  <2> QED
    BY <2>1, <2>2, <2>3
<1>7. ASSUME Ignored, rx # NoState,
             NEW p \in 1 .. n + 1, RightTid(p), p = n + 1 => ~StartToCome(rx.iface),
             p < n => /\ now - rx.timestamp > IfaceSwitchDelay
                      /\ k # 1
                      /\ \A m \in p + 1 .. n : \A l \in Ifaces :
                            <<m, 1, l>> \in gone \/ (m = n /\ StartToCome(l))
      PROVE  \E q \in 1 .. n + 1 :
                /\ RightTid(q)'
                /\ \A m \in q + 1 .. n : \A l \in Ifaces :
                      <<m, 1, l>> \in gone \/ (m = n /\ StartToCome(l)')
                /\ q < n => now - rx'.timestamp > IfaceSwitchDelay
                /\ q = n + 1 => ~StartToCome(rx.iface)'
  <2>1. rx' = rx
    BY <1>7 DEF Ignored
  <2>2. RightTid(p)'
    BY <1>1, <1>7, <2>1 DEF RightTid, TidOf
  <2>3. rx.iface \in Ifaces
    BY <1>1, <1>7 DEF TypeInv, RxOK
  <2>4. p = n + 1 => ~StartToCome(rx.iface)'
    <3>1. On(rx.iface)' \subseteq On(rx.iface)
      <4>1. PICK l \in Ifaces : l = rx.iface
        BY <2>3
      <4>2. On(l)' \subseteq On(l)
        BY <1>1
      <4>3. On(rx.iface)' = {bus'[l][j] : j \in DOMAIN bus'[l]} /\ On(rx.iface) = On(l)
        BY <2>1, <4>1 DEF On
      <4>4. On(l)' = {bus'[l][j] : j \in DOMAIN bus'[l]}
        BY DEF On
      <4> QED
        BY <4>2, <4>3, <4>4
    <3> QED
      BY <1>7, <3>1 DEF StartToCome
  <2>5. ASSUME p < n, NEW m \in p + 1 .. n, NEW l \in Ifaces
        PROVE  <<m, 1, l>> \in gone \/ (m = n /\ StartToCome(l)')
    <3>1. k # 1 /\ (<<m, 1, l>> \in gone \/ (m = n /\ StartToCome(l)))
      BY <1>7, <2>5
    <3>2. StartToCome(l) => StartToCome(l)'
      <4>1. CASE l # i
        BY <1>1, <4>1 DEF StartToCome
      <4>2. CASE l = i
        BY <1>1, <3>1, <4>2 DEF StartToCome
      <4> QED
        BY <4>1, <4>2
    <3> QED
      BY <3>1, <3>2
  <2>6. ~(p < n) => \A m \in p + 1 .. n : FALSE
    BY <1>1
  <2>7. p < n => now - rx'.timestamp > IfaceSwitchDelay
    BY <1>7, <2>1
  <2> QED
    BY <2>2, <2>4, <2>5, <2>6, <2>7
<1>8. CASE Ignored
  <2>1. rx # NoState
    BY <1>4, <1>8 DEF Ignored
  <2>2. CASE k = 1
    <3>1. Taken(f) => \/ rx'.tid = f.tid
                      \/ rx'.tid = NextTransferId(f.tid) /\ rx'.iface = i
      BY <1>1 DEF Taken, Begun, Single
    <3>2. ASSUME ~Taken(f)
          PROVE  \E p \in n .. n + 1 :
                    RightTid(p) /\ (p = n + 1 => ~StartToCome(rx.iface))
      BY <2>2, <3>2, HearsStart DEF f
    <3>3. ASSUME ~Taken(f)
          PROVE  \E p \in 1 .. n + 1 :
                    RightTid(p) /\ (p = n + 1 => ~StartToCome(rx.iface)) /\ ~(p < n)
      <4>1. PICK p \in n .. n + 1 :
                    RightTid(p) /\ (p = n + 1 => ~StartToCome(rx.iface))
        BY <3>2, <3>3
      <4>2. p \in 1 .. n + 1 /\ ~(p < n)
        BY <1>1
      <4> QED
        BY <4>1, <4>2
    <3> QED
      BY <1>5, <1>6, <1>7, <1>8, <2>1, <3>1, <3>3
  <2>3. CASE k # 1
    <3>1. PICK p \in 1 .. n + 1 :
             /\ RightTid(p)
             /\ \A m \in p + 1 .. n : \A l \in Ifaces :
                   <<m, 1, l>> \in gone \/ (m = n /\ StartToCome(l))
             /\ p < n => now - rx.timestamp > IfaceSwitchDelay
             /\ p = n + 1 => ~StartToCome(rx.iface)
      BY <1>1, <2>1 DEF Hears, Failover, FailoverInv, Near
    <3> QED
      BY <1>7, <1>8, <2>1, <2>3, <3>1
  <2> QED
    BY <2>2, <2>3
<1>9. CASE Skipped(f)
  BY <1>1, <1>6, <1>9 DEF Skipped
<1>10. CASE GivenUp(f) \/ Ended(f)
  BY <1>1, <1>6, <1>10 DEF GivenUp, Ended, Wanted
<1>11. CASE Begun(f)
  BY <1>1, <1>5, <1>11 DEF Begun
<1>12. CASE Continued(f)
  BY <1>1, <1>5, <1>12 DEF Continued, Wanted
<1>13. CASE Single(f)
  <2>1. k = 1 /\ rx'.iface = i /\ rx'.timestamp = now /\ f.eot
    BY <1>1, <1>13 DEF Single
  <2>2. CASE Taken(f)
    BY <1>6, <2>1, <2>2 DEF Taken
  <2>3. CASE ~Taken(f)
    BY <1>8, <2>1, <2>3, HearsStart DEF f
  <2> QED
    BY <2>2, <2>3
<1> QED
  BY <1>1, <1>8, <1>9, <1>10, <1>11, <1>12, <1>13 DEF Outcome

LEMMA SpacedAfter ==
    ASSUME NEW i, NEW n, NEW k, Hears(i, n, k)
    PROVE  Spaced' /\ Placed' /\ LostIsOff' /\ Past'
<1>1. /\ Failover /\ i \in Ifaces /\ n = Len(sent) /\ Position(i, n, k) /\ bus[i] # <<>>
      /\ bus' = [bus EXCEPT ![i] = Tail(@)] /\ UNCHANGED wait /\ k \in Nat /\ n \in Nat
  BY DEF Hears, Hearing
<1>2. /\ \A l \in Ifaces : On(l)' \subseteq On(l)
      /\ \A l \in Ifaces : l # i => On(l)' = On(l)
      /\ Ifaces' = Ifaces /\ UNCHANGED <<traffic, now, sent, gone>>
      /\ n \in DOMAIN sent /\ sent[n].frames \in Nat /\ k <= sent[n].frames
      /\ Outcome(Frame(i))
      /\ Head(bus[i]) \in On(i)
  BY HearsFacts
<1>3. /\ Spaced /\ Placed /\ LostIsOff /\ Past /\ TypeInv
      /\ traffic.delay \in Nat /\ now \in Nat /\ wait \in Nat /\ traffic.period \in Nat
      /\ rx # NoState => rx.timestamp \in Nat
  BY <1>1, FailoverFacts DEF Failover, FailoverInv
<1>4. Spaced'
  <2>1. rx' # NoState => rx'.timestamp = now \/ (rx # NoState /\ rx'.timestamp = rx.timestamp)
    BY <1>2 DEF Outcome, Ignored, Skipped, Single, Begun, Continued, GivenUp, Ended, Wanted
  <2>2. traffic.period <= wait + traffic.delay
    <3>1. /\ Head(bus[i])[3] \in Nat /\ now - Head(bus[i])[3] <= traffic.delay
          /\ traffic.period <= wait + (now - Head(bus[i])[3])
      <4> DEFINE d == Head(bus[i])
      <4>1. d \in On(i)
        BY <1>2
      <4> HIDE DEF d
      <4>2. d[3] \in 1 .. now
        BY <1>1, <1>3, <4>1, OnType DEF TypeInv
      <4>3. now - d[3] <= traffic.delay /\ traffic.period <= wait + (now - d[3])
        BY <1>1, <1>3, <4>1 DEF Spaced
      <4> QED
        BY <4>2, <4>3 DEF d
    <3> QED
      BY <1>3, <3>1
  <2>3. rx' # NoState => traffic.period <= wait + (now - rx'.timestamp) + traffic.delay
    <3>1. CASE rx' # NoState /\ rx'.timestamp = now
      BY <1>3, <2>2, <3>1
    <3>2. CASE rx # NoState /\ rx'.timestamp = rx.timestamp
      BY <1>3, <3>2 DEF Spaced
    <3> QED
      BY <2>1, <3>1, <3>2
  <2>4. \A l \in Ifaces : \A e \in On(l)' :
          /\ e[1] = Len(sent)
          /\ now - e[3] <= traffic.delay
          /\ traffic.period <= wait + (now - e[3])
    BY <1>2, <1>3 DEF Spaced
  <2>5. wait' = wait /\ wait \in Nat
    BY <1>1, <1>3
  <2> QED
    BY <1>2, <2>3, <2>4, <2>5 DEF Spaced
<1>5. Placed'
  <2>1. ASSUME NEW l \in Ifaces
        PROVE  \E h, c \in Nat : Position(l, h, c)'
    <3>1. CASE l = i
      <4>1. PICK g, c \in Nat : g = n + 1 /\ c = k + 1
        BY <1>1
      <4>2. /\ k < sent[n].frames => Position(i, n, c)'
            /\ k = sent[n].frames => Position(i, g, 1)'
        BY <1>1, <1>2, <1>3, <4>1, MovesOn
      <4>3. k < sent[n].frames \/ k = sent[n].frames
        BY <1>1, <1>2
      <4> QED
        BY <1>1, <3>1, <4>2, <4>3
    <3>2. CASE l # i
      <4>1. PICK h, c \in Nat : Position(l, h, c)
        BY <1>3 DEF Placed
      <4> QED
        BY <1>2, <3>2, <4>1, PositionKept
    <3> QED
      BY <3>1, <3>2
  <2> QED
    BY <1>2, <2>1 DEF Placed
<1>6. LostIsOff'
  BY <1>2, <1>3 DEF LostIsOff
<1>7. Past'
  <2>1. \A m : Carried(m)' <=> Carried(m)
    BY <1>2 DEF Carried, Missed, AllLost
  <2>2. \A m : Delivered(m) => Delivered(m)'
    BY <1>2, <1>3, DeliveredKept
  <2> QED
    BY <1>2, <1>3, <2>1, <2>2 DEF Past
<1> QED
  BY <1>4, <1>5, <1>6, <1>7

(* A frame that the newest transfer's follower takes, or a start that is taken. *)
LEMMA FollowsStart ==
    ASSUME NEW i, NEW n, NEW k, Hears(i, n, k), Taken(Frame(i)), ~Missed(i, n)
    PROVE  Delivered(n)' \/ \E l \in Ifaces', c \in Nat : Following(l, n, c)'
<1> DEFINE f == Frame(i)
<1>1. /\ TypeInv /\ i \in Ifaces /\ n \in Nat /\ k \in Nat /\ Position(i, n, k) /\ Hearing(i)
      /\ bus[i] # <<>> /\ bus' = [bus EXCEPT ![i] = Tail(@)] /\ Failover
  BY DEF Hears, Failover, Hearing
<1>2. /\ f.n = n /\ f.iface = i
      /\ f.sot <=> k = 1
      /\ Ifaces' = Ifaces /\ UNCHANGED <<traffic, now, nextTid, sent, gone>>
  BY HearsFacts
<1>3. k = 1
  BY <1>2 DEF Taken, Begun, Single
<1>4. CASE Begun(f)
  <2>1. InSync(i, n, 1)' /\ 1 < sent[n].frames
    BY <1>1, <1>3, <1>4, BeginsInSync
  <2>2. Position(i, n, 1 + 1)'
    BY <1>1, <1>2, <1>3, <2>1, MovesOn
  <2>3. rx'.iface = i
    BY <1>2, <1>4 DEF Begun
  <2>4. ~Missed(i, n)'
    BY <1>2 DEF Missed
  <2>5. Following(i, n, 1)'
    BY <2>1, <2>2, <2>3, <2>4 DEF Following
  <2> QED
    BY <1>1, <1>2, <2>5
<1>5. CASE Single(f)
  <2>1. delivered' = Append(delivered, Transfer(f, <<f.chunk>>, now))
    BY <1>5 DEF Single
  <2>2. Transfer(f, <<f.chunk>>, now).n = n
    BY <1>2 DEF Transfer
  <2> QED
    BY <1>1, <2>1, <2>2, DeliveredAfter DEF TypeInv
<1> QED
  BY <1>4, <1>5 DEF Taken

LEMMA FollowsOn ==
    ASSUME NEW i, NEW n, NEW k, Hears(i, n, k), ~Missed(i, n),
           NEW l \in Ifaces, NEW c \in Nat, Following(l, n, c)
    PROVE  Delivered(n)' \/ \E q \in Ifaces', d \in Nat : Following(q, n, d)'
<1> DEFINE f == Frame(i)
<1>1. /\ TypeInv /\ Types /\ RxOK /\ i \in Ifaces /\ n \in Nat /\ k \in Nat
      /\ Position(i, n, k) /\ Hearing(i) /\ HandleRxFrame(f) /\ Paced
      /\ bus[i] # <<>> /\ bus' = [bus EXCEPT ![i] = Tail(@)] /\ Failover /\ MemoryShort = FALSE
  BY DEF Hears, Failover, Hearing, TypeInv, Steady
<1>2. /\ IsFrame(f) /\ f \in FrameType /\ f.n = n /\ f.iface = i
      /\ f.tid = sent[n].tid
      /\ f.sot <=> k = 1
      /\ f.eot <=> k = sent[n].frames
      /\ f.toggle <=> k % 2 = 0
      /\ n \in DOMAIN sent /\ k >= 1 /\ k <= sent[n].frames /\ sent[n].frames \in Nat
      /\ Outcome(f)
      /\ \A m \in Ifaces : m # i => On(m)' = On(m)
      /\ Ifaces' = Ifaces /\ UNCHANGED <<traffic, now, nextTid, sent, gone>>
  BY HearsFacts
<1>3. /\ rx # NoState /\ rx.iface = l /\ InSync(l, n, c) /\ ~Missed(l, n) /\ Position(l, n, c + 1)
      /\ rx.tid = sent[n].tid /\ rx.toggle = (c % 2 = 1) /\ c \in 1 .. sent[n].frames - 1
  BY DEF Following, InSync
<1>4. ~TidTimedOut(rx, now)
  <2>1. bus[l] # <<>>
    BY <1>1, <1>2, <1>3, HeadAt
  <2>2. traffic.delay <= TransferTimeout /\ Young(l)
    BY <1>1, FailoverFacts DEF Failover, FailoverInv, Spaced, Young
  <2> QED
    BY <1>1, <1>3, <2>1, <2>2, NotStale
<1>5. CASE l = i
  <2>1. k = c + 1
    BY <1>1, <1>2, <1>3, <1>5, HeadAt
  <2>2. k - 1 = c /\ k # 1 /\ ~f.sot
    BY <1>2, <1>3, <2>1
  <2>3. InSync(i, n, k - 1)
    BY <1>3, <1>5, <2>2
  <2>4. rx.toggle = f.toggle
    <3>1. (c % 2 = 1) <=> (k % 2 = 0)
      BY <1>2, <1>3, <2>1
    <3>2. f.toggle \in BOOLEAN /\ rx.toggle \in BOOLEAN
      BY <1>1, <1>2, <1>3 DEF FrameType, RxOK, StateType
    <3> QED
      BY <1>2, <1>3, <3>1, <3>2
  <2>5. (~f.eot /\ Continued(f)) \/ (f.eot /\ Ended(f))
    <3>1. Types /\ RxOK /\ MemoryShort = FALSE /\ HandleRxFrame(f)
      BY <1>1
    <3>2. IsFrame(f) /\ ~f.sot /\ rx # NoState /\ rx.iface = f.iface /\ rx.tid = f.tid
      BY <1>2, <1>3, <1>5, <2>2
    <3> HIDE DEF f
    <3> QED
      BY <1>4, <2>4, <3>1, <3>2, LaterTaken
  <2>6. CASE Continued(f)
    <3>1. InSync(i, n, k)' /\ k < sent[n].frames
      BY <1>1, <2>3, <2>6, ContinuesInSync
    <3>2. Position(i, n, k + 1)'
      BY <1>1, <1>2, <3>1, MovesOn
    <3>3. rx'.iface = i
      BY <1>3, <1>5, <2>6 DEF Continued
    <3>4. ~Missed(i, n)'
      BY <1>2 DEF Missed
    <3>5. Following(i, n, k)'
      BY <3>1, <3>2, <3>3, <3>4 DEF Following
    <3> QED
      BY <1>1, <1>2, <3>5
  <2>7. CASE Ended(f)
    BY <1>1, <2>3, <2>7, EndsWhole
  <2> QED
    BY <2>5, <2>6, <2>7
<1>6. CASE l # i
  <2>1. Ignored \/ Single(f) \/ Begun(f)
    BY <1>2, <1>3, <1>4, <1>6 DEF Outcome, Skipped, Continued, GivenUp, Ended, Wanted
  <2>2. CASE Ignored
    <3>1. UNCHANGED <<sent, rx, stored>> /\ On(l)' = On(l)
      BY <1>2, <1>6, <2>2 DEF Ignored
    <3>2. InSync(l, n, c)'
      BY <1>3, <3>1, InSyncKept
    <3>3. PICK d \in Nat : d = c + 1
      OBVIOUS
    <3>4. Position(l, n, d)'
      BY <1>3, <3>1, <3>3, PositionKept
    <3>5. Position(l, n, c + 1)'
      BY <3>3, <3>4 DEF Position
    <3>6. ~Missed(l, n)' /\ rx'.iface = l
      BY <1>2, <1>3, <3>1 DEF Missed
    <3>7. Following(l, n, c)'
      BY <3>2, <3>5, <3>6 DEF Following
    <3> QED
      BY <1>2, <3>7
  <2>3. CASE Single(f)
    <3>1. k = 1 /\ k = sent[n].frames
      BY <1>2, <2>3 DEF Single
    <3> QED
      BY <1>3, <3>1
  <2>4. CASE Begun(f)
    <3>1. Taken(f)
      BY <2>4 DEF Taken, Begun
    <3> QED
      BY <3>1, FollowsStart
  <2> QED
    BY <2>1, <2>2, <2>3, <2>4
<1> QED
  BY <1>5, <1>6

LEMMA ProgressAfter ==
    ASSUME NEW i, NEW n, NEW k, Hears(i, n, k)
    PROVE  Progress(n)'
<1>1. /\ Failover /\ TypeInv /\ i \in Ifaces /\ n \in Nat /\ k \in Nat /\ n = Len(sent)
      /\ bus[i] # <<>>
  BY DEF Hears, Failover, Hearing
<1>2. /\ n \in DOMAIN sent /\ k >= 1 /\ k <= sent[n].frames /\ sent[n].frames \in Nat
      /\ Outcome(Frame(i))
      /\ Head(bus[i]) \in On(i) /\ Head(bus[i])[1] = n /\ Head(bus[i])[2] = k
      /\ \A e \in On(i)' : e \in On(i) /\ e[2] > k
      /\ \A l \in Ifaces : On(l)' \subseteq On(l)
      /\ Ifaces' = Ifaces /\ UNCHANGED <<traffic, now, nextTid, sent, gone>>
  BY HearsFacts
<1>3. Progress(n)
  BY <1>1, <1>2 DEF Failover, FailoverInv
<1>4. ~Unheard(i, n)'
  <2>1. <<n, k, i>> \notin gone
    BY <1>1, <1>2 DEF Failover, FailoverInv, LostIsOff
  <2>2. k \in 1 .. sent[n].frames
    BY <1>1, <1>2
  <2>3. ~\E e \in On(i)' : e[1] = n /\ e[2] = k
    BY <1>1, <1>2
  <2> QED
    BY <1>2, <2>1, <2>2, <2>3 DEF Unheard
<1>5. ~Untouched(n)'
  BY <1>1, <1>2, <1>4 DEF Untouched
<1>6. SUFFICES ASSUME Hopeful(n)'
               PROVE  Delivered(n)' \/ \E l \in Ifaces', c \in Nat : Following(l, n, c)'
  BY <1>5 DEF Progress
<1>7. ~Missed(i, n)
  BY <1>1, <1>2, <1>4, <1>6 DEF Hopeful, Missed
<1>8. Hopeful(n)
  <2>1. \A l \in Ifaces : Unheard(l, n)' => Unheard(l, n)
    BY <1>2 DEF Unheard
  <2>2. \A l \in Ifaces : Missed(l, n)' <=> Missed(l, n)
    BY <1>2 DEF Missed
  <2> QED
    BY <1>2, <1>6, <2>1, <2>2 DEF Hopeful
<1>9. CASE Untouched(n)
  <2>1. k = 1
    <3>1. 1 \in 1 .. sent[n].frames
      BY <1>1, <1>2
    <3>2. PICK e \in On(i) : e[1] = n /\ e[2] = 1
      BY <1>1, <1>7, <1>9, <3>1 DEF Untouched, Unheard, Missed
    <3>3. e = Head(bus[i]) \/ Precedes(Head(bus[i]), e)
      BY <1>1, <3>2, HeadIs DEF TypeInv
    <3> QED
      BY <1>1, <1>2, <3>2, <3>3 DEF Precedes
  <2>2. Ready(n)
    BY <1>3, <1>9 DEF Progress
  <2>3. Taken(Frame(i))
    BY <2>1, <2>2, HearsFirst
  <2> QED
    BY <1>7, <2>3, FollowsStart
<1>10. CASE ~Untouched(n)
  <2>1. CASE Delivered(n)
    BY <1>1, <1>2, <2>1, DeliveredKept
  <2>2. CASE \E l \in Ifaces, c \in Nat : Following(l, n, c)
    BY <1>7, <2>2, FollowsOn
  <2> QED
    BY <1>3, <1>8, <1>10, <2>1, <2>2 DEF Progress
<1> QED
  BY <1>9, <1>10

-----------------------------------------------------------------------------
(* The other steps *)

LEMMA FailoverReceive ==
    ASSUME Failover, NEW i \in Ifaces, Receive(i)
    PROVE  FailoverInv'
<1>1. /\ bus[i] # <<>> /\ HandleRxFrame(Frame(i)) /\ bus' = [bus EXCEPT ![i] = Tail(@)]
      /\ UNCHANGED <<traffic, now, nextTid, wait, sent, gone, budget>>
  BY DEF Receive
<1>2. On(i)' \subseteq On(i)
  BY <1>1, FailoverFacts, TailBus
<1>3. PICK n \in Nat : n = Len(sent)
  <2>1. Len(sent) \in Nat
    BY FailoverFacts
  <2> QED
    BY <2>1
<1>4. PICK k \in Nat : Position(i, n, k)
  BY <1>1, <1>3, NewestOnly
<1>5. Hears(i, n, k)
  BY <1>1, <1>2, <1>3, <1>4 DEF Hears, Hearing
<1>6. Spaced' /\ Placed' /\ LostIsOff' /\ Past' /\ Near' /\ Progress(n)'
  BY <1>5, SpacedAfter, NearAfter, ProgressAfter
<1>7. Len(sent') = n
  BY <1>1, <1>3
<1> QED
  BY <1>6, <1>7 DEF FailoverInv

(* Frame k of the newest transfer is lost. *)
LEMMA FailoverLose ==
    ASSUME Failover, NEW i \in Ifaces, Lose(i)
    PROVE  FailoverInv'
<1>1. /\ bus[i] # <<>> /\ bus' = [bus EXCEPT ![i] = Tail(@)]
      /\ gone' = gone \cup {<<Head(bus[i])[1], Head(bus[i])[2], i>>}
      /\ UNCHANGED <<traffic, now, nextTid, wait, sent, rx, stored, delivered>>
  BY DEF Lose
<1>2. PICK n \in Nat : n = Len(sent)
  <2>1. Len(sent) \in Nat
    BY FailoverFacts
  <2> QED
    BY <2>1
<1>3. PICK k \in Nat : Position(i, n, k)
  BY <1>1, <1>2, NewestOnly
<1>4. /\ TypeInv /\ Types /\ BusOK /\ RxOK
      /\ Spaced /\ Placed /\ LostIsOff /\ Near /\ Past
  BY DEF Failover, FailoverInv, TypeInv
<1>5. /\ Head(bus[i])[1] = n /\ Head(bus[i])[2] = k /\ n \in DOMAIN sent
      /\ k >= 1 /\ k <= sent[n].frames /\ sent[n].frames \in Nat
      /\ Head(bus[i]) \in On(i)
  <2>1. n \in DOMAIN sent /\ Head(bus[i])[1] = n /\ Head(bus[i])[2] = k
    BY <1>1, <1>3, <1>4, FrameAt, HeadAt
  <2>2. k >= 1 /\ k <= sent[n].frames /\ sent[n].frames \in Nat
    BY <1>1, <1>3, <1>4, FrameAt
  <2>3. Head(bus[i]) \in On(i)
    BY <1>1, <1>4, HeadIs
  <2> QED
    BY <2>1, <2>2, <2>3
<1>6. /\ \A e \in On(i) : e = Head(bus[i]) \/ e \in On(i)'
      /\ \A e \in On(i)' : e \in On(i) /\ Precedes(Head(bus[i]), e)
      /\ \A l \in Ifaces : l # i => On(l)' = On(l)
      /\ \A l \in Ifaces : On(l)' \subseteq On(l)
      /\ Ifaces' = Ifaces
  BY <1>1, <1>4, TailBus DEF Ifaces
<1>7. \A e \in On(i)' : e[1] = n /\ e[2] # k
  <2>1. SUFFICES ASSUME NEW e \in On(i)'
                 PROVE  e[1] = n /\ e[2] # k
    OBVIOUS
  <2>2. e[1] = n /\ e[2] \in Nat /\ Precedes(Head(bus[i]), e)
    BY <1>2, <1>4, <1>6, NewestOnly, OnType
  <2> QED
    BY <1>5, <2>2 DEF Precedes
<1>8. gone' = gone \cup {<<n, k, i>>}
  BY <1>1, <1>5
<1>9. Spaced'
  BY <1>1, <1>4, <1>6 DEF Spaced
<1>10. Placed'
  <2>1. ASSUME NEW l \in Ifaces
        PROVE  \E h, c \in Nat : Position(l, h, c)'
    <3>1. CASE l = i
      <4>1. PICK g, c \in Nat : g = n + 1 /\ c = k + 1
        OBVIOUS
      <4>2. /\ k < sent[n].frames => Position(i, n, c)'
            /\ k = sent[n].frames => Position(i, g, 1)'
        BY <1>1, <1>3, <1>4, <4>1, MovesOn
      <4>3. k < sent[n].frames \/ k = sent[n].frames
        BY <1>5
      <4> QED
        BY <3>1, <4>2, <4>3
    <3>2. CASE l # i
      <4>1. PICK h, c \in Nat : Position(l, h, c)
        BY <1>4 DEF Placed
      <4> QED
        BY <1>1, <1>6, <3>2, <4>1, PositionKept
    <3> QED
      BY <3>1, <3>2
  <2> QED
    BY <1>6, <2>1 DEF Placed
<1>11. LostIsOff'
  <2>1. ASSUME NEW l \in Ifaces, NEW m \in Nat, NEW q \in Nat, <<m, q, l>> \in gone'
        PROVE  m \in DOMAIN sent /\ \A e \in On(l)' : ~(e[1] = m /\ e[2] = q)
    <3>1. CASE <<m, q, l>> \in gone
      BY <1>4, <1>6, <3>1 DEF LostIsOff
    <3>2. CASE m = n /\ q = k /\ l = i
      BY <1>5, <1>7, <3>2
    <3> QED
      BY <1>8, <2>1, <3>1, <3>2
  <2> QED
    BY <1>1, <1>6, <2>1 DEF LostIsOff
<1>12. Near'
  <2>1. SUFFICES ASSUME rx # NoState
                 PROVE  \E p \in 1 .. n + 1 :
                           /\ RightTid(p)'
                           /\ \A m \in p + 1 .. n : \A l \in Ifaces :
                                 <<m, 1, l>> \in gone' \/ (m = n /\ StartToCome(l)')
                           /\ p < n => now - rx.timestamp > IfaceSwitchDelay
                           /\ p = n + 1 => ~StartToCome(rx.iface)'
    BY <1>1, <1>2, <1>6 DEF Near
  <2>2. PICK p \in 1 .. n + 1 :
           /\ RightTid(p)
           /\ \A m \in p + 1 .. n : \A l \in Ifaces :
                 <<m, 1, l>> \in gone \/ (m = n /\ StartToCome(l))
           /\ p < n => now - rx.timestamp > IfaceSwitchDelay
           /\ p = n + 1 => ~StartToCome(rx.iface)
    BY <1>2, <1>4, <2>1 DEF Near
  <2>3. RightTid(p)'
    BY <1>1, <2>2 DEF RightTid, TidOf
  <2>4. ~StartToCome(rx.iface) => ~StartToCome(rx.iface)'
    <3>1. PICK l \in Ifaces : l = rx.iface
      BY <1>4, <2>1 DEF RxOK
    <3>2. rx'.iface = l
      BY <1>1, <3>1
    <3>3. On(rx.iface)' = On(l)' /\ On(rx.iface) = On(l)
      BY <3>1, <3>2 DEF On
    <3>4. On(l)' \subseteq On(l)
      BY <1>6
    <3> QED
      BY <3>3, <3>4 DEF StartToCome
  <2>5. ASSUME NEW m \in p + 1 .. n, NEW l \in Ifaces
        PROVE  <<m, 1, l>> \in gone' \/ (m = n /\ StartToCome(l)')
    <3>1. <<m, 1, l>> \in gone \/ (m = n /\ StartToCome(l))
      BY <2>2, <2>5
    <3>2. CASE <<m, 1, l>> \in gone
      BY <1>8, <3>2
    <3>3. CASE m = n /\ StartToCome(l) /\ l # i
      BY <1>6, <3>3 DEF StartToCome
    <3>4. CASE m = n /\ StartToCome(l) /\ l = i
      <4>1. PICK e \in On(i) : e[2] = 1
        BY <3>4 DEF StartToCome
      <4>2. CASE e = Head(bus[i])
        BY <1>5, <1>8, <3>4, <4>1, <4>2
      <4>3. CASE e \in On(i)'
        BY <3>4, <4>1, <4>3 DEF StartToCome
      <4> QED
        BY <1>6, <4>2, <4>3
    <3> QED
      BY <3>1, <3>2, <3>3, <3>4
  <2> QED
    BY <2>2, <2>3, <2>4, <2>5
<1>13. Past'
  <2>1. ASSUME NEW m \in DOMAIN sent, m # n
        PROVE  Carried(m)' => Carried(m)
    <3>1. \A q, l : <<m, q, l>> \in gone' <=> <<m, q, l>> \in gone
      BY <1>8, <2>1
    <3> QED
      BY <1>1, <1>6, <3>1 DEF Carried, Missed, AllLost
  <2>2. \A m : Delivered(m) => Delivered(m)'
    BY <1>1 DEF Delivered
  <2> QED
    BY <1>1, <1>2, <1>4, <2>1, <2>2 DEF Past
<1>14. Progress(n)'
  <2>1. Progress(n)
    BY <1>2, <1>5 DEF Failover, FailoverInv
  <2>2. ASSUME NEW l \in Ifaces
        PROVE  Unheard(l, n)' <=> Unheard(l, n)
    <3>1. CASE l # i
      <4>1. On(l)' = On(l) /\ \A q : <<n, q, l>> \in gone' <=> <<n, q, l>> \in gone
        BY <1>6, <1>8, <3>1
      <4> QED
        BY <1>1, <4>1 DEF Unheard
    <3>2. CASE l = i
      <4>1. ASSUME NEW q
            PROVE  (<<n, q, i>> \in gone' \/ \E e \in On(i)' : e[1] = n /\ e[2] = q)
                   <=> (<<n, q, i>> \in gone \/ \E e \in On(i) : e[1] = n /\ e[2] = q)
        <5>1. CASE q = k
          BY <1>5, <1>8, <5>1
        <5>2. CASE q # k
          <6>1. <<n, q, i>> \in gone' <=> <<n, q, i>> \in gone
            BY <1>8, <5>2
          <6>2. (\E e \in On(i)' : e[1] = n /\ e[2] = q) <=> (\E e \in On(i) : e[1] = n /\ e[2] = q)
            BY <1>5, <1>6, <5>2
          <6> QED
            BY <6>1, <6>2
        <5> QED
          BY <5>1, <5>2
      <4> QED
        BY <1>1, <3>2, <4>1 DEF Unheard
    <3> QED
      BY <3>1, <3>2
  <2>3. Untouched(n)' <=> Untouched(n)
    BY <1>6, <2>2 DEF Untouched
  <2>4. \A l : Missed(l, n) => Missed(l, n)'
    BY <1>1, <1>8 DEF Missed
  <2>5. Hopeful(n)' => Hopeful(n)
    BY <1>6, <2>2, <2>4 DEF Hopeful
  <2>6. Ready(n) => Ready(n)'
    <3>1. \A m : Cut(m) => Cut(m)'
      BY <1>6, <1>8 DEF Cut
    <3>2. \A p : RightTid(p) => RightTid(p)'
      BY <1>1 DEF RightTid, TidOf
    <3> QED
      BY <1>1, <3>1, <3>2 DEF Ready
  <2>7. ASSUME Hopeful(n)', ~Untouched(n)'
        PROVE  Delivered(n)' \/ \E l \in Ifaces', c \in Nat : Following(l, n, c)'
    <3>1. CASE Delivered(n)
      BY <1>1, <3>1 DEF Delivered
    <3>2. ASSUME NEW l \in Ifaces, NEW c \in Nat, Following(l, n, c)
          PROVE  \E q \in Ifaces', d \in Nat : Following(q, n, d)'
      <4>1. rx.iface = l /\ InSync(l, n, c) /\ ~Missed(l, n) /\ Position(l, n, c + 1)
            /\ c \in 1 .. sent[n].frames - 1
        BY <3>2 DEF Following, InSync
      <4>2. l # i
        <5>1. SUFFICES ASSUME l = i PROVE FALSE
          OBVIOUS
        <5>2. Missed(i, n)'
          BY <1>1, <1>5, <1>8 DEF Missed
        <5>3. Unheard(i, n)
          BY <1>6, <2>2, <2>7, <5>2 DEF Hopeful
        <5>4. 1 \in 1 .. sent[n].frames
          BY <1>5
        <5>5. \E e \in On(i) : e[1] = n /\ e[2] = 1
          BY <4>1, <5>1, <5>3, <5>4 DEF Unheard, Missed
        <5>6. n > n \/ (n = n /\ 1 >= c + 1)
          BY <1>5, <4>1, <5>1, <5>4, <5>5 DEF Position
        <5> QED
          BY <1>5, <4>1, <5>6
      <4>3. On(l)' = On(l) /\ UNCHANGED <<sent, rx, stored>>
        BY <1>1, <1>6, <4>2
      <4>4. InSync(l, n, c)'
        BY <4>1, <4>3, InSyncKept
      <4>5. PICK d \in Nat : d = c + 1
        OBVIOUS
      <4>6. Position(l, n, d)'
        BY <4>1, <4>3, <4>5, PositionKept
      <4>7. Position(l, n, c + 1)'
        BY <4>5, <4>6 DEF Position
      <4>8. ~Missed(l, n)' /\ rx'.iface = l
        BY <1>1, <1>8, <4>1, <4>2 DEF Missed
      <4>9. Following(l, n, c)'
        BY <4>4, <4>7, <4>8 DEF Following
      <4> QED
        BY <1>6, <4>9
    <3> QED
      BY <2>1, <2>3, <2>5, <2>7, <3>1, <3>2 DEF Progress
  <2> QED
    BY <2>1, <2>3, <2>6, <2>7 DEF Progress
<1> QED
  BY <1>1, <1>2, <1>9, <1>10, <1>11, <1>12, <1>13, <1>14 DEF FailoverInv

(* Before anything else is published everything has arrived and the state may be taken       *)
(* over.                                                                        *)
LEMMA QuietBefore ==
    ASSUME Failover, wait = 0
    PROVE  /\ \A i \in Ifaces : On(i) = {}
           /\ rx # NoState => now - rx.timestamp > IfaceSwitchDelay
<1>1. /\ traffic.period \in Nat /\ traffic.delay \in Nat /\ now \in Nat /\ Types /\ BusOK
      /\ traffic.period > IfaceSwitchDelay + traffic.delay
      /\ rx # NoState => rx.timestamp \in Nat
  BY FailoverFacts
<1>2. IfaceSwitchDelay \in Nat
  BY SessionAssumption
<1>3. Spaced
  BY DEF Failover, FailoverInv
<1>4. ASSUME NEW i \in Ifaces, NEW e \in On(i)
      PROVE  FALSE
  <2>1. e[3] \in 1 .. now
    BY <1>1, <1>4, OnType
  <2>2. now - e[3] <= traffic.delay /\ traffic.period <= 0 + (now - e[3])
    BY <1>3, <1>4 DEF Spaced
  <2> QED
    BY <1>1, <1>2, <2>1, <2>2
<1>5. rx # NoState => traffic.period <= 0 + (now - rx.timestamp) + traffic.delay
  BY <1>3 DEF Spaced
<1> QED
  BY <1>1, <1>2, <1>4, <1>5

LEMMA FailoverPublish ==
    ASSUME Failover, NEW frames \in traffic.frames, NEW zero \in ZeroKinds,
           Publish(frames, zero)
    PROVE  FailoverInv'
<1>1. PICK n \in Nat : n = Len(sent)
  <2>1. Len(sent) \in Nat
    BY FailoverFacts
  <2> QED
    BY <2>1
<1>2. /\ TypeInv /\ Types /\ BusOK /\ RxOK /\ Paced
      /\ Spaced /\ Placed /\ LostIsOff /\ Near /\ Past
      /\ traffic.period \in Nat /\ traffic.delay \in Nat /\ now \in Nat
      /\ rx # NoState => rx.timestamp \in Nat /\ rx.timestamp <= now
  BY FailoverFacts DEF Failover, FailoverInv
<1>3. /\ wait = 0 /\ wait' = traffic.period
      /\ UNCHANGED <<traffic, now, rx, stored, delivered, gone, budget>>
      /\ Ifaces' = Ifaces
  BY DEF Publish, Ifaces
<1>4. /\ \A i \in Ifaces : On(i) = {}
      /\ rx # NoState => now - rx.timestamp > IfaceSwitchDelay
  BY <1>3, QuietBefore
<1>5. /\ \A m \in 1 .. n + 1 : TidOf(m)' = TidOf(m)
      /\ DOMAIN sent = 1 .. n
      /\ Len(sent') = n + 1 /\ DOMAIN sent' = 1 .. n + 1
      /\ \A m \in DOMAIN sent : sent'[m] = sent[m]
      /\ sent'[n + 1].frames = frames /\ frames \in Nat \ {0}
  <2>1. frames \in Nat \ {0}
    BY <1>2, ChosenProfile
  <2> QED
    BY <1>1, <1>2, <2>1, PublishedTids
<1>6. \A i \in Ifaces :
         /\ \A e \in On(i)' : e[1] = n + 1 /\ e[3] = now
         /\ \A k \in 1 .. frames : \E e \in On(i)' : e[1] = n + 1 /\ e[2] = k
  <2>1. \A i \in Ifaces :
           /\ \A e \in On(i)' \ On(i) : e[1] = Len(sent) + 1 /\ e[3] = now
           /\ \A k \in 1 .. frames : \E e \in On(i)' : e[1] = Len(sent) + 1 /\ e[2] = k
    BY <1>2, PublishBus
  <2>2. ASSUME NEW i \in Ifaces, NEW e \in On(i)'
        PROVE  e \in On(i)' \ On(i)
    BY <1>4, <2>2
  <2> QED
    BY <1>1, <2>1, <2>2
<1>7. Spaced'
  <2>1. \A i \in Ifaces : \A e \in On(i)' :
           /\ e[1] = n + 1
           /\ now - e[3] <= traffic.delay
           /\ traffic.period <= traffic.period + (now - e[3])
    BY <1>2, <1>6
  <2>2. rx # NoState =>
           traffic.period <= traffic.period + (now - rx.timestamp) + traffic.delay
    BY <1>2
  <2> QED
    BY <1>2, <1>3, <1>5, <2>1, <2>2 DEF Spaced
<1>8. Placed'
  <2>1. ASSUME NEW i \in Ifaces
        PROVE  \E h, k \in Nat : Position(i, h, k)'
    <3>1. PICK h, k \in Nat : Position(i, h, k)
      BY <1>2 DEF Placed
    <3> QED
      BY <1>2, <3>1, PublishPosition
  <2> QED
    BY <1>3, <2>1 DEF Placed
<1>9. LostIsOff'
  <2>1. ASSUME NEW i \in Ifaces, NEW m \in Nat, NEW k \in Nat, <<m, k, i>> \in gone
        PROVE  m \in DOMAIN sent' /\ \A e \in On(i)' : ~(e[1] = m /\ e[2] = k)
    <3>1. m \in 1 .. n
      BY <1>2, <1>5, <2>1 DEF LostIsOff
    <3>2. m \in 1 .. n + 1 /\ m # n + 1
      BY <3>1
    <3> QED
      BY <1>5, <1>6, <3>2
  <2> QED
    BY <1>3, <2>1 DEF LostIsOff
<1>10. rx # NoState => \E p \in 1 .. n + 1 : RightTid(p) /\ \A m \in p + 1 .. n : Cut(m)
  <2>1. SUFFICES ASSUME rx # NoState
                 PROVE  \E p \in 1 .. n + 1 : RightTid(p) /\ \A m \in p + 1 .. n : Cut(m)
    OBVIOUS
  <2>2. PICK p \in 1 .. n + 1 :
           /\ RightTid(p)
           /\ \A m \in p + 1 .. n : \A i \in Ifaces :
                 <<m, 1, i>> \in gone \/ (m = n /\ StartToCome(i))
    BY <1>1, <1>2, <2>1 DEF Near
  <2>3. \A i \in Ifaces : ~StartToCome(i)
    BY <1>4 DEF StartToCome
  <2>4. ASSUME NEW m \in p + 1 .. n
        PROVE  Cut(m)
    <3>1. \A i \in Ifaces : <<m, 1, i>> \in gone
      BY <2>2, <2>3, <2>4
    <3> QED
      BY <3>1 DEF Cut
  <2> QED
    BY <2>2, <2>4
<1>11. \A p \in 1 .. n + 1 : RightTid(p) => RightTid(p)'
  BY <1>1, <1>3, <1>5 DEF RightTid
<1>12. \A m : Cut(m)' <=> Cut(m)
  BY <1>3 DEF Cut
<1>13. Near'
  <2>1. SUFFICES ASSUME rx # NoState
                 PROVE  \E p \in 1 .. (n + 1) + 1 :
                           /\ RightTid(p)'
                           /\ \A m \in p + 1 .. n + 1 : \A i \in Ifaces :
                                 <<m, 1, i>> \in gone \/ (m = n + 1 /\ StartToCome(i)')
                           /\ p < n + 1 => now - rx.timestamp > IfaceSwitchDelay
                           /\ p = (n + 1) + 1 => ~StartToCome(rx.iface)'
    BY <1>3, <1>5 DEF Near
  <2>2. PICK p \in 1 .. n + 1 : RightTid(p) /\ \A m \in p + 1 .. n : Cut(m)
    BY <1>10, <2>1
  <2>3. \A i \in Ifaces : StartToCome(i)'
    BY <1>5, <1>6 DEF StartToCome
  <2>4. ASSUME NEW m \in p + 1 .. n + 1, NEW i \in Ifaces
        PROVE  <<m, 1, i>> \in gone \/ (m = n + 1 /\ StartToCome(i)')
    <3>1. m = n + 1 \/ m \in p + 1 .. n
      OBVIOUS
    <3> QED
      BY <2>2, <2>3, <3>1 DEF Cut
  <2>5. p \in 1 .. (n + 1) + 1 /\ p # (n + 1) + 1
    OBVIOUS
  <2> QED
    BY <1>4, <1>11, <2>1, <2>2, <2>4, <2>5
<1>14. Past'
  <2>1. ASSUME NEW m \in DOMAIN sent'
        PROVE  m # n + 1 /\ Carried(m)' => Delivered(m)'
    <3>1. SUFFICES ASSUME m # n + 1, Carried(m)'
                   PROVE  Delivered(m)
      BY <1>3 DEF Delivered
    <3>2. m \in DOMAIN sent /\ sent'[m] = sent[m] /\ m \in Nat
      BY <1>5, <2>1, <3>1
    <3>3. Carried(m)
      BY <1>3, <3>1, <3>2 DEF Carried, Missed, AllLost
    <3>4. CASE m # n
      BY <1>1, <1>2, <3>2, <3>3, <3>4 DEF Past
    <3>5. CASE m = n
      <4>1. Progress(n)
        BY <1>1, <3>2, <3>5 DEF Failover, FailoverInv
      <4>2. Hopeful(n)
        BY <3>3, <3>5 DEF Carried, Hopeful, AllLost, Unheard
      <4>3. ~Untouched(n)
        <5>1. PICK i \in Ifaces : ~Missed(i, n)
          BY <3>3, <3>5 DEF Carried
        <5>2. 1 \in 1 .. sent[n].frames
          BY <1>2, <3>2, <3>5, PayloadType
        <5>3. ~Unheard(i, n)
          BY <1>4, <5>1, <5>2 DEF Missed, Unheard
        <5> QED
          BY <5>3 DEF Untouched
      <4>4. ASSUME NEW i \in Ifaces, NEW c \in Nat, Following(i, n, c)
            PROVE  FALSE
        <5>1. Position(i, n, c + 1) /\ n \in DOMAIN sent
          BY <3>2, <3>5, <4>4 DEF Following
        <5>2. bus[i] # <<>>
          BY <1>2, <5>1, HeadAt
        <5>3. Head(bus[i]) \in On(i)
          BY <1>2, <5>2, HeadIs
        <5> QED
          BY <1>4, <5>3
      <4> QED
        BY <3>5, <4>1, <4>2, <4>3, <4>4 DEF Progress
    <3> QED
      BY <3>4, <3>5
  <2> QED
    BY <1>5, <2>1 DEF Past
<1>15. PICK g \in Nat : g = n + 1
  OBVIOUS
<1>16. Progress(g)'
  <2>1. Untouched(g)'
    BY <1>3, <1>5, <1>6, <1>15 DEF Untouched, Unheard
  <2>2. Ready(g)'
    <3>1. SUFFICES ASSUME rx # NoState
                   PROVE  /\ now - rx.timestamp > IfaceSwitchDelay
                          /\ \E p \in 1 .. g : RightTid(p)' /\ \A m \in p + 1 .. g - 1 : Cut(m)'
      BY <1>3 DEF Ready
    <3>2. g - 1 = n
      BY <1>15
    <3> QED
      BY <1>4, <1>10, <1>11, <1>12, <1>15, <3>1, <3>2
  <2> QED
    BY <2>1, <2>2 DEF Progress
<1> QED
  BY <1>5, <1>7, <1>8, <1>9, <1>13, <1>14, <1>15, <1>16 DEF FailoverInv

(* The state, the buses and what was lost stay as they are, or the state is removed.        *)
LEMMA FailoverUndisturbed ==
    ASSUME Failover, UNCHANGED <<traffic, nextTid, sent, bus, delivered, gone>>, Spaced',
           now' \in Nat /\ now <= now',
           \/ UNCHANGED <<rx, stored>>
           \/ rx' = NoState /\ rx # NoState /\ TidTimedOut(rx, now)
    PROVE  FailoverInv'
<1>1. PICK n \in Nat : n = Len(sent)
  <2>1. Len(sent) \in Nat
    BY FailoverFacts
  <2> QED
    BY <2>1
<1>2. /\ TypeInv /\ Placed /\ LostIsOff /\ Near /\ Past /\ now \in Nat
      /\ traffic.delay <= TransferTimeout /\ Spaced
      /\ rx # NoState => rx.timestamp \in Nat
      /\ IfaceSwitchDelay \in Nat
  BY FailoverFacts, SessionAssumption DEF Failover, FailoverInv
<1>3. /\ \A i : On(i)' = On(i)
      /\ Ifaces' = Ifaces
      /\ \A i : StartToCome(i)' <=> StartToCome(i)
      /\ \A i, m : (Missed(i, m)' <=> Missed(i, m)) /\ (Unheard(i, m)' <=> Unheard(i, m))
      /\ \A i, m : AllLost(i, m)' <=> AllLost(i, m)
      /\ \A m : (Delivered(m)' <=> Delivered(m)) /\ (Cut(m)' <=> Cut(m))
  BY DEF On, Ifaces, StartToCome, Missed, Unheard, AllLost, Delivered, Cut
<1>4. Placed'
  <2>1. ASSUME NEW i \in Ifaces
        PROVE  \E h, k \in Nat : Position(i, h, k)'
    <3>1. PICK h, k \in Nat : Position(i, h, k)
      BY <1>2 DEF Placed
    <3> QED
      BY <1>3, <3>1, PositionKept
  <2> QED
    BY <1>3, <2>1 DEF Placed
<1>5. LostIsOff'
  BY <1>2, <1>3 DEF LostIsOff
<1>6. \A m : Carried(m)' <=> Carried(m)
  BY <1>3 DEF Carried
<1>7. Past'
  BY <1>2, <1>3, <1>6 DEF Past
<1>8. rx' # NoState =>
         /\ rx # NoState /\ rx' = rx /\ stored' = stored
         /\ now - rx.timestamp > IfaceSwitchDelay => now' - rx.timestamp > IfaceSwitchDelay
         /\ \A p : RightTid(p) => RightTid(p)'
  BY <1>2 DEF RightTid, TidOf
<1>9. Near'
  <2>1. SUFFICES ASSUME rx' # NoState
                 PROVE  \E p \in 1 .. n + 1 :
                           /\ RightTid(p)'
                           /\ \A m \in p + 1 .. n : \A i \in Ifaces :
                                 <<m, 1, i>> \in gone \/ (m = n /\ StartToCome(i)')
                           /\ p < n => now' - rx'.timestamp > IfaceSwitchDelay
                           /\ p = n + 1 => ~StartToCome(rx.iface)'
    BY <1>1, <1>3 DEF Near
  <2>2. PICK p \in 1 .. n + 1 :
           /\ RightTid(p)
           /\ \A m \in p + 1 .. n : \A i \in Ifaces :
                 <<m, 1, i>> \in gone \/ (m = n /\ StartToCome(i))
           /\ p < n => now - rx.timestamp > IfaceSwitchDelay
           /\ p = n + 1 => ~StartToCome(rx.iface)
    BY <1>1, <1>2, <1>8, <2>1 DEF Near
  <2>3. StartToCome(rx.iface)' <=> StartToCome(rx.iface)
    BY <1>8, <2>1 DEF StartToCome, On
  <2> QED
    BY <1>3, <1>8, <2>1, <2>2, <2>3
<1>10. ASSUME n \in DOMAIN sent
       PROVE  Progress(n)'
  <2>1. Progress(n)
    BY <1>1, <1>10 DEF Failover, FailoverInv
  <2>2. /\ Untouched(n)' <=> Untouched(n)
        /\ Hopeful(n)' <=> Hopeful(n)
    BY <1>3 DEF Untouched, Hopeful
  <2>3. Ready(n) => Ready(n)'
    BY <1>3, <1>8 DEF Ready
  <2>4. ASSUME NEW i \in Ifaces, NEW c \in Nat, Following(i, n, c)
        PROVE  Following(i, n, c)'
    <3>1. rx.iface = i /\ InSync(i, n, c) /\ ~Missed(i, n) /\ Position(i, n, c + 1)
      BY <2>4 DEF Following
    <3>2. UNCHANGED <<rx, stored>>
      <4>1. SUFFICES ASSUME TidTimedOut(rx, now) PROVE FALSE
        OBVIOUS
      <4>2. bus[i] # <<>>
        BY <1>2, <1>10, <3>1, HeadAt
      <4>3. Young(i)
        BY <1>2 DEF Spaced, Young
      <4> QED
        BY <1>2, <3>1, <4>1, <4>2, <4>3, NotStale
    <3>3. InSync(i, n, c)'
      BY <1>3, <3>1, <3>2, InSyncKept
    <3>4. PICK d \in Nat : d = c + 1
      OBVIOUS
    <3>5. Position(i, n, d)'
      BY <1>3, <3>1, <3>4, PositionKept
    <3>6. Position(i, n, c + 1)'
      BY <3>4, <3>5 DEF Position
    <3> QED
      BY <1>3, <3>1, <3>2, <3>3, <3>6 DEF Following
  <2> QED
    BY <1>3, <2>1, <2>2, <2>3, <2>4 DEF Progress
<1> QED
  BY <1>1, <1>4, <1>5, <1>7, <1>9, <1>10 DEF FailoverInv

LEMMA FailoverTick ==
    ASSUME Failover, Tick
    PROVE  FailoverInv'
<1>1. /\ now' = now + 1 /\ wait' = IF wait = 0 THEN 0 ELSE wait - 1
      /\ \A i \in Ifaces : bus[i] # <<>> => now - Head(bus[i])[3] < traffic.delay
      /\ UNCHANGED <<traffic, nextTid, sent, bus, rx, stored, delivered, gone>>
  BY DEF Tick
<1>2. /\ Types /\ BusOK /\ Spaced /\ wait \in Nat /\ now \in Nat
      /\ traffic.period \in Nat /\ traffic.delay \in Nat
      /\ rx # NoState => rx.timestamp \in Nat
  BY FailoverFacts DEF Failover, FailoverInv
<1>3. \A i : On(i)' = On(i)
  BY <1>1 DEF On
<1>4. Ifaces' = Ifaces
  BY <1>1 DEF Ifaces
<1>5. /\ wait' \in Nat
      /\ \A t \in Nat : traffic.period <= wait + (now - t) => traffic.period <= wait' + (now' - t)
      /\ \A t \in Nat : traffic.period <= wait + (now - t) + traffic.delay
                          => traffic.period <= wait' + (now' - t) + traffic.delay
  BY <1>1, <1>2
<1>6. ASSUME NEW i \in Ifaces, NEW e \in On(i)
      PROVE  /\ e[1] = Len(sent)
             /\ now' - e[3] <= traffic.delay
             /\ traffic.period <= wait' + (now' - e[3])
  <2> DEFINE d == Head(bus[i])
  <2>1. bus[i] # <<>>
    BY <1>6 DEF On
  <2>2. d \in On(i) /\ d[3] <= e[3]
    BY <1>2, <1>6, <2>1, HeadIs
  <2>3. now - d[3] < traffic.delay
    BY <1>1, <2>1
  <2> HIDE DEF d
  <2>4. e[3] \in 1 .. now /\ d[3] \in 1 .. now
    BY <1>2, <1>6, <2>2, OnType
  <2>5. e[1] = Len(sent) /\ traffic.period <= wait + (now - e[3])
    BY <1>2, <1>6 DEF Spaced
  <2>6. e[3] \in Nat /\ d[3] \in Nat
    BY <2>4
  <2>7. now' - e[3] <= traffic.delay
    <3>1. now' = now + 1
      BY <1>1
    <3> QED
      BY <1>2, <2>2, <2>3, <2>6, <3>1
  <2>8. traffic.period <= wait' + (now' - e[3])
    BY <1>5, <2>5, <2>6
  <2> QED
    BY <2>5, <2>7, <2>8
<1>7. rx # NoState => traffic.period <= wait' + (now' - rx.timestamp) + traffic.delay
  <2>1. SUFFICES ASSUME rx # NoState
                 PROVE  traffic.period <= wait' + (now' - rx.timestamp) + traffic.delay
    OBVIOUS
  <2>2. traffic.period <= wait + (now - rx.timestamp) + traffic.delay
    BY <1>2, <2>1 DEF Spaced
  <2>3. rx.timestamp \in Nat
    BY <1>2, <2>1
  <2> QED
    BY <1>5, <2>2, <2>3
<1>8. Spaced'
  BY <1>1, <1>3, <1>4, <1>5, <1>6, <1>7 DEF Spaced
<1>9. now' \in Nat /\ now <= now'
  BY <1>1, <1>2
<1> QED
  BY <1>1, <1>8, <1>9, FailoverUndisturbed

LEMMA FailoverCleanup ==
    ASSUME Failover, Cleanup \/ UNCHANGED vars
    PROVE  FailoverInv'
<1>1. /\ UNCHANGED <<traffic, now, nextTid, wait, sent, bus, delivered, gone>>
      /\ \/ UNCHANGED <<rx, stored>>
         \/ rx' = NoState /\ rx # NoState /\ TidTimedOut(rx, now)
  BY DEF Cleanup, vars, TidTimedOut
<1>2. Spaced /\ now \in Nat
  BY FailoverFacts DEF Failover, FailoverInv
<1>3. Spaced'
  <2>1. \A i : On(i)' = On(i)
    BY <1>1 DEF On
  <2>2. Ifaces' = Ifaces
    BY <1>1 DEF Ifaces
  <2> QED
    BY <1>1, <1>2, <2>1, <2>2 DEF Spaced
<1>4. now' \in Nat /\ now <= now'
  BY <1>1, <1>2
<1> QED
  BY <1>1, <1>3, <1>4, FailoverUndisturbed

LEMMA FailoverInit ==
    ASSUME Steady, Init
    PROVE  TypeInv /\ Paced /\ Counted /\ FailoverInv
<1>1. /\ TypeInv /\ traffic \in Profile /\ nextTid = 0 /\ wait = 0
      /\ sent = <<>> /\ rx = NoState /\ gone = {} /\ \A i \in Ifaces : On(i) = {}
      /\ budget = [losses |-> traffic.losses, repeats |-> MaxRepeats, restarts |-> MaxRestarts]
  BY TypeInit, RxAssumption DEF Init, On
<1>2. Paced
  <2>1. ForwardDistance(TidOf(1), TidOf(1)) = 0
    BY <1>1 DEF TidOf, ForwardDistance
  <2>2. "restarts" \in DOMAIN budget /\ budget.restarts = 0
    BY <1>1 DEF Steady
  <2>3. Len(sent) + 1 = 1
    BY <1>1
  <2>4. \A a, b \in 1 .. 1 : a = 1 /\ b = 1 /\ b - a = 0
    OBVIOUS
  <2> QED
    BY <2>1, <2>2, <2>3, <2>4 DEF Paced
<1>3. Counted
  BY <1>1, FS_EmptySet DEF Counted, Profile
<1>4. Spaced /\ LostIsOff /\ Near /\ Past
  BY <1>1 DEF Spaced, LostIsOff, Near, Past
<1>5. \A i \in Ifaces : Position(i, 1, 1)
  BY <1>1 DEF Position
<1>6. Placed
  BY <1>5 DEF Placed
<1>7. DOMAIN sent = {}
  BY <1>1
<1> QED
  BY <1>1, <1>2, <1>3, <1>4, <1>6, <1>7 DEF FailoverInv

LEMMA RepeatsStep ==
    ASSUME "repeats" \in DOMAIN budget, budget.repeats = 0, [Next]_vars
    PROVE  "repeats" \in DOMAIN budget' /\ budget'.repeats = 0
<1>1. ASSUME NEW i \in Ifaces, ReceiveAndRepeat(i)
      PROVE  FALSE
  BY <1>1, SMT DEF ReceiveAndRepeat
<1>2. CASE budget' = budget
  BY <1>2
<1>3. CASE budget' = [budget EXCEPT !.losses = @ - 1]
  BY <1>3
<1>4. CASE budget' = [budget EXCEPT !.restarts = @ - 1]
  BY <1>4
<1> QED
  BY <1>1, <1>2, <1>3, <1>4 DEF Next, Publish, RestartPublisher, Receive, Lose, Cleanup, Tick,
     vars

(* A subscriber that is not cut off now has not been before. *)
LEMMA StillNotCutOff ==
    ASSUME TypeInv, [Next]_vars, NeverCutOff'
    PROVE  NeverCutOff
<1>1. PICK n \in Nat : n = Len(sent)
  <2>1. Len(sent) \in Nat
    BY ChosenProfile DEF TypeInv
  <2> QED
    BY <2>1
<1>2. /\ Ifaces' = Ifaces
      /\ gone \subseteq gone'
      /\ sent' = sent \/ \E frames \in traffic.frames, zero \in ZeroKinds : Publish(frames, zero)
  BY DEF Next, Publish, RestartPublisher, Receive, ReceiveAndRepeat, Lose, Cleanup, Tick, vars,
     Ifaces
<1>3. Len(sent') \in Nat /\ n <= Len(sent') /\ DOMAIN sent \subseteq DOMAIN sent'
  <2>1. CASE sent' = sent
    BY <1>1, <2>1
  <2>2. ASSUME NEW frames \in traffic.frames, NEW zero \in ZeroKinds, Publish(frames, zero)
        PROVE  Len(sent') = n + 1 /\ DOMAIN sent \subseteq DOMAIN sent'
    BY <1>1, <2>2, PublishBus DEF TypeInv
  <2> QED
    BY <1>1, <1>2, <2>1, <2>2
<1>4. Half \in Nat
  BY TidModAssumption DEF Half
<1>5. SUFFICES ASSUME NEW p \in DOMAIN sent, p + Half <= n
               PROVE  \E m \in p + 1 .. p + Half - 1 : ~Cut(m)
  BY <1>1 DEF NeverCutOff
<1>6. p \in Nat
  BY <1>5, ChosenProfile DEF TypeInv
<1>7. p \in DOMAIN sent' /\ p + Half <= Len(sent')
  BY <1>3, <1>4, <1>5, <1>6
<1>8. Half' = Half
  BY DEF Half
<1>9. PICK m \in p + 1 .. p + Half - 1 : ~Cut(m)'
  BY <1>7, <1>8 DEF NeverCutOff
<1>10. ~Cut(m)
  BY <1>2, <1>9 DEF Cut
<1> QED
  BY <1>10

LEMMA FailoverStep ==
    ASSUME TypeInv, Paced, Steady, "repeats" \in DOMAIN budget, budget.repeats = 0,
           Staggered, NeverCutOff, FailoverInv, [Next]_vars
    PROVE  FailoverInv'
<1>1. Failover
  BY DEF Failover
<1>2. ASSUME RestartPublisher
      PROVE  FALSE
  <2>1. "restarts" \in DOMAIN budget /\ budget.restarts = 0
    BY DEF Paced
  <2> QED
    BY <1>2, <2>1, SMT DEF RestartPublisher
<1>3. ASSUME NEW i \in Ifaces, ReceiveAndRepeat(i)
      PROVE  FALSE
  BY <1>3, SMT DEF ReceiveAndRepeat
<1> QED
  BY <1>1, <1>2, <1>3, FailoverPublish, FailoverReceive, FailoverLose, FailoverTick,
     FailoverCleanup DEF Next

LEMMA MissingAll ==
    ASSUME Types, NEW i, NEW n \in DOMAIN sent, Missing(n, i) = sent[n].frames
    PROVE  AllLost(i, n)
<1>1. PICK s \in Nat \ {0} : s = sent[n].frames
  BY PayloadType
<1> DEFINE F == 1 .. s
           S == {k \in F : <<n, k, i>> \in gone}
<1>2. IsFiniteSet(F) /\ Cardinality(F) = s
  <2>1. \A a, b \in Int : IsFiniteSet(a .. b) /\ Cardinality(a .. b) = IF a > b THEN 0 ELSE b - a + 1
    BY FS_Interval
  <2>2. IsFiniteSet(F) /\ Cardinality(F) = IF 1 > s THEN 0 ELSE s - 1 + 1
    BY <2>1
  <2> QED
    BY <2>2
<1>3. Cardinality(S) = Cardinality(F)
  BY <1>1, <1>2 DEF Missing
<1>4. S \subseteq F
  OBVIOUS
<1> HIDE DEF F
<1>5. S = F
  BY <1>2, <1>3, <1>4, FS_Subset
<1> QED
  BY <1>1, <1>5 DEF AllLost, F

(* What the invariant says of a transfer of which no frame is in flight. *)
LEMMA FailedOver ==
    ASSUME TypeInv, FailoverInv, NEW n \in DOMAIN sent \ InFlight, Carried(n)
    PROVE  Delivered(n)
<1>1. Types /\ n \in DOMAIN sent /\ sent[n].frames \in Nat \ {0}
  BY PayloadType DEF TypeInv
<1>2. CASE n # Len(sent)
  BY <1>1, <1>2 DEF FailoverInv, Past
<1>3. CASE n = Len(sent)
  <2>1. \A i \in Ifaces : \A e \in On(i) : e[1] # n
    BY DEF InFlight, On
  <2>2. Progress(n)
    BY <1>1, <1>3 DEF FailoverInv
  <2>3. Hopeful(n)
    BY DEF Carried, Hopeful, AllLost, Unheard
  <2>4. ~Untouched(n)
    <3>1. PICK i \in Ifaces : ~Missed(i, n)
      BY DEF Carried
    <3>2. 1 \in 1 .. sent[n].frames
      BY <1>1
    <3>3. ~Unheard(i, n)
      BY <2>1, <3>1, <3>2 DEF Missed, Unheard
    <3> QED
      BY <3>3 DEF Untouched
  <2>5. ASSUME NEW i \in Ifaces, NEW c \in Nat, Following(i, n, c)
        PROVE  FALSE
    <3>1. PICK k : k = c + 1
      OBVIOUS
    <3>2. Position(i, n, k)
      BY <2>5, <3>1 DEF Following
    <3>3. k \in 1 .. sent[n].frames
      BY <1>1, <3>2 DEF Position
    <3>4. \E e \in On(i) : e[1] = n /\ e[2] = k
      BY <1>1, <3>2, <3>3 DEF Position
    <3> QED
      BY <2>1, <3>4
  <2> QED
    BY <2>2, <2>3, <2>4, <2>5 DEF Progress
<1> QED
  BY <1>2, <1>3

(* Fail-over, on any number of interfaces: for as long as the subscriber has not been cut  *)
(* off from half a ring of transfers, which its state would take for older ones,          *)
(* canardHandleRxFrame moves the state to an interface that brings a transfer when none     *)
(* other does, and delivers it.                                                   *)
THEOREM FailoverUnlessCutOff ==
    ASSUME Steady
    PROVE  Spec => [](NeverCutOff => FailoverDelivers)
<1> DEFINE FInv == /\ TypeInv /\ Paced
                   /\ "repeats" \in DOMAIN budget /\ budget.repeats = 0
                   /\ Staggered /\ NeverCutOff => FailoverInv
<1>1. Init => FInv
  <2>1. SUFFICES ASSUME Init
                 PROVE  FInv
    OBVIOUS
  <2>2. "repeats" \in DOMAIN budget /\ budget.repeats = 0
    BY <2>1 DEF Init, Steady
  <2> QED
    BY <2>1, <2>2, FailoverInit
<1>2. FInv /\ [Next]_vars => FInv'
  <2>1. SUFFICES ASSUME FInv, [Next]_vars
                 PROVE  FInv'
    OBVIOUS
  <2>2. TypeInv' /\ Paced'
    BY <2>1, TypeStep, PacedStep
  <2>3. "repeats" \in DOMAIN budget' /\ budget'.repeats = 0
    BY <2>1, RepeatsStep
  <2>4. ASSUME Staggered', NeverCutOff'
        PROVE  FailoverInv'
    <3>1. Staggered
      BY <2>1, <2>4 DEF Staggered, Next, Publish, RestartPublisher, Receive,
         ReceiveAndRepeat, Lose, Cleanup, Tick, vars
    <3>2. NeverCutOff
      BY <2>1, <2>4, StillNotCutOff
    <3> QED
      BY <2>1, <3>1, <3>2, FailoverStep
  <2> QED
    BY <2>2, <2>3, <2>4
<1>3. FInv => (NeverCutOff => FailoverDelivers)
  <2>1. SUFFICES ASSUME FInv, NeverCutOff, Staggered, NEW n \in DOMAIN sent \ InFlight,
                        \E i \in Ifaces : Missing(n, i) = 0,
                        \A i \in Ifaces : Missing(n, i) \in {0, sent[n].frames}
                 PROVE  Delivered(n)
    BY DEF FailoverDelivers, Staggered
  <2>2. Carried(n)
    BY <2>1, MissingNone, MissingAll DEF Carried, TypeInv
  <2> QED
    BY <2>1, <2>2, FailedOver
<1> QED
  BY <1>1, <1>2, <1>3, PTL DEF Spec

(* Whoever loses fewer frames than the first ones of half a ring of transfers, on every      *)
(* interface, cuts no subscriber off.                                              *)
LEMMA FewCuts ==
    ASSUME TypeInv, Counted, traffic.losses < (Half - 1) * Cardinality(Ifaces)
    PROVE  NeverCutOff
<1>1. Types /\ Half \in Nat /\ 1 < Half
  BY TidModAssumption DEF Half, TypeInv
<1>2. SUFFICES ASSUME NEW p \in DOMAIN sent, p + Half <= Len(sent),
                      \A m \in p + 1 .. p + Half - 1 : Cut(m)
               PROVE  FALSE
  BY DEF NeverCutOff
<1>3. PICK a, b \in Nat : a = p + 1 /\ b = p + Half - 1
  BY <1>1, ChosenProfile
<1> DEFINE F == a .. b
           T == {<<m, 1, i>> : m \in F, i \in Ifaces}
           f == [c \in F \X Ifaces |-> <<c[1], 1, c[2]>>]
<1>4. T \subseteq gone
  BY <1>2, <1>3 DEF Cut
<1>5. IsFiniteSet(T) /\ Cardinality(T) <= Cardinality(gone) /\ IsFiniteSet(gone)
  BY <1>4, FS_Subset DEF Counted
<1>6. f \in Injection(F \X Ifaces, T)
  <2>1. f \in [F \X Ifaces -> T]
    OBVIOUS
  <2>2. \A c, d \in F \X Ifaces : f[c] = f[d] => c = d
    OBVIOUS
  <2> QED
    BY <2>1, <2>2 DEF Injection, IsInjective
<1> HIDE DEF f, T
<1>7. IsFiniteSet(F) /\ Cardinality(F) = Half - 1
  <2>1. \A x, y \in Int : IsFiniteSet(x .. y) /\ Cardinality(x .. y) = IF x > y THEN 0 ELSE y - x + 1
    BY FS_Interval
  <2>2. IsFiniteSet(F) /\ Cardinality(F) = IF a > b THEN 0 ELSE b - a + 1
    BY <2>1
  <2>3. p \in Nat
    BY <1>1, ChosenProfile
  <2> QED
    BY <1>1, <1>3, <2>2, <2>3
<1> HIDE DEF F
<1>8. IsFiniteSet(Ifaces)
  BY <1>1, RxAssumption DEF Types, Ifaces
<1>9. Cardinality(F \X Ifaces) = (Half - 1) * Cardinality(Ifaces)
  BY <1>7, <1>8, FS_Product
<1>10. Cardinality(F \X Ifaces) <= Cardinality(T)
  BY <1>5, <1>6, FS_Injection
<1>11. Cardinality(gone) <= traffic.losses
  <2>1. Cardinality(gone) \in Nat /\ traffic.losses \in Nat
    BY <1>1, <1>5, FS_CardinalityType, RxAssumption DEF Types, Profile
  <2> QED
    BY <2>1 DEF Counted
<1>12. /\ Cardinality(gone) \in Nat /\ Cardinality(T) \in Nat /\ traffic.losses \in Nat
       /\ Cardinality(F \X Ifaces) \in Nat
  <2>1. IsFiniteSet(F \X Ifaces)
    BY <1>7, <1>8, FS_Product
  <2> QED
    BY <1>1, <1>5, <2>1, FS_CardinalityType, RxAssumption DEF Types, Profile
<1> QED
  BY <1>5, <1>9, <1>10, <1>11, <1>12

(* The same for losses that cannot cut the subscriber off: with the 32 transfer-IDs of the   *)
(* code, fewer than 15 frames an interface.                                        *)
THEOREM FailoverIsDelivered ==
    ASSUME Steady, \A p \in Profiles : p.losses < (Half - 1) * Cardinality(p.ifaces)
    PROVE  Spec => []FailoverDelivers
<1> DEFINE CInv == TypeInv /\ Counted
<1>1. Init => CInv
  BY FailoverInit
<1>2. CInv /\ [Next]_vars => CInv'
  BY TypeStep, CountedStep
<1>3. CInv /\ (NeverCutOff => FailoverDelivers) => FailoverDelivers
  <2>1. SUFFICES ASSUME CInv, NeverCutOff => FailoverDelivers
                 PROVE  FailoverDelivers
    OBVIOUS
  <2>2. traffic.losses < (Half - 1) * Cardinality(Ifaces)
    BY <2>1 DEF TypeInv, Types, Ifaces
  <2> QED
    BY <2>1, <2>2, FewCuts
<1> QED
  BY <1>1, <1>2, <1>3, FailoverUnlessCutOff, PTL DEF Spec
=============================================================================
