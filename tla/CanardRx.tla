------------------------------ MODULE CanardRx ------------------------------
(***************************************************************************)
(* One publisher and one subscriber of one transfer descriptor, connected    *)
(* by redundant CAN interfaces that lose and repeat frames.  The subscriber   *)
(* is canardHandleRxFrame with canardCleanupStaleTransfers; the publisher     *)
(* frames its transfers as enqueueTxFrames does; the buses are the           *)
(* environment.                                                             *)
(*                                                                         *)
(* A frame on a bus is <<n, k, t>>: frame k of transfer n, sent at t.  A payload   *)
(* is the sequence of what its frames carry.  A CRC register is the sequence  *)
(* of what was added to it, so that equal registers mean equal input; the     *)
(* one collision kept is the algebraic one, a zero register that is fed       *)
(* zero bytes stays zero.  A transfer that wraps payload_len overwrites its    *)
(* own beginning.                                                           *)
(***************************************************************************)
EXTENDS CanardSession, Sequences, FiniteSets

CONSTANTS
    Profiles,       \* the kinds of traffic, see Profile
    ZeroKinds,      \* {FALSE}, or {FALSE, TRUE} to publish all-zero payloads too
    MaxRestarts,    \* bound: restarts of the publishing node
    MaxRepeats,     \* bound: frames delivered twice by the bus
    RepeatSingles,  \* whether single-frame transfers may be repeated
    MemoryShort     \* whether an allocation may fail

(* The traffic of one execution: how many interfaces carry it, what is published    *)
(* and when, and what the buses may do to it.  The last six fields are bounds.    *)
Profile ==
    [ifaces : SUBSET Nat,           \* the interface numbers
     frames : SUBSET (Nat \ {0}),   \* the lengths of the transfers, in frames
     period : Nat,                  \* least time between two publications
     transfers : Nat,               \* transfers published
     outstanding : Nat,             \* transfers with frames on some bus
     until : Nat,                   \* the publisher stops at this time
     delay : Nat,                   \* the age at which a frame is handled
     losses : Nat,                  \* frames lost
     time : Nat \ {0}]              \* the clock, which starts at 1, stops here

ASSUME RxAssumption ==
    /\ Profiles \subseteq Profile
    /\ \A p \in Profiles : IsFiniteSet(p.ifaces)
    /\ ZeroKinds \subseteq BOOLEAN
    /\ {RepeatSingles, MemoryShort} \subseteq BOOLEAN
    /\ HeadSize >= 5            \* the static assertion on the memory layout

StartBytes == 5     \* payload of a first frame: 8 less the tail and the CRC
FrameBytes == 7     \* payload of a later frame

VARIABLES
    traffic,    \* the profile of this execution
    now,        \* the clock, timestamp_usec of the next call
    nextTid,    \* the publisher's transfer-ID counter
    wait,       \* ticks before the publisher may publish again
    sent,       \* sent[n]: transfer n as published
    bus,        \* bus[i]: the frames in flight on interface i and when they were sent
    rx,         \* the CanardRxState, or NoState
    stored,     \* what the frames taken of the transfer under way carried
    delivered,  \* what on_reception was called with, in order
    gone,       \* <<n, k, i>>: interface i lost frame k of transfer n
    budget      \* how many losses, repetitions and restarts are left

vars == <<traffic, now, nextTid, wait, sent, bus, rx, stored, delivered, gone, budget>>

NoState == [none |-> TRUE]

Ifaces == traffic.ifaces

(* createRxState: all fields zero. *)
NewState ==
    [timestamp |-> 0, tid |-> 0, toggle |-> FALSE, iface |-> 0,
     len |-> 0, wrapped |-> FALSE, blocks |-> {}, crc |-> <<>>, expected |-> <<>>]

-----------------------------------------------------------------------------
(* What a published transfer looks like on the wire: enqueueTxFrames.        *)

ZeroChunk == <<0, 0>>
Chunk(n, k) == IF sent[n].zero THEN ZeroChunk ELSE <<n, k>>
Payload(n) == [k \in 1 .. sent[n].frames |-> Chunk(n, k)]

(* The register after crcAddSignature, and after crcAdd. *)
Seeded == << <<0, 1>> >>
CrcAdd(register, chunk) ==
    IF register = <<>> /\ chunk = ZeroChunk THEN <<>> ELSE Append(register, chunk)
TransferCrc(n) == Seeded \o Payload(n)

(* The frame at the head of interface i, with what its tail byte says. *)
Frame(i) ==
    LET n == Head(bus[i])[1]
        k == Head(bus[i])[2]
    IN  [n |-> n, chunk |-> Chunk(n, k), iface |-> i,
         sot |-> k = 1, eot |-> k = sent[n].frames, toggle |-> k % 2 = 0,
         tid |-> sent[n].tid]

-----------------------------------------------------------------------------
(* canardHandleRxFrame, one disjunct per way out of the function. *)

Session == IF rx = NoState THEN NewState ELSE rx
Current(f) == Synchronised(Session, f, now)
Kept(f) == IF NeedRestart(Session, f, now) THEN <<>> ELSE stored

(* findRxState found a state, or traverseRxStates made one. *)
HasState(f) == rx # NoState \/ f.sot

MissedStart(f) == ~HasState(f) /\ UNCHANGED <<rx, stored, delivered>>

NoMemoryForState(f) ==
    /\ rx = NoState /\ f.sot /\ MemoryShort
    /\ UNCHANGED <<rx, stored, delivered>>

RestartInTheMiddle(f) ==
    /\ HasState(f) /\ ~f.sot
    /\ NeedRestart(Session, f, now)
    /\ rx' = SkipTransfer(Session, f)
    /\ stored' = <<>>
    /\ UNCHANGED delivered

Synchronising(f) == HasState(f) /\ (f.sot \/ ~NeedRestart(Session, f, now))

OtherIface(f) ==
    /\ Synchronising(f)
    /\ f.iface # Current(f).iface
    /\ UNCHANGED <<rx, stored, delivered>>

Expected(f) == Synchronising(f) /\ f.iface = Current(f).iface

(* What on_reception is called with.  Its timestamp is that of the frame; lag *)
(* is how much later that is than the first frame of the transfer.           *)
Transfer(f, payload, started) ==
    [n |-> f.n, payload |-> payload, lag |-> now - started]

SingleFrame(f) ==
    /\ Expected(f) /\ f.sot /\ f.eot
    /\ rx' = PreparedForNext([Current(f) EXCEPT !.timestamp = now])
    /\ stored' = <<>>
    /\ delivered' = Append(delivered, Transfer(f, <<f.chunk>>, now))

OfMultiFrame(f) == Expected(f) /\ ~(f.sot /\ f.eot)

Rejected(f) ==
    /\ OfMultiFrame(f)
    /\ f.toggle # Current(f).toggle \/ f.tid # Current(f).tid
    /\ rx' = Current(f)
    /\ stored' = Kept(f)
    /\ UNCHANGED delivered

Accepted(f) ==
    OfMultiFrame(f) /\ f.toggle = Current(f).toggle /\ f.tid = Current(f).tid

StartTransfer(f) ==
    /\ Accepted(f) /\ f.sot
    /\ rx' = Toggled([Current(f) EXCEPT
                !.timestamp = now, !.len = Lengthened(0, StartBytes),
                !.wrapped = FALSE,
                !.expected = TransferCrc(f.n), !.crc = CrcAdd(Seeded, f.chunk)])
    /\ stored' = <<f.chunk>>
    /\ UNCHANGED delivered

(* The chain after bufferBlockPushBytes. *)
ChainAfter(f) ==
    BlocksAfter(Cardinality(Current(f).blocks), Current(f).len, FrameBytes)

ContinueTransfer(f) ==
    /\ Accepted(f) /\ ~f.sot /\ ~f.eot
    /\ rx' = Toggled([Current(f) EXCEPT
                !.len = Lengthened(@, FrameBytes),
                !.wrapped = @ \/ Current(f).len + FrameBytes >= LenMod,
                !.blocks = 1 .. ChainAfter(f), !.crc = CrcAdd(@, f.chunk)])
    /\ stored' = Append(Kept(f), f.chunk)
    /\ UNCHANGED delivered

(* bufferBlockPushBytes needs a block and there is none. *)
StorageExhausted(f) ==
    /\ Accepted(f) /\ ~f.sot /\ ~f.eot
    /\ MemoryShort
    /\ ChainAfter(f) > Cardinality(Current(f).blocks)
    /\ rx' = PreparedForNext(Released(Current(f)))
    /\ stored' = <<>>
    /\ UNCHANGED delivered

(* What the head, the blocks and the last frame hold, and payload_len says. *)
Overwritten == << <<0, 2>> >>
Handed(f) ==
    IF Current(f).wrapped THEN Overwritten ELSE Append(Kept(f), f.chunk)

(* Seeded defect: the transfer is handed over before its CRC is looked at. *)
EndTransfer_IgnoresCrc(f) ==
    LET st == Current(f)
    IN  /\ Accepted(f) /\ ~f.sot /\ f.eot
        /\ rx' = PreparedForNext([st EXCEPT !.blocks = {}, !.crc = CrcAdd(@, f.chunk)])
        /\ stored' = <<>>
        /\ delivered' = Append(delivered,
                         Transfer(f, Handed(f), st.timestamp))

EndTransfer(f) ==
    LET st == Current(f)
        crc == CrcAdd(st.crc, f.chunk)
    IN  /\ Accepted(f) /\ ~f.sot /\ f.eot
        /\ rx' = PreparedForNext([st EXCEPT !.blocks = {}, !.crc = crc])
        /\ stored' = <<>>
        /\ delivered' =
             IF crc = st.expected
             THEN Append(delivered,
                         Transfer(f, Handed(f), st.timestamp))
             ELSE delivered

HandleRxFrame(f) ==
    \/ MissedStart(f)
    \/ NoMemoryForState(f)
    \/ RestartInTheMiddle(f)
    \/ OtherIface(f)
    \/ SingleFrame(f)
    \/ Rejected(f)
    \/ StartTransfer(f)
    \/ ContinueTransfer(f)
    \/ StorageExhausted(f)
    \/ EndTransfer(f)

-----------------------------------------------------------------------------
(* The environment: the publisher, the buses, the clock. *)

InFlight == UNION {{bus[i][j][1] : j \in DOMAIN bus[i]} : i \in Ifaces}

(* A transfer goes to every interface, as the frames of a TX queue with all   *)
(* the bits of iface_mask set do.                                            *)
Publish(frames, zero) ==
    LET n == Len(sent) + 1
    IN  /\ n <= traffic.transfers
        /\ now <= traffic.until
        /\ wait = 0
        /\ wait' = traffic.period
        /\ Cardinality(InFlight) < traffic.outstanding
        /\ sent' = Append(sent, [frames |-> frames, zero |-> zero,
                                 tid |-> nextTid])
        /\ nextTid' = NextTransferId(nextTid)
        /\ bus' = [i \in Ifaces |-> bus[i] \o [k \in 1 .. frames |-> <<n, k, now>>]]
        /\ UNCHANGED <<traffic, now, rx, stored, delivered, gone, budget>>

(* The publishing node reboots: its counters start again, what it has put on   *)
(* the bus still arrives.                                                   *)
RestartPublisher ==
    /\ budget.restarts > 0
    /\ nextTid # 0
    /\ nextTid' = 0
    /\ budget' = [budget EXCEPT !.restarts = @ - 1]
    /\ UNCHANGED <<traffic, now, wait, sent, bus, rx, stored, delivered, gone>>

Receive(i) ==
    /\ bus[i] # <<>>
    /\ HandleRxFrame(Frame(i))
    /\ bus' = [bus EXCEPT ![i] = Tail(@)]
    /\ UNCHANGED <<traffic, now, nextTid, wait, sent, gone, budget>>

(* The bus repeats a frame whose acknowledgement was disturbed: it is handled *)
(* now, and it is still to come.                                             *)
ReceiveAndRepeat(i) ==
    /\ bus[i] # <<>>
    /\ budget.repeats > 0
    /\ RepeatSingles \/ ~(Frame(i).sot /\ Frame(i).eot)
    /\ HandleRxFrame(Frame(i))
    /\ budget' = [budget EXCEPT !.repeats = @ - 1]
    /\ UNCHANGED <<traffic, now, nextTid, wait, sent, bus, gone>>

Lose(i) ==
    /\ bus[i] # <<>>
    /\ budget.losses > 0
    /\ gone' = gone \cup {<<Head(bus[i])[1], Head(bus[i])[2], i>>}
    /\ bus' = [bus EXCEPT ![i] = Tail(@)]
    /\ budget' = [budget EXCEPT !.losses = @ - 1]
    /\ UNCHANGED <<traffic, now, nextTid, wait, sent, rx, stored, delivered>>

(* Seeded defect: a state that is in the middle of a transfer is spared. *)
Cleanup_SparesIncomplete ==
    /\ rx # NoState
    /\ OlderThan(rx, now, TransferTimeout) /\ rx.blocks = {}
    /\ rx' = NoState
    /\ stored' = <<>>
    /\ UNCHANGED <<traffic, now, nextTid, wait, sent, bus, delivered, gone, budget>>

(* canardCleanupStaleTransfers, which the application calls about once a      *)
(* second.                                                                  *)
Cleanup ==
    /\ rx # NoState
    /\ OlderThan(rx, now, TransferTimeout)
    /\ rx' = NoState
    /\ stored' = <<>>
    /\ UNCHANGED <<traffic, now, nextTid, wait, sent, bus, delivered, gone, budget>>

(* Time passes as long as no frame grows older than the delay. *)
Tick ==
    /\ now < traffic.time
    /\ \A i \in Ifaces : bus[i] # <<>> => now - Head(bus[i])[3] < traffic.delay
    /\ now' = now + 1
    /\ wait' = IF wait = 0 THEN 0 ELSE wait - 1
    /\ UNCHANGED <<traffic, nextTid, sent, bus, rx, stored, delivered, gone, budget>>

-----------------------------------------------------------------------------
(* The clock of a running program is past 0, which the code reserves for a    *)
(* state that has not been used.                                            *)
Init ==
    /\ traffic \in Profiles
    /\ now = 1
    /\ nextTid = 0
    /\ wait = 0
    /\ sent = <<>>
    /\ bus = [i \in Ifaces |-> <<>>]
    /\ rx = NoState
    /\ stored = <<>>
    /\ delivered = <<>>
    /\ gone = {}
    /\ budget = [losses |-> traffic.losses, repeats |-> MaxRepeats,
                  restarts |-> MaxRestarts]

Next ==
    \/ \E frames \in traffic.frames, zero \in ZeroKinds : Publish(frames, zero)
    \/ RestartPublisher
    \/ \E i \in Ifaces : Receive(i) \/ ReceiveAndRepeat(i) \/ Lose(i)
    \/ Cleanup
    \/ Tick

(* The main loop polls the driver and calls the cleanup for ever, and the      *)
(* clock does not stop before its bound.                                    *)
Fairness ==
    /\ \A i \in UNION {p.ifaces : p \in Profiles} :
          WF_vars(i \in Ifaces /\ Receive(i))
    /\ WF_vars(Cleanup)
    /\ WF_vars(Tick)

Spec == Init /\ [][Next]_vars
FairSpec == Spec /\ Fairness

-----------------------------------------------------------------------------
(* Properties *)

(* Every variable keeps its shape; the fields of the state keep the ranges of  *)
(* their bit-fields.                                                        *)
TypeOK ==
    /\ traffic \in Profiles
    /\ now \in 1 .. traffic.time
    /\ nextTid \in TransferId
    /\ sent \in Seq([frames : traffic.frames, zero : ZeroKinds,
                     tid : TransferId])
    /\ \A i \in Ifaces : \A j \in DOMAIN bus[i] :
          bus[i][j][1] \in DOMAIN sent /\ bus[i][j][2] \in 1 .. sent[bus[i][j][1]].frames
    /\ rx # NoState =>
          /\ rx.timestamp \in 0 .. now
          /\ rx.tid \in TransferId
          /\ rx.toggle \in BOOLEAN
          /\ rx.iface \in Ifaces
          /\ rx.len \in 0 .. LenMod - 1
          /\ rx.wrapped \in BOOLEAN
          /\ rx.blocks = 1 .. Cardinality(rx.blocks)
    /\ \A j \in DOMAIN delivered : delivered[j].n \in DOMAIN sent

(* The subscriber sees a channel that loses transfers and does nothing else:   *)
(* canardHandleRxFrame calls on_reception at most once for a transfer however  *)
(* many interfaces carry it and however often its frames are repeated, never   *)
(* out of order, and never with a payload put together from two transfers.  The *)
(* payload is whole if payload_len can count what is stored of it.             *)
Fits(n) == FrameBytes * (sent[n].frames - 1) < LenMod

Channel ==
    INSTANCE TransferChannel WITH
        published <- Len(sent),
        last <- IF delivered = <<>> THEN 0 ELSE delivered[Len(delivered)].n,
        intact <- \A j \in DOMAIN delivered : Fits(delivered[j].n) =>
                     delivered[j].payload = Payload(delivered[j].n)

ImplementsChannel == Channel!Spec

(* How many frames of transfer n interface i has lost. *)
Missing(n, i) == Cardinality({k \in 1 .. sent[n].frames : <<n, k, i>> \in gone})
Delivered(n) == \E j \in DOMAIN delivered : delivered[j].n = n

(* Losing frames of one transfer costs no other: on one interface, a transfer   *)
(* whose frames all arrived has been delivered, whatever the state was left in *)
(* by the frames before it (canardHandleRxFrame restarts the state in time).   *)
EveryWholeTransferDelivered ==
    Cardinality(Ifaces) = 1 => \A n \in DOMAIN sent \ InFlight :
        (\A i \in Ifaces : Missing(n, i) = 0) => Delivered(n)

(* Fail-over, for a publisher whose period exceeds the switch delay and the     *)
(* delay of the frames: when an interface dies, canardHandleRxFrame moves the   *)
(* state to another one, and a transfer that only that one carries is delivered. *)
FailoverDelivers ==
    traffic.period > IfaceSwitchDelay + traffic.delay => \A n \in DOMAIN sent \ InFlight :
        /\ \E i \in Ifaces : Missing(n, i) = 0
        /\ \A i \in Ifaces : Missing(n, i) \in {0, sent[n].frames}
        => Delivered(n)

(* The assertion of prepareForNextTransfer: when a transfer has been handed    *)
(* over, or given up, the state owns no block.                               *)
NoBlockAfterTransfer ==
    [][rx # NoState /\ rx' # NoState /\ stored' = <<>> => rx'.blocks = {}]_vars

(* The blocks of a transfer that is never finished are given back: the next    *)
(* transfer restarts the state, or canardCleanupStaleTransfers removes it.      *)
StorageReclaimed ==
    (rx # NoState /\ rx.blocks # {}) ~> (rx = NoState \/ rx.blocks = {})

-----------------------------------------------------------------------------
(* What the documentation says and the code does not do; each fails in a run   *)
(* of its own.                                                               *)

(* canard.h on CanardRxTransfer.timestamp_usec: "Timestamp at which the first   *)
(* frame of this transfer was received."                                     *)
TimestampOfFirstFrame == \A j \in DOMAIN delivered : delivered[j].lag = 0

(* canard.h on CanardRxTransfer.payload_len: "Effective length of the payload    *)
(* in bytes."  What is delivered is the payload that was sent.                *)
PayloadIsEffective ==
    \A j \in DOMAIN delivered : delivered[j].payload = Payload(delivered[j].n)

(* DESIGN.md, frame reception: a frame that does not match the expected         *)
(* transfer-ID is dropped; so no transfer is reported twice.                   *)
ReportedOnce ==
    \A j, k \in DOMAIN delivered : delivered[j].n = delivered[k].n => j = k
=============================================================================
