# Libcanard in TLA+

This directory models libcanard, the DroneCAN stack for deeply embedded nodes, with its drivers, C++
wrappers and example nodes; it checks the models with TLC and proves the central results with TLAPS. Line
numbers refer to the sources beside it (`src/canard.c` where no file is named); `PROJECT.json`
lists, for every definition that stands for code, the lines it translates.

Contents: [the system](#the-system) · [modules](#modules) · [runs](#runs) · [bounds](#bounds) ·
[fairness](#fairness) · [proofs](#proofs) · [findings](#findings) ·
[what is not modelled](#what-is-not-modelled) · [plan](#plan)

## The system

A node calls the library from one loop: it encodes messages and calls `canardBroadcastObj` or
`canardRequestOrRespondObj`, moves frames from the TX queue to its CAN driver
(`canardPeekTxQueue`, driver, `canardPopTxQueue`), passes received frames to
`canardHandleRxFrame`, which calls back `should_accept` and `on_reception`, and about once a second
calls `canardCleanupStaleTransfers`. The library keeps no thread and no persistent data, and no lock
unless it is built with one. The concurrency is outside: several interfaces bring the frames of one
transfer at different times, frames are lost and repeated, publishers restart, the clock runs on between
calls, callbacks run in the middle of the receive handler, a CAN controller sends and receives on its own.

| Component | State | Operations | Talks to | Hard part | Correct when |
|---|---|---|---|---|---|
| Transfer-ID ring (1097-1116) | 5-bit counters | increment, forward distance | TX counters, RX states | wrap-around, half-window | the previous transfer never looks new; no two IDs are both ahead of each other |
| Reception (403-669) | one `CanardRxState` per descriptor: timestamp, transfer-ID, toggle, interface, length, block chain, two CRC registers | `canardHandleRxFrame`, its ten ways out | pool, callbacks | the restart condition (475-489): four timers and comparisons; redundant interfaces; loss, repetition, restart | the application sees every transfer at most once, whole, in order; a loss costs nothing but itself; an interface that dies is replaced |
| Cleanup (671-736) | - | `canardCleanupStaleTransfers` | RX states, TX queue, pool | a state removed while its transfer goes on | storage of dead transfers comes back |
| Memory pool (1891-1960) | free list, capacity, current and peak usage | `initPoolAllocator`, `allocateBlock`, `freeBlock` | everything that stores | exhaustion half-way through an operation; release in and after the callback | every block has one owner; the statistics are exact |
| Payload storage (1551-1656, 1005-1018) | head in the state, chain of blocks, tail in the last frame | `bufferBlockPushBytes`, `descatterTransferPayload`, `canardReleaseRxTransferPayload` | pool, RX state | failing push; one scalar over three areas | the chain fits the payload length; what is read is what was sent |
| Framing, classic and CAN FD (230-312, 1160-1284) | - | `calculateCRC`, `enqueueTxFrames` | pool, TX queue | the count of frames against the loop that makes them; padding computed twice | a transfer is queued whole or not at all; its CRC is accepted |
| TX queue (1289-1390, 387-401) | sorted list of frames | `pushTxQueue`, `isPriorityHigher`, peek, pop | pool, driver loop | equal identifiers; deadlines; driver failures | priority order, first-in first-out per identifier, transfers together |
| Transfer-ID counters of the sender (182-228, 355-385) | one counter per descriptor, owned by the application | advance on success | receivers | refused transfers | consecutive IDs |
| Local node-ID (110-133) | `node_id` | set, forget | sending, service reception | changes while transfers are under way | services only when set |
| Identifiers, CRC (1406-1450, 1853-1889) | - | build and take apart identifiers, add to a CRC | framing, reception, multicast | fields of three layouts; anonymous discriminator | the receiver reads what the sender put in |
| Scalar codec, float16 (738-1003, 1025-1092) | - | encode, decode, convert | payload storage | bit offsets, signs, byte orders, rounding | decode is the inverse of encode; no neighbour is touched |
| C++ wrappers (`canard/*.h`) | handler lists, transfer-ID tables, client and server objects | publish, request, respond, dispatch | the C API, callbacks of the application | lists changed while they are walked; two clients on one counter; refused requests, late answers | each handler is called once; an answer that someone waits for goes to the client that asked, or to one whose own request was refused |
| STM32 driver (`drivers/stm32`) | three mailboxes, two FIFOs, filter banks, statistics, abort flag | transmit, receive, configure, init | controller | mailboxes arbitrate by identifier only; aborts on error; overrun flag; filters changed while frames wait | order of equal identifiers is kept both ways; losses are not over-counted |
| SocketCAN, multicast, Linux, AVR, NuttX drivers | file descriptors | open, close, transmit, receive | operating system | an answer for every system call; a step of the opening that fails | the loop goes on; no descriptor is left open |
| Threaded builds (`CANARD_ALLOCATE_SEM`) | a semaphore around the pool | the senders and the receivers of two threads | pool | what is read outside the semaphore | blocks and statistics stay exact |
| Example nodes (`examples/`) | node-ID, settings file, firmware file, allocation and update state | main loop, message handlers | allocator, file server, operator | requests of two nodes that collide; reads repeated, lost, late; crash and restart | one node per ID; the file received is the image; the node settles |

The hazards, with the line where each bites and the properties that look at it, are in
`PROJECT.json`.

## Modules

```
CanardTransferID ── CanardSession ─┬ CanardRx ──────── MCCanardRx
                                   │    ├ refines TransferChannel
                                   │    └ CanardRxProofs
                                   └ CanardNode ────── MCCanardNode
                                        └ CanardNodeProofs
CanardPriority ──── CanardTxQueue ──── CanardTxPath ─┬ MCCanardTxPath
                       │                │            └ CanardTxProofs
                       │                └ with CanardSTM32, CanardSocket
                       └ refines PriorityFifo

CanardScalar ── CanardPayload ─┬ MCCanardPayload ─────────────┐
                               └ CanardPayloadProofs          ├ MCCanardCodec
CanardWire ── CanardSTM32Words, CanardFloat16, ─┐             │
              CanardSocket, CanardPriority ─────┴ CanardTables┘
                                                    └ CanardTablesProofs

EscPrograms ── EscNode ─┬ MCEscNode        CanardServices ─┬ MCCanardServices
                        └ EscNodeProofs                    └ CanardServicesProofs
                                           CanardThreads ─── CanardThreadsProofs
```

Reception:

* **CanardTransferID** is the arithmetic of the ring. `TidMod` stands for the 32 of
  `TRANSFER_ID_BIT_LEN`.
* **CanardSession** has what `canardHandleRxFrame` decides from one RX state and one frame:
  the restart condition, the restart itself, `prepareForNextTransfer`, and what `bufferBlockPushBytes` makes of
  `payload_len` and the chain: the sum is cut to 10 bits (`Lengthened`, 1570 and 1642), and a frame without payload opens
  an empty block when the head or the last block is exactly full (`BlocksAfter`, 1559, 1594-1617). `wrapped` is history:
  `payload_len` has wrapped since the transfer began.
  Two modules share it, so the protocol and the memory are about the same decisions.
* **CanardRx** is the protocol: a publisher that frames transfers as `enqueueTxFrames` does, redundant
  buses that delay, lose and repeat frames, and one subscriber. `HandleRxFrame` has one disjunct for
  each way out of the C function. The unsigned subtractions are kept (`OlderThan`), payload bytes and CRC
  registers are symbolic: a register is the sequence of what was added, except that zero bytes leave
  a zero register zero, which is true of the CRC. The buses and the publisher follow a profile that the
  first state chooses.
* **TransferChannel** is what `CanardRx` implements: a channel that loses transfers and does nothing
  else. The mapping takes the number of published transfers, the last one delivered, and whether every
  payload delivered was the one sent.
* **CanardNode** is one instance and its memory. Blocks have identities. A frame is anything that can
  come in, its CRC right or wrong, so every path of the handler is taken from every state; the callback
  is a separate step (`handling` names the state it looks at), so that what an application
  does inside it interleaves. `heard` is a history field. The usage statistics follow the order
  of the calls inside an operation as far as the peak can tell.

Transmission:

* **CanardPriority** is `isPriorityHigher`, over the parts of the identifier that it compares.
* **CanardTxQueue** is the sending half: the check for free blocks, the insertion, the driver's loop,
  the deadlines, with the rest of the pool as a variable `others`. The insertion of the frames of one
  transfer is one step, as the single-threaded code makes it; `IsPosition` is where the linear search stops.
* **PriorityFifo** is what it implements: a set of frames from which the one that would win arbitration
  is taken, equal identifiers in the order in which they came.
* **CanardSTM32** is the bxCAN driver with the controller under it. Driver calls and the actions of the
  controller (a mailbox is sent or aborted, a frame arrives, an error is seen) interleave. Receiving is
  two steps, because the controller can put a frame into the FIFO between the reading of its head and the
  release (canard_stm32.c:387-446). `lost` and `epoch` are history. After the start-up the one bank of zeros passes either
  everything, as canard_stm32.h:161 says, or the standard data frames only, as the table at canard_stm32.c:505-512
  has it (`DefaultBank`).
* **CanardSocket** says what the drivers over system calls return for each answer, and what each step of an
  opening leaves behind when it fails.
* **CanardTxPath** composes these: the loop `processTxRxOnce` with one of the five drivers, the
  application's calls between two turns, the bus. It extends `CanardTxQueue`, so that the
  queue's steps are the same formulas, and refines it.

Data:

* **CanardScalar** and **CanardPayload**: an array of bytes is the set of the positions of its one bits, so that
  copying is arithmetic on positions. A transfer is encoded scalar by scalar, cut into frames with their CRC
  and padding, stored in head, blocks and tail with old bits in what was not written, and decoded.
* **CanardFloat16** works on the bit patterns of binary32 as integers; its multiplication is a rounding.
* **CanardWire** has identifiers, descriptors, the anonymous discriminator, the CRC bit by bit, and the packet
  of the multicast driver. **CanardSTM32Words** has the register and filter words and the search for
  bit timings; a word is a set of bits there, too.
* **CanardTables** states what these functions should compute (long division for the CRC,
  midpoints for the rounding, the documented comparison for a filter) and takes them one input at a time. A bank of
  the STM32 controller treats EFF and RTR, the special bits, as the table at canard_stm32.c:505-512 does (`Passes`): a frame
  that has one of them set passes only a filter that has it set, whatever the mask.

Around the core:

* **CanardServices** is `src/canard/*.h`: lists of handlers as pointers, with the program creating,
  destroying and sending between two transfers and in callbacks; the transfer-ID tables; remote nodes
  that answer in any order or not at all. `canard.c` is a FIFO of whole transfers here. The allocation of a counter may
  fail: a broadcast is refused then (`NoCounter`). `Client::request` dereferences the null pointer (service_client.h:110), after
  which there is no program to speak of, so requests are those that have got their counter.
* **EscPrograms** has what differs between the five example programs: messages they handle, parameters, demands,
  telemetry. **EscNode** is what they share: node-ID allocation, parameters and the settings file, firmware update, restart and
  the main loop, with an allocator, a file server and an operator around them. A handler is the set of its outcomes (memory, files,
  transfers to send, faults met), so that the failing branches stand beside the others.
* **CanardThreads** takes the pool apart for two threads: semaphore, reading the head, unlinking, counting
  are steps of their own, and the check of `enqueueTxFrames` reads the statistics without the semaphore,
  as the code does.

**MC\*** modules hold the model values, profiles and scenarios that a configuration cannot write down;
**\*Proofs** modules hold the theorems. Operators named `X_Something` and commented "seeded defect" are
variants of `X` with a plausible mistake; each property of a passing run was seen to fail when one
of them takes the place of `X`.

## Runs

| Run | Question | Checked | Distinct states |
|---|---|---|---|
| `rx_traffic` | does a loss cost any transfer but its own; are two interfaces, one behind the other, ever mixed; does a dead interface get replaced? | `TypeOK`, `EveryWholeTransferDelivered`, `FailoverDelivers`, `ImplementsChannel` | 450 thousand |
| `rx_faults` | losses, repeated frames, restarts, timeouts, failing allocations at once: still a channel, and do the blocks of unfinished transfers come back? | `ImplementsChannel`, `NoBlockAfterTransfer`, `StorageReclaimed` | 73 thousand |
| `tx_path` | from the application to the bus and back: is order kept, is a transfer cut, does the queue drain, does the node go on receiving? | `PathTypeOK`, `Sorted`, `UnbrokenTransfers`, `ConsecutiveTids`, `ImplementsFifo`, `MailboxesDistinct`, `WireInOrder`, `DeliveredInOrder`, `OverflowsAreLosses`, `Drains`, `KeepsReceiving` | 140 thousand |
| `node_pool` | two interfaces, a node-ID that comes and goes, three blocks: are all blocks accounted for on every path, and does the whole pool come back when the traffic stops? | `TypeOK`, `OneOwner`, `NothingLeaks`, `StatisticsExact`, `ChainMatchesLength`, `AllComesBack` | 107 thousand |
| `codec` | do the pure algorithms compute what they should? | `FieldsSurvive`, `NeighboursUntouched`, `AcceptedWhole`, `Float16Faithful`, `IdentifiersAgree`, `ErrorsDetected`, `FiltersAsMeant`, `RegistersAgree`, `TimingsExact`, `DescriptorsClosed` | 45 thousand |
| `services` | handlers that come and go in callbacks, clients that share a counter | `EachOnce`, `AnswersFindAskers` | 146 thousand |
| `esc` | node-ID allocation, update, parameters, restart and crash of the example nodes | `EscTypeOK`, `OneNodePerId`, `FileIsImage`, `Settles` | 185 thousand |

Five more runs are expected to fail; see [findings](#findings). All runs switch deadlock checking off,
because a system whose traffic and clock have reached their bounds stops. `codec` has no fairness and
short behaviours: one transfer on its way, or one input.

## Bounds

**Reception.**

* `TidMod = 4` instead of 32: the ring wraps within a run. The code's conditions
  compare a distance with 1 and with half the ring; 4 is the smallest ring where these differ.
* `TransferTimeout` and `IfaceSwitchDelay` (2 s and 1 s) are one to five ticks, the delay never longer;
  the clock of a profile lets both run out, and a transfer be started after that.
* The other profiles have frame counts of 1 to 4. A start frame of 5 bytes just fits the head of the state
  (the assertion on the memory layout), and the last frame is never stored, so a block appears with the
  second frame of a transfer of 3 or more; with 2 the transfer never looks incomplete to the restart condition
  (`Slow`), with 4 it does for half of its length (`Lossy`, `Faulty`).
* `outstanding` and `delay` bound the skew between interfaces. They are sharp: with more than
  `TidMod / 2` transfers outstanding, or with frames older than `TransferTimeout`, `rx_traffic` fails,
  as it must for a code that knows transfers by a few bits and a timer.
* `EveryWholeTransferDelivered` is about one interface (`Lossy`). With two, the switch after
  `IFACE_SWITCH_DELAY_USEC` may move the state to an interface that is behind or ahead in the middle of
  a transfer, and whole transfers are skipped; that is how the protocol works. `FailoverDelivers` is about two
  interfaces under a publisher that waits longer than the switch delay (`Slow`).
* `RepeatSingles = FALSE` in the runs for the channel: the code takes a repeated single frame as a new
  transfer, which the run `rx_repeated_single` shows. `ZeroKinds = {FALSE}` likewise, for
  `rx_zero_payload`.
* The clock starts at 1: 0 marks a state that has not been used (`timestamp_usec == 0`, 475).
* `LenMod` is 24 instead of 1024, and the profile `Long` has transfers of five frames, of which the fourth stored one (26 bytes)
  wraps `payload_len`. What is
  delivered then is not the payload, since the push overwrites what it stored first; `ImplementsChannel` promises the payload
  for transfers that fit (`Fits`), and the order of delivery for all.

**Transmission** (`tx_path`, seven scenarios). Lengths are below 65534 (`TxQueueAssumption`): from there on the 16-bit sum at 1223
wraps, and the check asks for fewer blocks than the loop takes. `Capacity = 4` and `Lengths = {7, 8, 13}` put transfers on both sides of a frame
boundary (13 needs a third frame for its last byte), so that they are refused, fit exactly, and fit
with room. `Sending`, `Crowded` and `Counting` are about the queue (other users of the pool, lifetimes that end in another
order than they began, five transfers under one counter of modulus 4); `Stuck` is a socket that never
takes a frame; `Mailing` has four identifiers for three mailboxes, one of them
above and one below the others; `Framing` has transfers of several frames on a bus with errors and aborts;
`Receiving` has FIFOs of depth 2 that overflow with three frames of each of two identifiers, and filters that
overlap and change once. The proofs lift these bounds.

**Memory** (`node_pool`). Frames of 4 bytes and of none, a head of 2 bytes and blocks of 5. The start frame fills the head, so that a
frame without payload behind it opens an empty block, and `payload_len` wraps at 8, after the second frame
of 4 bytes; the transfer goes on taking blocks until the pool of three is exhausted. Two descriptors competing for the pool is covered by
the proofs, which are for any set of descriptors.

**Data** (`codec`). All lengths of 0 to 200 bytes without scalars, in classic and FD frames; widths around every
byte boundary at every offset in a byte, signed or not, both byte orders; scalars across the head, several blocks
and the tail for several storage sizes; frames that another implementation did not fill. All 31744 half-precision
numbers with both sides of every midpoint. Packets of 1 to 3 data bytes. Identifiers, filters and timings at the ends of their ranges; error
bursts of at most 16 bits anywhere in a packet, which is what a 16-bit CRC promises. The proofs lift these bounds.

**Wrappers** (`services`). Two buckets, so that types share one; `TidMod = 3` with four requests, so that
transfer-IDs are used twice; the promise about answers is limited to requests less than one round old
(`Recent`), since the code has 5 bits to tell them apart. `AnswersFindAskers` speaks of every client, called or not: if one waits
for the answer, the answer is handed out, and to that one, unless a client takes it whose own latest request was
refused. Such a client has recorded the server and the transfer-ID all the same (service_client.h:110-112), and the walk stops
behind it (handler_list.h:95-98), so the one that asked is never called; the run reaches this case.

**Example nodes** (`esc`). Two nodes, nine scenarios; a tick is about 250 ms. The constants keep the order of
the periods: a follow-up request comes (0 or 1 tick after the answer) before the allocator forgets the query (2), a
new first request (2 or 3 ticks) after that, and a read is repeated after 3. A unique ID has three parts, as it takes three requests to send one. Between 0
and 3 of each of losses, delays, commands, late seconds and faults.

## Fairness

The library runs when it is called. The liveness properties therefore assume what the documented main
loop does for ever (`src/examples/SimpleNode/simple_node.c:206-253`, and canard.h on the cleanup):

* `rx_faults`: weak fairness of reception on every interface, of the cleanup and of the clock.
* `node_pool`: weak fairness of the callback's return, of the removal of a frame from the TX queue
  (sent or given up) and of the cleanup. The clock has strong fairness: a callback that runs
  disables `Tick` for a moment, and real time does not wait for that. Reception is not fair: frames stop
  at any point.
* `tx_path`: weak fairness of the loop and of the controller's sending; strong fairness of a socket's
  taking a frame, whose `poll` may say no again and again. A scenario whose socket is never
  ready is left out of `Drains`, and is what `KeepsReceiving` is about. Senders are finite, otherwise a stream of
  urgent frames starves the others, as on any priority bus.
* `esc`: weak fairness of all programs, allocator, server and time together. Time waits for the loops, which
  are faster by orders of magnitude, so none of them starves. Two nodes that ask for an ID at the same time
  may collide for ever if their random delays are always equal; `Settles` excepts just that.

## Proofs

Proved for every value of the constants that satisfies the modules' assumptions:

* **CanardRxProofs**, first part, the ring: `NextIsOneAhead`, `PreviousIsNotAJump`, `AheadIsAntisymmetric`,
  `BehindIsNotAhead`, for a ring of any even size of at least 4. They are why late frames of a finished
  transfer do not restart the state, why two interfaces do not make it switch to and fro, and why one that lags
  is not taken for one that leads.
* **CanardRxProofs**, the rest: what a subscriber is delivered; see [below](#reception-proved).
* **CanardTxProofs**, first half, the queue: `PriorityIsStrictTotalOrder`; `FramesCheckIsExact` (up to 65533 bytes the count is what the loop makes, hence in a single thread the assertion
  at canard.c:1238 never fires), `QueueFitsThePool` (lengths up to the same bound), `QueueIsSorted`, `TransfersStayTogether`,
  `QueueImplementsFifo`, `CountersAreConsecutive`. The inductive invariant is the conjunction of type,
  order and unbrokenness: `TypeOK` says that queued frames belong to accepted transfers, so a new transfer
  comes after all of them; the totality of the priority order then makes the insertion point
  separate the queue (`PositionSeparates`), and a transfer is never cut because its frames have equal
  identifiers. Removal is treated once, for any subsequence that loses no frame in the middle of a
  transfer (`SubsequenceStep`): the pop and the cleanup are its instances; for the
  cleanup this needs that an increasing enumeration of a finite set leaves nothing out
  (`EnumerationIsOnto`). For the counters, the invariant is strengthened by `CounterFollows`: the
  counter is one ahead of the last transfer accepted under it.
* **CanardTxProofs**, second half, queue and drivers: `PathImplementsQueue` (every step of the path is a step of `CanardTxQueue` or leaves its
  variables alone), from which `PathKeepsOrder`, `PathKeepsTransfers`, `PathCounts` and `PathImplementsFifo`
  follow for the whole path, by citing the queue's theorems. Then the drivers: `PathKeepsShape`, `NoTwoOfOneIdentifier`, `WireKeepsOrder`,
  `DeliveryKeepsOrder`, `OverflowsCountLosses`, for any identifiers, any FIFO depth and any filters. The
  invariant `PathInv` adds to the queue's own
  - `DriverInv`, the shape of the driver's state;
  - `MailInv`: for each identifier, what was sent precedes what is in a mailbox, that precedes what is queued, and no two
    mailboxes share one. The guard against priority inversion keeps the last part, and the three orders keep each other:
    a frame enters a mailbox from the head of the sorted queue, so nothing of its identifier is ahead of it;
  - `CountInv`: overflows not yet counted are at least as many as the flags that announce them, for each FIFO;
  - `OrderInv`: a FIFO holds frames in the order of arrival, and while the filters stay, frames of one identifier are
    in one FIFO only. Without the second half, a frame could overtake in the other FIFO.
* **CanardThreadsProofs**: `ThreadsShareNoBlock` and `ThreadsCountExactly`, under the semaphore. Mutual
  exclusion comes first: who is inside the allocator holds the semaphore. What the statistics are behind
  the free list depends on the place of the holder (`Behind`), and is nothing when nobody holds it. No run lists these two
  invariants: the only run of the module is the one that shows what the semaphore does not protect.
* **CanardNodeProofs**: `TypeCorrect`, `NoSharedBlock`, `NoBlockLost`, `StatisticsAreExact`,
  `ChainsMatchLengths`. None of the five is inductive alone: `usage` is right only because what is
  given back is in use and what is taken is free, which is the partition; the partition survives a
  push only because the chain has the length that the state says. So the five are proved together. `ChainsMatchLengths` says
  that the chain has room for `payload_len` bytes and no block too many, but for the empty one that a frame without
  payload opens (`Fitting`); when `payload_len` has wrapped it says nothing, as the code itself no longer knows.

* **EscNodeProofs**, first half, the node-IDs: `EscTypeCorrect`, `OneIdPerNode`, for any number of nodes, any unique IDs, programs,
  commands and budgets of losses, delays and faults. `OneNodePerId` speaks of the nodes only; its invariant
  `EscInv` speaks of everything between a node and the allocator. What is on its way to a node with a whole unique ID
  is in the allocator's table (`Received`); the table is one to one (`AllocatorOK`), for which the allocator must take an
  ID that is not in it, the greatest that is left (`MaxIsIn`); and the ID of a node, the one that its settings hold
  and the one saved in its file are its own (`NodeOK`, `DiskOK`, `Owned`). A node takes an ID only when the unique ID
  of the answer is its own to the last part, `WholeMatch`: this is what the seeded defect
  `Matches_FirstPart` breaks. Each handler is proved by a lemma about all its outcomes, and the turns of the loop
  by joining them (`Joined`, `TurnDone`).
* **EscNodeProofs**, second half, the update: `FileFollowsImage`, the theorem about `FileIsImage`, for any images, read
  timeout, number of nodes, losses and faults; see [below](#the-firmware-file-proved).
* **CanardServicesProofs**: `HandlersCalledOnce` (about `EachOnce`) and `AnswersToTheirAskers` (about
  `AnswersFindAskers`), for any handlers, services, interfaces, buckets, remote nodes and ring;
  see [below](#the-wrappers-proved).
* **CanardPayloadProofs**: `WhatIsEncodedIsDecoded` (about `FieldsSurvive`), `EncodingTouchesNoNeighbour`,
  `UndisturbedTransfersPass`, for any scalars, payloads, cuts and storage sizes; see [below](#the-payload-proved).
* **CanardTablesProofs**: the functions that keep no state, for every input they can be given; see
  [below](#the-tables-proved).

### Reception, proved

The handler has some fifteen ways out; the first lemmas of `CanardRxProofs` reduce them to the seven things that
they leave behind (`Outcome`: ignored, skipped, a single frame, begun, continued, given up, ended). Everything after
that is about these seven.

* `RxTypeCorrect` and `NoBlockLeftBehind`: ranges of the bit-fields, `payload_len` masked to its 10 bits among them, and the
  assertion of `prepareForNextTransfer` (1397), on every path.
* `OneBusImplementsChannel`: on one interface the subscriber implements `TransferChannel`, for any losses,
  repeated frames of longer transfers, restarts, timeouts and failing allocations, any number of transfers and
  any ring. The hypothesis `Regular` leaves out what `rx_zero_payload` and `rx_repeated_single` show: payloads of zeros
  and single frames that the bus repeats. `ImplementsChannel` is far from inductive, since it looks at the
  delivered sequence only. `Inv` adds
  - `NothingTwice`: the bus brings no frame of a transfer before the last one delivered, and frames of that
    one only after its first frame and when the state has moved past its transfer-ID;
  - `OneTransfer`: as long as the CRC registers can still become equal (`Open`), the stored bytes and the register are
    the beginning of one transfer, the one whose CRC is expected. When they are not, nothing that can still
    come repairs them (`Hopeless`): this is where the CRC as a sequence is used.
* `RedundantBusesImplementChannel`: the same on any number of interfaces, under `Timely`: the publisher does not restart,
  less than half the ring is outstanding, no frame is older than the transfer timeout. The state leaves its interface
  for two reasons, a timeout and a transfer-ID that is ahead. `SwitchSafe` says that both lead to something
  newer; one interface has it for nothing, several need that the counter of the publisher tells how old a transfer-ID
  is (`Numbered`), that an interface that brings a transfer brings all later ones (`Window`), that the state expects a
  definite transfer newer than its last (`Ahead`), and that its timestamp is as young as the frames of what it has had
  (`Stamped`).
  The hypothesis is slightly narrower than the run: with exactly `TidMod / 2` outstanding, a state that a single-frame
  transfer has moved one too far can take a frame that is behind for one ahead. The profile `Skewed` of
  `rx_traffic` goes to that half, with one loss, and holds by its own bounds.
* `WholeTransfersAreDelivered`: on one interface, every transfer whose frames all arrive is delivered, under `Sparse`:
  no failing allocation, no restart, fewer than `TidMod - 1` losses, no frame older than the transfer timeout. The first three are
  what the property is about; the number is sharp, as after `TidMod - 1` lost single-frame transfers the next one looks like a
  repetition. `LossInv` keeps the place of the bus (`Position`: frame `k` of transfer `h` comes next), what is
  whole before that is delivered, and how the state relates to that place: it has taken `k - 1` frames of `h`, or `k`
  if one is repeated (`InSync`), or it expects a transfer `p <= h` and everything from `p` up to `h` misses
  a frame (`Behind`). Each of those lost at least one frame of its own, so the losses bound `h - p`, and the
  transfer-ID of `h` cannot look like the one before `p`.
* `FailoverUnlessCutOff` and `FailoverIsDelivered`: on any number of interfaces, a transfer that some interface brings
  whole, while each of the others brings all or nothing of it, is delivered, when the publisher waits longer than the
  switch delay and the delays. The hypothesis `Steady` leaves out failing allocations, restarts, repeated frames
  and frames older than the transfer timeout. `FailoverInv` says
  - `Spaced`: only the newest transfer is in flight, and the state is old enough to change its interface when the next
    one comes;
  - `Placed` and `LostIsOff`: how far each interface has come;
  - `Near`: the state expects a transfer `p` such that no interface brought the start of a later one;
  - `Progress`: before anything of the newest transfer is heard, the state is `Ready` to take its start from any
    interface; after that, the transfer is delivered or the state is `Following` an interface, in step with all that
    this one has brought;
  - `Past`: every earlier transfer that could be delivered was.

  There is one more condition, which the proof made explicit: `NeverCutOff`. If all interfaces lose the first frames
  of half a ring of transfers in a row, the next one looks older than the one expected, and is ignored until the
  transfer timeout. The run does not meet this, as two periods of its publisher are longer than the timeout; the theorem
  relates the two in no way. `FailoverIsDelivered` replaces the condition by a bound on the losses: fewer than `Half - 1`
  times the number of interfaces, 15 times with the 32 transfer-IDs of the code.

### The payload, proved

An array of bytes is the set of the positions of its one bits, and each theorem follows these through one more stage.

* Copying: `copyBitArray` goes byte by byte; `CopyIs` says that for any two offsets and any count it pastes the bits of the
  source and leaves the rest of the destination (`Pasted`). The loop is a recursive function, whose definition
  says only that it satisfies its equation; the proofs show that the intended function does, and that no other can: the
  least number at which two solutions differ (`Least`) contradicts the equation. All loops are treated like this, since
  the library's induction theorems are out of the provers' reach.
* Encoding: what a scalar is in the buffer is given by `Weight`, the significance of a position for a given length
  and byte order. `BufferInv`: the scalars encoded so far are in the buffer (`IsField`), and nothing behind them
  has changed. `EncodingTouchesNoNeighbour` is about the step: no bit in front of the scalar or behind it changes when it
  is encoded, and none at all afterwards; `DecodedIs` is the way back, with the sign.
* Framing: `TransferInv`. The frames on their way carry the part of the payload that is still missing (`Carries`), for the
  frames of this library, classic or FD with padding (`MultiCarries`), and for those of another one that fills its
  frames as it likes (`CutCarries`); the CRC register has been given what came so far (`FedUpTo`). At the end both
  ends have computed over the same bytes: `UndisturbedTransfersPass`.
* Storing: `StorageInv`. The head, then the blocks, then the tail hold the payload as far as it came (`Holds`), every
  block but the last is full. When the last frame is in, the payload is in the one frame (`Whole`) or over
  the three areas (`Scattered`).
* Reading: `descatterTransferPayload` copies from each area what the scalar has in it. `Progress` says that what was
  copied is the beginning of the scalar, wherever in the three areas it is; `BlockInv` is the same for its loop over the
  blocks. `ReadIs` joins them, and `WhatIsEncodedIsDecoded` follows from `ReceiverInv`, the conjunction of the
  invariants.

### The tables, proved

The state of `CanardTables` is one input; the work is in what the operators compute.

* `HalvesAreFaithful`: half-precision numbers come back from their conversion, and floats next to a midpoint go to their side
  of it. `EveryFloatRoundsToTheNearest` says the same of every float: a run cannot take all of them.
  Multiplying by a power of two rounds at a place that depends on the exponent, so `TinyConverts` takes the eleven
  exponents of denormal results one by one; `FloatsKeepOrder` says that a greater float never becomes a lesser half, since
  the results for an exponent end where those for the next begin (`Grid`). The midpoints and this order
  determine the conversion.
* `ErrorsAreDetected`: no burst of up to 16 bits in a packet goes unseen. A register that is shifted bit by bit is the rest of
  a long division (`LongDivision`, `CrcIsRemainder`), the division is linear (`CrcLinear`), so an
  error is unseen only if its own polynomial is divisible, which a burst shorter than the divisor is not (`BurstChangesCrc`).
* `IdentifiersAlwaysAgree`: the fields of the three layouts do not overlap, so the identifier comes apart into what went in
  (`IdentifierComesApart`), and the descriptor keeps every field apart (`DescriptorIs`).
* `FiltersPassWhatIsMeant`: a bank of the STM32 controller (`BankPasses`) passes the frames whose identifier agrees with its filter
  under the mask and whose special bits the table lets through, and the filters of the AVR driver
  (`AVRPassesWhatIsMeant`) the messages and the services to the node.
* `RegistersAlwaysAgree`: the order of the mailbox registers is that of `isPriorityHigher`. Registers are numbers to the
  driver; `ValuesCompare` and `HighThenLow` turn the comparison of numbers into one of fields.
* `TimingsAreExact`: the timings that are returned divide the clock as asked, and no admissible split is nearer to the
  sample point of 7/8 (`PointIs`, `SegmentIs`).
* `NoDescriptorLost`: of the two openings, step by step (`SocketIsClosed`, `MulticastIsClosed`).

### The firmware file, proved

`FileIsImage` looks at one node's memory and file. Why it holds lies in the messages: a chunk that comes late, for an
offset already written, must not be written again, and the node tells answers apart by a transfer-ID of 5 bits only.

* The reads of a node and the answers to them are `Items` on one way, from the node's TX queue to the server and back to
  its inbox, where the operator's orders wait, too. `Sooner` orders them by how far they have come; each
  is numbered by how many reads were sent after it (`SinceThen`).
* While an update is under way (`Busy`), these numbers fall along the way, the unanswered reads are all for the next chunk, the
  file is all that came before it, and no number exceeds the delays used so far: the node sends a read again only
  when the timeout ran out, and that costs a delay. When none is under way (`Idle`), what is left of the last life
  of the node comes before the order for the next update, so no late chunk is left when that begins.
* Whatever happens to the bus only moves items on or drops them, which keeps the two (`MovesKeep`). An answer whose
  transfer-ID is that of the last read (esc_node.c:624) has the number 0, hence is the last and for the next chunk:
  `LastAnswer`; numbers below `TidMod` make different transfer-IDs. Every other handler leaves the update alone
  (`QuietOutcome`) or only sends (`SentUpdate`).

### The wrappers, proved

The lists are pointers in the model, as in the code, and callbacks change them under the feet of `handle_message`.

* `EachInv` gives each handler a rank (the younger, the higher; `link` puts a new one in front) that exists in the proof
  only. `Lists` says that every pointer leads to the linked handler of its list with the next lower rank
  (`Below`), or to one that a callback has just destroyed (`gone`), whose pointer still leads on. `Linking`,
  `Unlinking` and `Forgetting` keep it. It is not enough to speak of the linked handlers: the walk may stand on one that is
  gone.
* From this, what the pointers lead to (`From`, a recursive function) is every linked handler below the first one
  and nothing else (`Walked`): ranks fall, so the walk comes to an end within as many steps as there are handlers.
* `Broadcasting`: the handlers called so far were called in falling rank, so none twice; each that was there
  all the time has been called or is still below the place of the walk. For a request or a response the walk
  stops after the one it is for.
* Answers: an invariant, `AskInv`, says of every request on its way, every response, every client and the running callback
  what has been enqueued under their descriptor since (`AskedUnder`): the difference between the counter then and now is the
  number of requests made in between, up to whole rounds of the ring. So two requests that are both less than a round old
  with one transfer-ID are one request. It rests on `Client::request` noting the transfer-ID before
  `canardRequestOrRespondObj` advances the counter, and on the counter staying when a request is refused. If a client
  waits for the answer, the two transfer-IDs agree by the same numbers (`SameTid`), so the answer is for it, and the walk from the
  head of the list finds a client that it is for (`CalledFor`).

### Assumptions

Transfer-ID ring even and at least 4; the switch delay at most the transfer timeout; finite sets of
interfaces in a profile; finite pool; extended data-frame identifiers in the TX queue, at least 4 bytes per frame, payloads of at most 65533 bytes; a FIFO of at
least one place; follow-up delays shorter than the request period, dynamic node-IDs among 1 to 127 and apart from the static ones; finitely many handlers, with an
interface index below `NumHandlers` (`CANARD_NUM_HANDLERS`). `PayloadAssumption`: the scalars fit in the payload, which is
at most the 1023 bytes that `payload_len` can count (hence the sums at 1223 and 1570 do not wrap there); a block is bigger than a frame (canard.h:113-117) and the head at
least 5 bytes (asserted at canard.h:372); another sender's frames carry the payload, with 1 to 5 bytes of it in the first. `TablesAssumption`: the
inputs are of the types the C functions take (`IsSample`), and the errors are bursts of 16 bits.
TLC evaluates all of these in the runs. Other hypotheses stand in the theorems: in `CanardThreadsProofs` a finite set of
blocks, to which `NoBlock` does not belong; `Regular`, `Timely`, `Sparse`, and `Steady` with the bound on losses; in `OneIdPerNode` that the unique IDs differ, the
static IDs too (`Unlike`), and that no command saves a node-ID; in `AnswersToTheirAskers` that the servers which the
program asks send no response on their own (`Solicited`; such a response could carry any transfer-ID). An operator who gives one ID to two nodes gets two nodes
with one ID. `FileFollowsImage` takes two more: fewer late messages than there are transfer-IDs, as with 32 of them the answer to an
old read would have the transfer-ID of the last one; and `Apart`, that no image's name begins another's, because
`strncpy` with the length of the name leaves the tail of a longer one behind (`Overlay`). The scenarios of `esc` satisfy both.

### Only model-checked

* Liveness, which the prover does not reach: `StorageReclaimed`, `AllComesBack`, `Drains`, `KeepsReceiving`, `Settles`. Every
  invariant and every other action property that a passing run checks is stated by a theorem.
* `ImplementsChannel` outside `Regular` and `Timely`, `FailoverDelivers` and `EveryWholeTransferDelivered` outside `Steady`
  and `Sparse`: the profiles of `rx_traffic` and `rx_faults` that go to the edge of these conditions (two interfaces with
  exactly `TidMod / 2` outstanding, as said above).
* The violations that the findings show.

## Findings

* `rx_timestamp`: `canardHandleRxFrame` stamps a multi-frame transfer with the time of its last frame
  (canard.c:625); canard.h:405 and DESIGN.md:291 promise the first.
* `rx_zero_payload`: after a single-frame transfer made the state, the CRC registers are zero and the next
  transfer-ID is expected. If the start frame of the next transfer is lost, its third, fifth... frame (toggle
  0) is taken, and if its bytes are zero the registers remain equal: `on_reception` gets a payload that is
  cut short. The same happens with the C code.
* `rx_repeated_single`: a repeated single-frame transfer is reported twice, because line 510 comes before
  the comparison of toggle and transfer-ID that DESIGN.md:166 describes.
* `node_idle`: the cleanup measures from the start of a transfer (canard.c:677, no later frame sets the
  timestamp), while canard.h:620 says "last updated".
* `threads_race`: with `CANARD_ALLOCATE_SEM`, the check for free blocks (canard.c:1227) is outside the semaphore. A
  thread that receives can take a block between the check and the loop, which then reaches
  `CANARD_ASSERT(false)` (1238), or leaves part of a transfer in the queue.

## What is not modelled

* Messages of the example nodes bit by bit: their encoders are generated from DroneCAN definitions that are not in the
  repository. A decoder accepts or rejects; simulated measurements are left out.
* `WITH_SEMAPHORE` of the C++ wrappers: a macro of the application. `callbacks.h` only stores pointers.
* What a received payload of 1024 bytes and more looks like: `CanardRx` and `CanardNode` wrap `payload_len`, the content is one value
  (`Overwritten`), and the assertion at 614, which need not hold then, is not modelled. Sent payloads of 65534 bytes and more (the
  16-bit sum in the frame count) are excluded by an assumption. Both are listed as hazards.
* That different transfers have equal CRCs by chance, in the protocol models; `CanardTables` has the polynomial.
* Big-endian machines, apart from the scalar codec: `CanardScalar` has both byte orders and `swapByteOrder`. Floats
  and registers are taken as words, whose bytes nothing looks at.
* A clock that runs backwards or starts at 0: the arithmetic is there (`OlderThan`), no run turns the clock back.
* The sending loop of the C++ example (esc_node.cpp:551-556), which asks again while the driver answers 0 and so never comes to
  receive: `KeepsReceiving` is about the loop of `SimpleNode`, which goes on.
* Senders that never stop: `Drains` does not show that frames of low priority starve under them.
* An overrun of the STM32 FIFO between the test of the flag and its acknowledgement (canard_stm32.c:409-436) is
  acknowledged uncounted; `OverflowsAreLosses` is an upper bound only.
* The AVR library behind `drivers/avr`, and the registers' timing in the STM32 start-up: the outcome of a wait is a choice.

What the models take as given:

* a handler that is destroyed in a callback keeps its memory until the walk ends (`CanardServices`); otherwise the list is
  read after it was freed, which the header leaves to the application;
* `free_tid_ptr` is called when no request is under way;
* the operator begins another firmware update only when the status says that the last one has ended, and a settings
  file is written in one step (`EscNode`);
* `write` writes the whole chunk of a firmware file: esc_node.c:642 ignores what it returns, so that a short or failing one
  leaves a gap that nothing notices;
* the filter banks of the controller treat EFF and RTR as the truth table in the driver says (canard_stm32.c:505-512, found by
  experiment), and a full FIFO loses its youngest frame to the new one, as in the controller's default mode. By that table the
  filter of zeros that `canardSTM32Init` leaves (270) rejects extended frames, which canard_stm32.h:161 says it accepts; which of the
  two the controller does cannot be decided from the sources, so `CanardSTM32` has both.

## Plan

Everything that keeps state is modelled, and every safety property that a run checks is proved. What is left would be more
of the same:

1. The content of payloads beyond 1023 bytes, with the bytes abstracted, and frame counts beyond 65533.
2. The whole window: `RedundantBusesImplementChannel` with `TidMod / 2` transfers outstanding, for publishers that
   bound the losses as the profile `Skewed` does.
3. Two nodes, `CanardTxPath` at one end and `CanardRx` at the other, over one bus with arbitration.
