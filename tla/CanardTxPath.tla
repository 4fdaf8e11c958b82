----------------------------- MODULE CanardTxPath -----------------------------
(***************************************************************************)
(* The application's loop between the TX queue and a driver: processTxRxOnce     *)
(* gives the head of the queue to the driver until the queue is empty or the    *)
(* driver takes nothing, then receives at most one frame, and the application   *)
(* works until the next turn.  The driver is the one of the bxCAN controller,   *)
(* whose mailboxes and FIFOs are modelled, or one over a socket, whose kernel    *)
(* queue keeps the order it is given.                                        *)
(***************************************************************************)
EXTENDS CanardTxQueue, CanardSTM32, CanardSocket

CONSTANTS Scenarios     \* what the application and the bus do: see Scenario

(* driver: "stm32" or one of SocketDrivers; ids, lengths, lives, others: what is    *)
(* sent and what the others hold; transfers, until: bounds on the transfers and    *)
(* the clock; faults: whether frames are disturbed or sockets fail; ready: whether   *)
(* the socket ever takes a frame; arriving: the identifiers received; arrivals: bound:        *)
(* frames of each of them; banks: the filter configurations; reconfigurations:     *)
(* bound: how often they change.                                               *)
Scenario ==
    [driver : SocketDrivers \cup {"stm32"}, ids : SUBSET Ids, lengths : SUBSET Lengths,
     lives : SUBSET Lifetimes, others : SUBSET OthersUse,
     transfers : 0 .. MaxTransfers, until : 0 .. MaxTime, faults : BOOLEAN,
     ready : BOOLEAN, arriving : SUBSET Ids, arrivals : Nat, banks : SUBSET Seq(SUBSET Ids),
     reconfigurations : Nat]

ASSUME TxPathAssumption == Scenarios \subseteq Scenario

VARIABLES
    scenario,
    phase,      \* where the loop is: "init", "tx" or "work"
    wire,       \* wire[id]: the last frame of it the controller sent, at most one
    arrived,    \* arrived[id]: how many frames of it reached the controller
    got         \* got[id]: the last frame of it delivered, at most one

loopVars == <<scenario, phase, wire, arrived, got>>
pathVars == <<vars, driverVars, loopVars>>
busSide == <<wire, arrived, got>>

STM32 == scenario.driver = "stm32"

-----------------------------------------------------------------------------
(* Start-up *)

StartDriver ==
    /\ phase = "init"
    /\ IF STM32
       THEN \E abort \in BOOLEAN : canardSTM32Init(abort, Ids)
       ELSE UNCHANGED driverVars
    /\ phase' = "tx"
    /\ UNCHANGED <<vars, scenario, busSide>>

StartFails ==
    /\ phase = "init" /\ STM32
    /\ \E abort \in BOOLEAN : InitFails(abort)
    /\ UNCHANGED <<vars, loopVars>>

-----------------------------------------------------------------------------
(* processTxRxOnce, transmitting *)

(* The mailbox took the frame. *)
MailboxTakes ==
    /\ phase = "tx" /\ STM32
    /\ Transmit
    /\ canardSTM32Transmit(Head(queue))
    /\ UNCHANGED loopVars

(* canardSTM32Transmit returned 0: the frame stays in the queue. *)
MailboxesBusy ==
    /\ phase = "tx" /\ STM32 /\ queue # <<>>
    /\ TransmitRejected(Head(queue))
    /\ phase' = "work"
    /\ UNCHANGED <<vars, scenario, busSide>>

SocketResult(result) ==
    \E poll \in PollAnswers, write \in WriteAnswers :
        result = TransmitResult(scenario.driver, poll, write)

SocketTakes ==
    /\ phase = "tx" /\ ~STM32
    /\ SocketResult(1) /\ scenario.ready
    /\ Transmit
    /\ UNCHANGED <<driverVars, loopVars>>

(* The frame is dropped, what follows it is not. *)
SocketFails ==
    /\ phase = "tx" /\ ~STM32 /\ scenario.faults
    /\ SocketResult(-1)
    /\ TransmitFailed
    /\ UNCHANGED <<driverVars, loopVars>>

(* Seeded defect: the C++ example's loop, which asks again until it is taken. *)
SocketBusy_Spins ==
    /\ phase = "tx" /\ ~STM32 /\ queue # <<>>
    /\ SocketResult(0)
    /\ UNCHANGED pathVars

SocketBusy ==
    /\ phase = "tx" /\ ~STM32 /\ queue # <<>>
    /\ SocketResult(0)
    /\ phase' = "work"
    /\ UNCHANGED <<vars, driverVars, scenario, busSide>>

NothingToSend ==
    /\ phase = "tx" /\ queue = <<>>
    /\ phase' = "work"
    /\ UNCHANGED <<vars, driverVars, scenario, busSide>>

-----------------------------------------------------------------------------
(* processTxRxOnce, receiving; the application's own work *)

Deliver ==
    /\ phase = "work" /\ STM32
    /\ \E j \in Fifos :
          /\ ReadFifo(j)
          /\ got' = [got EXCEPT ![Head(fifo[j]).id] = <<Head(fifo[j])>>]
    /\ UNCHANGED <<vars, scenario, phase, wire, arrived>>

Release ==
    /\ \E j \in Fifos : ReleaseFifo(j)
    /\ UNCHANGED <<vars, loopVars>>

NothingReceived ==
    /\ phase = "work" /\ STM32
    /\ ReceiveNothing
    /\ UNCHANGED <<vars, loopVars>>

NextTurn ==
    /\ phase = "work" /\ releasing = {}
    /\ phase' = "tx"
    /\ UNCHANGED <<vars, driverVars, scenario, busSide>>

Reconfigure ==
    /\ phase = "work" /\ STM32
    /\ epoch < scenario.reconfigurations
    /\ \E banks \in scenario.banks : canardSTM32ConfigureAcceptanceFilters(banks)
    /\ UNCHANGED <<vars, loopVars>>

LibraryCall ==
    \/ \E id \in scenario.ids, len \in scenario.lengths, life \in scenario.lives :
          \/ Send(id, len, life)
          \/ \E tid \in ReplyTids : Respond(id, len, tid, life)
          \/ Refuse(id, len)
    \/ CleanupTx
    \/ OthersChange /\ others' \in scenario.others

Work ==
    /\ phase = "work" /\ releasing = {}
    /\ LibraryCall
    /\ Len(transfers') <= scenario.transfers
    /\ UNCHANGED <<driverVars, loopVars>>

-----------------------------------------------------------------------------
(* The bus and the clock *)

Sent ==
    /\ \E i \in Mailboxes :
          /\ SendMailbox(i)
          /\ wire' = [wire EXCEPT ![mailbox[i].id] = <<mailbox[i]>>]
    /\ UNCHANGED <<vars, scenario, phase, arrived, got>>

Aborted ==
    /\ \E i \in Mailboxes : AbortMailbox(i)
    /\ UNCHANGED <<vars, loopVars>>

Disturbed ==
    /\ STM32 /\ scenario.faults
    /\ BusError
    /\ UNCHANGED <<vars, loopVars>>

Arrives ==
    /\ STM32
    /\ \E id \in scenario.arriving :
          /\ arrived[id] < scenario.arrivals
          /\ Arrive(id, arrived[id] + 1)
          /\ arrived' = [arrived EXCEPT ![id] = @ + 1]
    /\ UNCHANGED <<vars, scenario, phase, wire, got>>

Clock ==
    /\ now < scenario.until
    /\ Tick
    /\ UNCHANGED <<driverVars, loopVars>>

-----------------------------------------------------------------------------
PathInit ==
    /\ Init
    /\ DriverInit
    /\ scenario \in Scenarios
    /\ phase = "init"
    /\ wire = [id \in Ids |-> <<>>]
    /\ arrived = [id \in Ids |-> 0]
    /\ got = [id \in Ids |-> <<>>]

LoopStep ==
    \/ StartDriver
    \/ MailboxTakes
    \/ MailboxesBusy
    \/ SocketTakes
    \/ SocketFails
    \/ SocketBusy
    \/ NothingToSend
    \/ Release
    \/ NextTurn

PathNext ==
    \/ LoopStep
    \/ StartFails
    \/ Deliver
    \/ NothingReceived
    \/ Reconfigure
    \/ Work
    \/ Sent
    \/ Aborted
    \/ Disturbed
    \/ Arrives
    \/ Clock

PathSpec == PathInit /\ [][PathNext]_pathVars

(* The loop is never left; the controller sends what is pending when the bus is    *)
(* free; a socket that is ever ready takes a frame when asked again and again.    *)
FairPathSpec ==
    /\ PathSpec
    /\ WF_pathVars(LoopStep)
    /\ WF_pathVars(Sent)
    /\ SF_pathVars(SocketTakes)

-----------------------------------------------------------------------------
(* Properties *)

(* The variables of the loop and the driver keep their shape; a pending frame    *)
(* belongs to an accepted transfer.                                          *)
PathTypeOK ==
    /\ TypeOK
    /\ scenario \in Scenarios
    /\ phase \in {"init", "tx", "work"}
    /\ wire \in [Ids -> Seq(Item)]
    /\ mailbox \in [Mailboxes -> Item \cup {Empty}]
    /\ aborting \subseteq Pending
    /\ releasing \subseteq Fifos
    /\ \A j \in Fifos : Len(fifo[j]) <= FifoDepth
    /\ phase = "tx" => releasing = {}

(* "There's a mailbox whose priority is higher or equal" (canardSTM32Transmit):   *)
(* the controller picks among mailboxes by identifier only, so frames of one      *)
(* identifier would overtake each other if two of them were pending.  What is     *)
(* pending came before what is still queued.                                  *)
MailboxesDistinct ==
    \A i \in Pending :
        /\ \A j \in Pending \ {i} : mailbox[i].id # mailbox[j].id
        /\ \A q \in DOMAIN queue :
              queue[q].id = mailbox[i].id => CameFirst(mailbox[i], queue[q])

(* Frames of one identifier reach the wire in the order in which the library      *)
(* made them, none twice, whatever was aborted, dropped or refused in between:    *)
(* what still waits, in a mailbox or in the queue, comes after what was sent.    *)
WireInOrder ==
    \A id \in Ids : wire[id] # <<>> =>
        /\ \A i \in Pending : mailbox[i].id = id => CameFirst(wire[id][1], mailbox[i])
        /\ \A q \in DOMAIN queue : queue[q].id = id => CameFirst(wire[id][1], queue[q])

(* The places of FIFO j that canardSTM32Receive has not given to the application. *)
Unread(j) == {i \in DOMAIN fifo[j] : j \in releasing => i > 1}

(* canardSTM32Init: "there will be no reordering within the same CAN ID".  The     *)
(* frames of an identifier are delivered in the order they arrived, none twice,   *)
(* as long as the filters stay as they are: what is unread comes later.          *)
DeliveredInOrder ==
    \A j \in Fifos : \A i \in Unread(j) :
        LET f == fifo[j][i]
        IN  got[f.id] # <<>> /\ got[f.id][1].epoch = f.epoch => got[f.id][1].n < f.n

(* rx_overflow_count never exceeds the frames that were lost, the episodes that    *)
(* the flags announce included: an episode is counted once, because the flag is     *)
(* acknowledged with the entry it was read with.                               *)
OverflowsAreLosses ==
    overflows + Cardinality({j \in Fifos \ releasing : overrun[j]}) <= lost

(* Every frame leaves the queue when the driver takes frames, also the ones of     *)
(* the lowest priority, because the senders are finite.                        *)
Drains == scenario.ready /\ queue # <<>> ~> queue = <<>>

(* The node goes on receiving and working however long the driver refuses the      *)
(* frame it is offered.                                                      *)
KeepsReceiving == []<>(phase = "work")
=============================================================================
