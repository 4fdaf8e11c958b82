------------------------------ MODULE CanardSTM32 ------------------------------
(***************************************************************************)
(* The bxCAN driver and the controller under it: three transmit mailboxes    *)
(* that arbitrate by identifier, two receive FIFOs, the error code that the   *)
(* driver polls, and the statistics.  Actions of the controller interleave    *)
(* with the calls of the driver, which is polled and uses no interrupts.      *)
(* How identifiers and filters are laid out in registers is the business of   *)
(* CanardSTM32Words; a mailbox holds the frame itself here, and a filter is    *)
(* the set of identifiers it lets pass.                                     *)
(***************************************************************************)
EXTENDS CanardPriority, Sequences, FiniteSets

CONSTANTS
    Empty,          \* a mailbox without a pending frame
    FifoDepth       \* frames that a receive FIFO holds

ASSUME STM32Assumption == FifoDepth \in Nat \ {0}

VARIABLES
    mailbox,        \* mailbox[i]: the pending frame [id, n, k], or Empty
    aborting,       \* the mailboxes whose ABRQ bit is set
    lec,            \* whether the last error code is set
    abortOnError,   \* g_abort_tx_on_error
    running,        \* whether canardSTM32Init has succeeded
    fifo,           \* fifo[j]: the frames received, [id, n, epoch]
    overrun,        \* overrun[j]: the FOVR bit
    releasing,      \* the FIFO whose head was read and is to be released, or none
    filters,        \* the active filter banks, each a set of identifiers
    epoch,          \* how often the filters were configured since
    overflows,      \* g_stats.rx_overflow_count
    lost            \* frames that were overwritten in a full FIFO

driverVars == <<mailbox, aborting, lec, abortOnError, running, fifo, overrun,
                releasing, filters, epoch, overflows, lost>>
txSide == <<mailbox, aborting>>
rxSide == <<fifo, overrun, releasing, overflows, lost>>
setup == <<abortOnError, running, filters, epoch>>

Mailboxes == 0 .. 2
Fifos == 0 .. 1
Pending == {i \in Mailboxes : mailbox[i] # Empty}

-----------------------------------------------------------------------------
(* processErrorStatus: pending frames are aborted if that was asked for, or if    *)
(* the controller happens to be bus-off.                                      *)
processErrorStatus ==
    /\ lec' = FALSE
    /\ \/ lec /\ aborting' = aborting \cup Pending
       \/ ~(lec /\ abortOnError) /\ UNCHANGED aborting

(* Seeded defect: a frame of equal priority does not keep the new one waiting. *)
NoInversion_EqualsPass(id) ==
    \A i \in Pending : ~isPriorityHigher(id, mailbox[i].id)

(* The new frame would win against every pending one. *)
NoInversion(id) == \A i \in Pending : isPriorityHigher(mailbox[i].id, id)

(* The first mailbox if all are free, else the last one that is. *)
FreeMailbox ==
    IF Pending = {} THEN 0
    ELSE CHOOSE i \in Mailboxes \ Pending : \A j \in Mailboxes \ Pending : j <= i

(* canardSTM32Transmit returns 1. *)
canardSTM32Transmit(frame) ==
    /\ processErrorStatus
    /\ Pending # Mailboxes
    /\ NoInversion(frame.id)
    /\ mailbox' = [mailbox EXCEPT ![FreeMailbox] = frame]
    /\ UNCHANGED <<rxSide, setup>>

(* canardSTM32Transmit returns 0. *)
TransmitRejected(frame) ==
    /\ processErrorStatus
    /\ Pending = Mailboxes \/ ~NoInversion(frame.id)
    /\ UNCHANGED <<mailbox, rxSide, setup>>

(* canardSTM32Receive up to the reading of the frame: FIFO 0 goes first. *)
ReadFifo(j) ==
    /\ releasing = {}
    /\ processErrorStatus
    /\ fifo[j] # <<>>
    /\ j = 1 => fifo[0] = <<>>
    /\ overflows' = IF overrun[j] THEN overflows + 1 ELSE overflows
    /\ releasing' = {j}
    /\ UNCHANGED <<mailbox, fifo, overrun, lost, setup>>

(* Seeded defects: the overrun flag is not acknowledged; nor is the entry. *)
ReleaseFifo_KeepsFlag(j) ==
    /\ j \in releasing
    /\ releasing' = {}
    /\ fifo' = [fifo EXCEPT ![j] = Tail(@)]
    /\ UNCHANGED <<txSide, lec, overrun, overflows, lost, setup>>

ReleaseFifo_KeepsEntry(j) ==
    /\ j \in releasing
    /\ releasing' = {}
    /\ overrun' = [overrun EXCEPT ![j] = FALSE]
    /\ UNCHANGED <<txSide, lec, fifo, overflows, lost, setup>>

(* The rest of canardSTM32Receive: RFOM, FOVR and FULL are written together. *)
ReleaseFifo(j) ==
    /\ j \in releasing
    /\ releasing' = {}
    /\ fifo' = [fifo EXCEPT ![j] = Tail(@)]
    /\ overrun' = [overrun EXCEPT ![j] = FALSE]
    /\ UNCHANGED <<txSide, lec, overflows, lost, setup>>

(* canardSTM32Receive returns 0. *)
ReceiveNothing ==
    /\ releasing = {}
    /\ processErrorStatus
    /\ \A j \in Fifos : fifo[j] = <<>>
    /\ UNCHANGED <<mailbox, rxSide, setup>>

(* canardSTM32ConfigureAcceptanceFilters: what the FIFOs hold stays. *)
canardSTM32ConfigureAcceptanceFilters(banks) ==
    /\ releasing = {}
    /\ filters' = banks
    /\ epoch' = epoch + 1
    /\ UNCHANGED <<txSide, rxSide, lec, abortOnError, running>>

(* What the one bank that canardSTM32Init enables passes, with ID = Mask = 0: all    *)
(* frames as canard_stm32.h:161 has it, the standard data frames by the table at     *)
(* canard_stm32.c:505 (see Passes of CanardSTM32Words).  The hardware decides.       *)
DefaultBank(ids) == {ids, {id \in ids : ~id.ext /\ ~id.rtr}}

canardSTM32Init(abort, ids) ==
    /\ ~running
    /\ overflows' = 0
    /\ abortOnError' = abort
    /\ running' = TRUE
    /\ \E bank \in DefaultBank(ids) : filters' = <<bank>>
    /\ UNCHANGED <<txSide, lec, fifo, overrun, releasing, lost, epoch>>

(* The controller does not acknowledge a change of mode: it is reset. *)
InitFails(abort) ==
    /\ ~running
    /\ overflows' = 0
    /\ abortOnError' = abort
    /\ UNCHANGED <<txSide, lec, fifo, overrun, releasing, lost, running, filters, epoch>>

-----------------------------------------------------------------------------
(* The controller *)

(* The pending frame that wins arbitration is sent; of equals the first mailbox. *)
Wins(i) ==
    /\ i \in Pending
    /\ \A j \in Pending \ {i} :
          ~isPriorityHigher(mailbox[i].id, mailbox[j].id)
          /\ (mailbox[j].id = mailbox[i].id => i < j)

SendMailbox(i) ==
    /\ running
    /\ Wins(i)
    /\ mailbox' = [mailbox EXCEPT ![i] = Empty]
    /\ aborting' = aborting \ {i}
    /\ UNCHANGED <<lec, rxSide, setup>>

AbortMailbox(i) ==
    /\ i \in aborting
    /\ mailbox' = [mailbox EXCEPT ![i] = Empty]
    /\ aborting' = aborting \ {i}
    /\ UNCHANGED <<lec, rxSide, setup>>

BusError ==
    /\ running /\ ~lec
    /\ lec' = TRUE
    /\ UNCHANGED <<txSide, rxSide, setup>>

(* The banks alternate between the FIFOs; the first bank that passes a frame takes *)
(* it, wherever else it would pass.                                            *)
Passing(id) == {b \in DOMAIN filters : id \in filters[b]}
FifoOf(id) == ((CHOOSE b \in Passing(id) : \A c \in Passing(id) : b <= c) - 1) % 2

(* A full FIFO loses its youngest frame to the new one. *)
Arrive(id, n) ==
    /\ running
    /\ Passing(id) # {}
    /\ LET j == FifoOf(id)
           full == Len(fifo[j]) = FifoDepth
           kept == IF full THEN SubSeq(fifo[j], 1, FifoDepth - 1) ELSE fifo[j]
       IN  /\ fifo' = [fifo EXCEPT ![j] = Append(kept, [id |-> id, n |-> n, epoch |-> epoch])]
           /\ overrun' = [overrun EXCEPT ![j] = @ \/ full]
           /\ lost' = IF full THEN lost + 1 ELSE lost
    /\ UNCHANGED <<txSide, lec, releasing, overflows, setup>>

DriverInit ==
    /\ mailbox = [i \in Mailboxes |-> Empty]
    /\ aborting = {}
    /\ lec = FALSE
    /\ abortOnError = FALSE
    /\ running = FALSE
    /\ fifo = [j \in Fifos |-> <<>>]
    /\ overrun = [j \in Fifos |-> FALSE]
    /\ releasing = {}
    /\ filters = <<>>
    /\ epoch = 0
    /\ overflows = 0
    /\ lost = 0
=============================================================================
