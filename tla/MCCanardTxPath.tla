---------------------------- MODULE MCCanardTxPath ----------------------------
(***************************************************************************)
(* Small instances of CanardTxPath.                                          *)
(***************************************************************************)
EXTENDS CanardTxPath

(* Extended data-frame identifiers; Urgent and Normal differ in the low part only. *)
Extended(arb, low) == [ext |-> TRUE, rtr |-> FALSE, arb |-> arb, low |-> low]
Alarm == Extended(0, 0)
Urgent == Extended(0, 1)
Normal == Extended(0, 2)
Bulk == Extended(1, 0)

MCIds == {Alarm, Urgent, Normal, Bulk}
MCResponseIds == {Urgent}

Sending ==
    [driver |-> "socketcan", ids |-> {Urgent, Normal, Bulk}, lengths |-> {7, 13},
     lives |-> {0}, others |-> {0}, transfers |-> 3, until |-> 0, faults |-> TRUE,
     ready |-> TRUE, arriving |-> {}, arrivals |-> 0, banks |-> {}, reconfigurations |-> 0]

(* A pool that others use, and lifetimes that end in another order. *)
Crowded ==
    [Sending EXCEPT !.driver = "nuttx", !.ids = {Urgent, Bulk}, !.lives = {0, 1}, !.others = {0, 2},
                    !.transfers = 2, !.until = 1]

(* Enough transfers for a counter to wrap. *)
Counting ==
    [Sending EXCEPT !.driver = "mcast", !.ids = {Normal}, !.lengths = {7, 8},
                    !.lives = {0}, !.others = {0}, !.transfers = 5]

(* A bus without another node: the socket never takes a frame, nor does it fail. *)
Stuck == [Counting EXCEPT !.driver = "avr", !.ready = FALSE, !.faults = FALSE,
                           !.transfers = 1]

(* Mailboxes that are all taken, with a frame left that beats them. *)
Mailing ==
    [Sending EXCEPT !.driver = "stm32", !.ids = MCIds, !.lengths = {7}, !.lives = {0},
                    !.others = {0}, !.transfers = 4, !.faults = FALSE]

(* Transfers of several frames in the mailboxes, on a bus with errors. *)
Framing ==
    [Mailing EXCEPT !.ids = {Normal, Bulk}, !.lengths = {7, 13}, !.faults = TRUE,
                    !.transfers = 2]

(* Two identifiers arrive at FIFOs that fill up, under filters that overlap. *)
Receiving ==
    [Sending EXCEPT !.driver = "stm32", !.ids = {}, !.transfers = 0,
                    !.others = {0}, !.faults = FALSE, !.arriving = {Normal, Bulk}, !.arrivals = 3,
                    !.banks = {<<{Normal}, {Normal, Bulk}>>, <<{Bulk}>>},
                    !.reconfigurations = 1]

MCScenarios == {Sending, Crowded, Counting, Stuck, Mailing, Framing, Receiving}
=============================================================================
