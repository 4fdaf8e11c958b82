----------------------------- MODULE MCCanardRx -----------------------------
(***************************************************************************)
(* Small instances of CanardRx; their configurations differ in the traffic    *)
(* and in what the buses may do to it.                                      *)
(***************************************************************************)
EXTENDS CanardRx

(* One interface loses frames of transfers that wrap the transfer-ID. *)
Lossy ==
    [ifaces |-> {0}, frames |-> {1, 4}, period |-> 0, transfers |-> 4,
     outstanding |-> 1, until |-> 4, delay |-> 1, losses |-> 2, time |-> 5]

(* Two interfaces, one behind the other by up to half the transfer-ID ring. *)
Skewed ==
    [ifaces |-> {0, 1}, frames |-> {1, 3}, period |-> 0, transfers |-> 3,
     outstanding |-> 2, until |-> 2, delay |-> 2, losses |-> 1, time |-> 4]

(* Two interfaces that die and come back under a slow publisher. *)
Slow ==
    [ifaces |-> {0, 1}, frames |-> {1, 2}, period |-> 3, transfers |-> 3,
     outstanding |-> 1, until |-> 7, delay |-> 1, losses |-> 4, time |-> 8]

(* Transfers too long for payload_len: what is stored of five frames wraps it. *)
Long ==
    [ifaces |-> {0}, frames |-> {3, 5}, period |-> 0, transfers |-> 2,
     outstanding |-> 2, until |-> 2, delay |-> 1, losses |-> 1, time |-> 4]

(* One interface, a repeated frame, a publisher that restarts, no memory. *)
Faulty ==
    [ifaces |-> {0}, frames |-> {4}, period |-> 0, transfers |-> 3,
     outstanding |-> 2, until |-> 2, delay |-> 1, losses |-> 1, time |-> 6]

(* Short executions in which two transfers may be under way. *)
Busy ==
    [ifaces |-> {0}, frames |-> {1, 3}, period |-> 0, transfers |-> 4,
     outstanding |-> 2, until |-> 5, delay |-> 1, losses |-> 2, time |-> 6]

MCTraffic == {Lossy, Skewed, Slow, Long}
MCFaulty == {Faulty}
MCBusy == {Busy}
=============================================================================
