----------------------------- MODULE CanardSocket -----------------------------
(***************************************************************************)
(* What the drivers over a file descriptor (SocketCAN, multicast, NuttX) and    *)
(* over the AVR library make of the answers of the operating system.  The sign  *)
(* of a result is all that the callers look at: negative for an error, 0 when    *)
(* nothing could be moved in time, 1 when a frame was.                         *)
(***************************************************************************)
EXTENDS Integers, Sequences

PollAnswers == {"failed", "timed out", "not ready", "ready"}
WriteAnswers == {"failed", "short", "whole"}
ReadAnswers == {"failed", "short", "too long", "whole"}

(* poll with one descriptor. *)
Polled(poll, result) ==
    CASE poll = "failed" -> -1
      [] poll = "timed out" -> 0
      [] poll = "not ready" -> -1
      [] poll = "ready" -> result

socketcanTransmit(poll, write) ==
    Polled(poll, IF write = "whole" THEN 1 ELSE -1)

(* A datagram is sent whole or not at all. *)
mcastTransmit(poll, write) ==
    Polled(poll, IF write = "failed" THEN -1 ELSE 1)

canardNuttXTransmit(poll, write) ==
    Polled(poll, IF write = "whole" THEN 1 ELSE -1)

(* The AVR library is asked for a free buffer instead. *)
canardAVRTransmit(free, write) ==
    IF free # "ready" THEN 0 ELSE IF write = "failed" THEN -1 ELSE 1

socketcanReceive(poll, read) ==
    Polled(poll, IF read = "whole" THEN 1 ELSE -1)

canardNuttXReceive(poll, read) ==
    Polled(poll, IF read = "whole" THEN 1 ELSE -1)

canardAVRReceive(waiting, read) ==
    IF waiting # "ready" THEN 0 ELSE IF read = "failed" THEN -1 ELSE 1

SocketDrivers == {"socketcan", "mcast", "nuttx", "avr"}

TransmitResult(driver, poll, write) ==
    CASE driver = "socketcan" -> socketcanTransmit(poll, write)
      [] driver = "mcast" -> mcastTransmit(poll, write)
      [] driver = "nuttx" -> canardNuttXTransmit(poll, write)
      [] driver = "avr" -> canardAVRTransmit(poll, write)

-----------------------------------------------------------------------------
(* Opening and closing.  An initialisation takes its steps in order; the k-th one  *)
(* fails, or none does (k is beyond the last).  What is left is the result, the    *)
(* descriptors that are open and those that the instance remembers.              *)

Opening == {"socket", "socketIn", "socketOut", "open"}

(* ioctl, setsockopt and bind, in the build with CAN FD. *)
socketcanSteps == <<"name", "socket", "ioctl", "setsockopt", "bind">>
mcastSteps ==
    <<"name", "bus", "socketIn", "fcntlIn", "setsockopt", "bind", "membership",
      "socketOut", "fcntlOut", "connect">>
canardNuttXSteps == <<"open">>

OpenBefore(steps, k) == {steps[i] : i \in 1 .. k - 1} \cap Opening
Outcome(result, open, fields) == [result |-> result, open |-> open, fields |-> fields]

(* Seeded defect: a step after the socket was opened goes to the label fail0. *)
socketcanFail_Label(step, open) == IF step = "bind" THEN open ELSE {}

(* The label fail1 closes the socket, fail0 does not. *)
socketcanFail(step, open) == IF step \in {"name", "socket"} THEN open ELSE open \ {"socket"}

(* The fields are -1 until their socket is open, and again when it is closed. *)
mcastFail(step, open) ==
    IF step \in {"name", "bus"} THEN open ELSE open \ {"socketIn", "socketOut"}

socketcanInit(k) ==
    LET open == OpenBefore(socketcanSteps, k)
    IN  IF k > Len(socketcanSteps) THEN Outcome(0, open, {"socket"})
        ELSE Outcome(-1, socketcanFail(socketcanSteps[k], open), {})

mcastInit(k) ==
    LET open == OpenBefore(mcastSteps, k)
    IN  IF k > Len(mcastSteps) THEN Outcome(0, open, open)
        ELSE Outcome(-1, mcastFail(mcastSteps[k], open), {})

canardNuttXInit(k) ==
    LET open == OpenBefore(canardNuttXSteps, k)
    IN  IF k > Len(canardNuttXSteps) THEN Outcome(0, open, {"open"})
        ELSE Outcome(-1, open, {})

(* LinuxCANInit chooses the driver by the name of the interface. *)
LinuxCANInit(multicast, k) == IF multicast THEN mcastInit(k) ELSE socketcanInit(k)

socketcanClose(state) == Outcome(0, state.open \ {"socket"}, {})
mcastClose(state) == Outcome(0, state.open \ {"socketIn", "socketOut"}, {})
LinuxCANClose(multicast, state) ==
    IF multicast THEN mcastClose(state) ELSE socketcanClose(state)
canardNuttXClose(state) == Outcome(0, state.open \ {"open"}, {})
=============================================================================
