----------------------------- MODULE EscPrograms -----------------------------
(***************************************************************************)
(* What the example programs have of their own: the transfers they handle, their *)
(* parameters, their commands and their telemetry.                             *)
(***************************************************************************)
EXTENDS Integers, Sequences, SequencesExt

CONSTANTS Empty     \* no value

Programs == {"esc", "servo", "battery", "rangefinder", "esc_cpp"}

-----------------------------------------------------------------------------
(* shouldAcceptTransfer and onTransferReceived accept and handle the same transfers; *)
(* "request ID" and "allocation" are both of the type Allocation.                *)

DNA == {"request ID", "allocation"}
EscHandles == DNA \cup {"info", "getset", "opcode", "restart", "begin", "chunk", "RawCommand"}
ServoHandles == DNA \cup {"info", "getset", "opcode", "begin", "chunk", "ArrayCommand"}
BatteryHandles == DNA \cup {"info", "getset", "opcode", "restart"}
RangefinderHandles == DNA \cup {"info", "getset", "opcode", "restart"}

(* The subscribers and servers that the class has as members. *)
EscCppHandles == DNA \cup {"info", "getset", "opcode", "RawCommand"}

Handles(program) ==
    CASE program = "esc" -> EscHandles
      [] program = "servo" -> ServoHandles
      [] program = "battery" -> BatteryHandles
      [] program = "rangefinder" -> RangefinderHandles
      [] program = "esc_cpp" -> EscCppHandles

-----------------------------------------------------------------------------
(* Parameters; the three coefficients of the servo and C++ programs are one here. *)

EscParameters == {"CAN_NODE", "ESC_INDEX", "DIRECTION"}
ServoParameters == {"CAN_NODE", "MyPID"}
BatteryParameters == {"CAN_NODE", "BATTERY_INDEX", "TELEM_RATE"}
RangefinderParameters == {"CAN_NODE", "SENSOR_INDEX", "TELEM_RATE"}
EscCppParameters == {"CAN_NODE", "MyPID"}

Parameters(program) ==
    CASE program = "esc" -> EscParameters
      [] program = "servo" -> ServoParameters
      [] program = "battery" -> BatteryParameters
      [] program = "rangefinder" -> RangefinderParameters
      [] program = "esc_cpp" -> EscCppParameters

AllParameters == UNION {Parameters(p) : p \in Programs}

(* Static memory starts as 0; the sensors and the coefficients have defaults of their own. *)
Default(p) == IF p = "TELEM_RATE" THEN 10 ELSE IF p = "MyPID" THEN 1 ELSE 0

(* The others keep a new value in memory. *)
Saves(program) == program \in {"esc", "battery", "rangefinder"}

-----------------------------------------------------------------------------
(* Commands: the demand of each motor that ever got one. *)

NoDemand == <<>>

CommandOf(program) ==
    CASE program \in {"esc", "esc_cpp"} -> "RawCommand"
      [] program = "servo" -> "ArrayCommand"
      [] program \in {"battery", "rangefinder"} -> "none"

(* One ESC, the one that its parameter names. *)
EscRawCommand(demand, settings, values) ==
    IF Len(values) <= settings["ESC_INDEX"] THEN demand
    ELSE <<values[settings["ESC_INDEX"] + 1]>>

NumMotors == 4

(* The first four values. *)
EscCppRawCommand(demand, values) ==
    SubSeq(values, 1, IF Len(values) < NumMotors THEN Len(values) ELSE NumMotors) @@ demand

(* Positions in 1/500; a command of another type moves nothing. *)
Moved(demand, c) ==
    IF c.id >= NumMotors \/ c.type \notin {"unitless", "pwm"} THEN demand
    ELSE (c.id + 1 :> (IF c.type = "pwm" THEN c.value - 1500 ELSE c.value)) @@ demand

ServoArrayCommand(demand, commands) == FoldLeft(Moved, demand, commands)

Demand(program, demand, settings, values) ==
    CASE program = "esc" -> EscRawCommand(demand, settings, values)
      [] program = "esc_cpp" -> EscCppRawCommand(demand, values)
      [] program = "servo" -> ServoArrayCommand(demand, values)

-----------------------------------------------------------------------------
(* Telemetry: the ESCs and servos have a rate of their own and catch up with it; the *)
(* sensors divide by a parameter (by 0: never) and begin a new period each time.  *)

Sensors == {"battery", "rangefinder"}
Silent(program, settings) == program \in Sensors /\ settings["TELEM_RATE"] = 0
StillLate(program, late) == IF program \in Sensors THEN 0 ELSE late - 1

Report(from, value) == [kind |-> "telemetry", from |-> from, value |-> value]
DemandOf(demand, i) == IF i \in DOMAIN demand THEN demand[i] ELSE 0

(* Values made up of the demand, or a simulated measurement, that is left out. *)
send_ESCStatus(demand) == <<Report(0, DemandOf(demand, 1))>>
send_ServoStatus(demand) == [i \in 1 .. NumMotors |-> Report(i - 1, DemandOf(demand, i))]
send_BatteryInfo(settings) == <<Report(settings["BATTERY_INDEX"], Empty)>>
send_RangeFinder(settings) == <<Report(settings["SENSOR_INDEX"], Empty)>>

(* The index of the ESC is not set. *)
send_ESCStatus_cpp(demand) == [i \in 1 .. NumMotors |-> Report(0, DemandOf(demand, i))]

Telemetry(program, demand, settings) ==
    CASE program = "esc" -> send_ESCStatus(demand)
      [] program = "servo" -> send_ServoStatus(demand)
      [] program = "battery" -> send_BatteryInfo(settings)
      [] program = "rangefinder" -> send_RangeFinder(settings)
      [] program = "esc_cpp" -> send_ESCStatus_cpp(demand)
=============================================================================
