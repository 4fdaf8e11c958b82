----------------------------- MODULE MCEscNode -----------------------------
(***************************************************************************)
(* Instances of EscNode: two nodes at most, three parts of a unique ID.        *)
(***************************************************************************)
EXTENDS EscNode

n1 == "n1"
n2 == "n2"

Budget(losses, delays, commands, seconds, faults) ==
    [losses |-> losses, delays |-> delays, commands |-> commands, seconds |-> seconds,
     faults |-> faults]

(* Both nodes in one scenario; the second is of no interest where its program is a     *)
(* sensor with a static ID and nothing is sent to it.                             *)
Scenario(uid1, uid2, p1, p2, static1, static2, echo, images, commands, budget) ==
    [uid |-> n1 :> uid1 @@ n2 :> uid2, program |-> n1 :> p1 @@ n2 :> p2,
     static |-> n1 :> static1 @@ n2 :> static2, echo |-> echo,
     images |-> images, commands |-> commands, left |-> budget]

NoImages == [p \in {} |-> 0]

(* The unique IDs differ in the second part, or in the first. *)
AllocationAlike ==
    Scenario(<<"a", "b", "c">>, <<"a", "d", "c">>, "esc", "battery", 0, 0, FALSE, NoImages, {},
             Budget(0, 0, 0, 0, 0))
AllocationDiffer ==
    Scenario(<<"a", "b", "c">>, <<"d", "b", "c">>, "rangefinder", "esc_cpp", 0, 0, TRUE, NoImages, {},
             Budget(0, 0, 0, 0, 0))
AllocationCrash ==
    Scenario(<<"a", "b", "c">>, <<"a", "b", "d">>, "servo", "battery", 0, 50, FALSE, NoImages, {},
             Budget(1, 0, 0, 1, 1))

Begin(path) == [kind |-> "begin", path |-> path]
Images == <<"f", "g">> :> 1 @@ <<"f", "h">> :> 2

(* Updates with repeated requests, one of another file after the first has ended, one   *)
(* of a path that is not there; reads and answers get lost or are late.              *)
Update(program, budget) ==
    Scenario(<<"a", "b", "c">>, <<"a", "b", "d">>, program, "battery", 10, 50, FALSE, Images,
             {Begin(<<"f", "g">>), Begin(<<"f", "h">>), Begin(<<"k">>)}, budget)

Updates == Update("esc", Budget(1, 3, 3, 0, 0))
UpdatesFail == Update("servo", Budget(1, 1, 2, 0, 1))

GetSet(name, byName, value) == [kind |-> "getset", name |-> name, byName |-> byName, value |-> value]

Managed(program, seconds, faults, more) ==
    Scenario(<<"a", "b", "c">>, <<"a", "b", "d">>, program, "battery", 10, 50, FALSE, NoImages,
             {[kind |-> "info"], [kind |-> "opcode"], [kind |-> "restart"],
              GetSet("CAN_NODE", TRUE, 20), GetSet("CAN_NODE", FALSE, 30),
              GetSet("CAN_NODE", TRUE, 0), GetSet("unknown", TRUE, 1)} \cup more,
             Budget(0, 0, 2, seconds, faults))

Raw(values) == [kind |-> "RawCommand", values |-> values]
Array(values) == [kind |-> "ArrayCommand", values |-> values]

ManagedEsc == Managed("esc", 1, 0, {GetSet("ESC_INDEX", TRUE, 1), Raw(<<5>>), Raw(<<6, 7>>)})
ManagedEscCpp == Managed("esc_cpp", 0, 0, {Raw(<<5>>), Raw(<<1, 2, 3, 4, 5>>)})
ManagedServo ==
    Managed("servo", 0, 0, {Array(<<[id |-> 0, type |-> "unitless", value |-> 3],
                              [id |-> 4, type |-> "pwm", value |-> 1600]>>),
                      Array(<<[id |-> 1, type |-> "pwm", value |-> 1600],
                              [id |-> 0, type |-> "force", value |-> 1]>>)})
ManagedRangefinder == Managed("rangefinder", 0, 1, {GetSet("TELEM_RATE", TRUE, 0)})

MCEscScenarios ==
    {AllocationAlike, AllocationDiffer, AllocationCrash, Updates, UpdatesFail,
     ManagedEsc, ManagedEscCpp, ManagedServo, ManagedRangefinder}
=============================================================================
