------------------------------- MODULE EscNode -------------------------------
(***************************************************************************)
(* The example nodes (esc_node.c and the programs made from it): dynamic node-ID *)
(* allocation, parameters, restart, firmware update and the main loop, on a bus   *)
(* with an allocator, a file server and an operator, which are not in the         *)
(* repository.  A message is a whole transfer: CanardRx and CanardTxPath are about *)
(* frames.  Time goes in ticks of about 250 ms; what counts is the order of the periods. *)
(***************************************************************************)
EXTENDS EscPrograms, FiniteSets

CONSTANTS
    Nodes,              \* the nodes
    Symbols,            \* what unique IDs and paths are made of
    Scenarios,          \* what happens on the bus: see IsScenario
    MinRequestPeriod,   \* ALLOCATION_MIN_REQUEST_PERIOD_MS
    FollowupDelays,     \* random() % ALLOCATION_MAX_FOLLOWUP_DELAY_MS
    FollowupTimeout,    \* after which the allocator forgets a query
    ReadTimeout,        \* the 750 ms of send_firmware_read
    TidMod,             \* 32 in the code
    ServerId,           \* the node-ID of the operator's tool, the file server, too
    DynamicIds          \* the node-IDs that the allocator gives

(* What an operator sends. *)
Commands == {"info", "getset", "opcode", "restart", "begin", "RawCommand", "ArrayCommand"}

(* uid: the unique IDs, three parts each; program: which one runs; static: the     *)
(* CAN_NODE saved; echo: whether a node hears itself (multicast); images: by path, *)
(* how many whole chunks a file has; commands: what the operator may send; the     *)
(* other numbers bound how often something happens.                             *)
IsScenario(s) ==
    /\ s.uid \in [Nodes -> [1 .. 3 -> Symbols]]
    /\ s.program \in [Nodes -> Programs]
    /\ s.static \in [Nodes -> Nat \ DynamicIds]
    /\ s.echo \in BOOLEAN
    /\ \A path \in DOMAIN s.images : s.images[path] \in Nat
    /\ \A m \in s.commands :
          m.kind \in Commands /\ (m.kind = "begin" => m.path \in Seq(Symbols) \ {<<>>})
    /\ s.left \in [{"losses", "delays", "commands", "seconds", "faults"} -> Nat]

ASSUME EscAssumption ==
    /\ \A s \in Scenarios : IsScenario(s)
    /\ MinRequestPeriod \in Nat /\ FollowupDelays \subseteq Nat
    /\ \A d \in FollowupDelays : d < MinRequestPeriod
    /\ ReadTimeout \in Nat \ {0}
    /\ TidMod \in Nat \ {0}
    /\ ServerId # 0
    /\ DynamicIds \subseteq 1 .. 127

VARIABLES
    scenario,
    left,       \* how many losses, delays, commands, seconds and faults are still to come
    node,       \* the memory of the nodes
    disk,       \* their files: settings.dat and newfirmware.bin
    txq,        \* the transfers in their TX queues
    inbox,      \* the transfers on their way to them
    allocator,  \* [requests, query, age, table]
    server      \* the read requests at the file server

escVars == <<scenario, left, node, disk, txq, inbox, allocator, server>>

Max2(a, b) == IF a < b THEN b ELSE a
Program(n) == scenario.program[n]

-----------------------------------------------------------------------------
(* What a handler does: the new memory, the new files, the transfers to send, and  *)
(* how many faults of the system it met.  A handler is the set of its outcomes.    *)

Outcome(s, d, out) == [s |-> s, d |-> d, out |-> out, faults |-> 0]
Reply(of, value) == [kind |-> "reply", of |-> of, value |-> value]

(* The generated decoder rejects the transfer, a file cannot be opened, or the pool is *)
(* empty: nothing changes.                                                  *)
Fault(s, d) == [Outcome(s, d, <<>>) EXCEPT !.faults = 1]

(* canardSetLocalNodeID: a number that is no unicast node-ID fails the assertion. *)
canardSetLocalNodeID(s, id) ==
    IF id \in 1 .. 127 THEN [s EXCEPT !.id = id] ELSE [s EXCEPT !.up = FALSE]

(* Rule C, with the random part. *)
Postponed(s) == {[s EXCEPT !.wait = MinRequestPeriod + r] : r \in FollowupDelays}

(* Seeded defect: a node takes the ID of whoever shares the first part. *)
Matches_FirstPart(n, uid) == Head(uid) = Head(scenario.uid[n])

Matches(n, uid) == IsPrefix(uid, scenario.uid[n])

handle_DNA_Allocation(n, s, d, m) ==
    IF s.id # 0 THEN {Outcome(s, d, <<>>)}
    ELSE {Outcome(
            IF m.kind = "request ID" \/ ~Matches(n, m.uid) THEN [t EXCEPT !.offset = 0]
            ELSE IF Len(m.uid) < 3
            THEN [t EXCEPT !.offset = Len(m.uid), !.wait = @ - MinRequestPeriod]
            ELSE canardSetLocalNodeID(t, m.id),
            d, <<>>) : t \in Postponed(s)}
         \cup {Fault(t, d) : t \in {u \in Postponed(s) : m.kind = "allocation"}}

(* Seeded defect: the offset stays when the answer does not come. *)
AfterRequest_KeepsOffset(s) == s

(* "Preparing for timeout" *)
AfterRequest(s) == [s EXCEPT !.offset = 0]

request_DNA(n, s, d) ==
    {Outcome(AfterRequest(t), d,
             <<[kind |-> "request ID", first |-> s.offset = 0,
                part |-> scenario.uid[n][s.offset + 1], last |-> s.offset = 2]>>) :
        t \in Postponed(s)}

(* A parameter is found by its name or by its index; only the former sets it. *)
handle_param_GetSet(n, s, d, m) ==
    LET found == m.name \in Parameters(Program(n))
        set == found /\ m.byName /\ m.value # Empty
        new == IF set THEN [s EXCEPT !.settings[m.name] = m.value] ELSE s
        reply == <<Reply("getset", IF found THEN new.settings[m.name] ELSE Empty)>>
    IN  {Outcome(new, IF set /\ Saves(Program(n)) THEN [d EXCEPT !.settings = new.settings] ELSE d,
                 reply),
         [Outcome(new, d, reply) EXCEPT !.faults = 1],   \* save_settings opens no file
         Fault(s, d)}

handle_param_ExecuteOpcode(s, d) == {Outcome(s, d, <<Reply("opcode", TRUE)>>), Fault(s, d)}

(* The mode is the one that was sent last. *)
handle_GetNodeInfo(s, d) == {Outcome(s, d, <<Reply("info", s.updating)>>)}

(* exit(0) *)
handle_RestartNode(s, d) == {Outcome([s EXCEPT !.up = FALSE], d, <<>>)}

(* strncpy without the 0 at the end: what was there before stays behind it. *)
Overlay(old, new) == new \o SubSeq(old, Len(new) + 1, Len(old))

Repeated(s, m) == s.fw.node = ServerId /\ s.fw.fd # "none" /\ IsPrefix(m.path, s.fw.path)

handle_begin_firmware_update(s, d, m) ==
    IF Repeated(s, m) THEN {Outcome(s, d, <<>>)}
    ELSE {Outcome([s EXCEPT !.fw.fd = "open", !.fw.offset = 0, !.fw.node = ServerId,
                            !.fw.path = Overlay(@, m.path), !.fw.asked = m.path],
                  [d EXCEPT !.firmware = <<>>],
                  <<Reply("begin", TRUE)>>),
          Fault([s EXCEPT !.fw.fd = "none"], d), Fault(s, d)}

(* Seeded defect: the transfer-ID is not kept in 5 bits. *)
NextReadTid_Unwrapped(tid) == tid + 1

NextReadTid(tid) == (tid + 1) % TidMod

send_firmware_read(n, s, d) ==
    LET asked == [s EXCEPT !.fw.wait = ReadTimeout]
    IN  IF s.fw.wait > 0 THEN {Outcome(s, d, <<>>)}
        ELSE {Outcome([asked EXCEPT !.fw.tid = NextReadTid(@)], d,
                      <<[kind |-> "read", from |-> n, path |-> s.fw.path,
                         offset |-> s.fw.offset, tid |-> s.fw.tid]>>),
              Fault(asked, d)}

(* Seeded defect: any answer of the server is taken for the last one. *)
ForUs_AnyTransfer(s, m) == s.fw.node = ServerId

ForUs(s, m) == (m.tid + 1) % TidMod = s.fw.tid /\ s.fw.node = ServerId

(* "trigger a new read" *)
Progress(s) == [s EXCEPT !.fw.offset = @ + 1, !.fw.wait = 0]

(* The code ignores what write() returns: here it writes the whole chunk. *)
handle_file_read_response(s, d, m) ==
    IF ~ForUs(s, m) THEN {Outcome(s, d, <<>>)}
    ELSE IF m.error THEN {Outcome([s EXCEPT !.fw.node = 0], d, <<>>)}
    ELSE {Outcome(
            IF m.whole THEN Progress(s)
            ELSE [s EXCEPT !.fw.fd = IF @ = "open" THEN "closed" ELSE @, !.fw.node = 0],
            IF s.fw.fd = "open" THEN [d EXCEPT !.firmware = Append(@, m.chunk)] ELSE d,
            <<>>),
          Fault(s, d)}

(* The demands of the motors, by the program's own command. *)
Commanded(n, s, m) == {[s EXCEPT !.demand = Demand(Program(n), s.demand, s.settings, m.values)]}

(* shouldAcceptTransfer and onTransferReceived *)
onTransferReceived(n, s, d, m) ==
    IF m.kind \notin Handles(Program(n)) THEN {Outcome(s, d, <<>>)}
    ELSE CASE m.kind \in {"request ID", "allocation"} -> handle_DNA_Allocation(n, s, d, m)
           [] m.kind = "getset" -> handle_param_GetSet(n, s, d, m)
           [] m.kind = "opcode" -> handle_param_ExecuteOpcode(s, d)
           [] m.kind = "info" -> handle_GetNodeInfo(s, d)
           [] m.kind = "restart" -> handle_RestartNode(s, d)
           [] m.kind = "begin" -> handle_begin_firmware_update(s, d, m)
           [] m.kind = "chunk" -> handle_file_read_response(s, d, m)
           [] m.kind = CommandOf(Program(n)) ->
                {Outcome(t, d, <<>>) : t \in Commanded(n, s, m)}

-----------------------------------------------------------------------------
(* The main loop *)

(* One turn for a service that is late: the status once a second, the telemetry     *)
(* more often.  next_1hz_service_at moves on by one second only.                  *)
process1HzTasks(s, d) ==
    {IF s.late.status = 0 THEN Outcome(s, d, <<>>)
     ELSE Outcome([s EXCEPT !.late.status = @ - 1, !.updating = s.fw.node # 0], d,
                  <<[kind |-> "status", updating |-> s.fw.node # 0,
                     progress |-> IF s.fw.node # 0 THEN s.fw.offset ELSE 0]>>)}

sendTelemetry(n, s, d) ==
    {IF s.late.telemetry = 0 \/ Silent(Program(n), s.settings) THEN Outcome(s, d, <<>>)
     ELSE Outcome([s EXCEPT !.late.telemetry = StillLate(Program(n), @)], d,
                  Telemetry(Program(n), s.demand, s.settings))}

(* f after the outcomes of a handler. *)
Then(outcomes, f(_, _)) ==
    UNION {{[x EXCEPT !.out = o.out \o x.out, !.faults = o.faults + x.faults] : x \in f(o.s, o.d)} :
            o \in outcomes}

readWhenUpdating(n, s, d) ==
    IF s.fw.node # 0 THEN send_firmware_read(n, s, d) ELSE {Outcome(s, d, <<>>)}

(* A node without ID does nothing but ask for one. *)
Tasks(n, s, d) ==
    IF ~s.up THEN {Outcome(s, d, <<>>)}
    ELSE IF s.id = 0
    THEN IF s.wait = 0 THEN request_DNA(n, s, d) ELSE {Outcome(s, d, <<>>)}
    ELSE Then(Then(process1HzTasks(s, d), LAMBDA t, e : sendTelemetry(n, t, e)),
              LAMBDA t, e : readWhenUpdating(n, t, e))

Due(n) ==
    LET s == node[n]
    IN  /\ s.up
        /\ IF s.id = 0 THEN s.wait = 0
           ELSE \/ s.late.status > 0
                \/ s.late.telemetry > 0 /\ ~Silent(Program(n), s.settings)
                \/ s.fw.node # 0 /\ s.fw.wait = 0

(* The receiving half of processTxRxOnce and the rest of the loop.  The TX queue is  *)
(* empty then, unless the driver had no room for it.                            *)
Pass(n) ==
    /\ node[n].up
    /\ inbox[n] # <<>> \/ Due(n)
    /\ txq[n] # <<>> => left.delays > 0
    /\ LET received == IF inbox[n] = <<>> THEN {Outcome(node[n], disk[n], <<>>)}
                       ELSE onTransferReceived(n, node[n], disk[n], Head(inbox[n]))
       IN  \E o \in Then(received, LAMBDA t, e : Tasks(n, t, e)) :
              /\ o.faults <= left.faults
              /\ node' = [node EXCEPT ![n] = o.s]
              /\ disk' = [disk EXCEPT ![n] = o.d]
              /\ txq' = [txq EXCEPT ![n] = IF o.s.up THEN @ \o o.out ELSE <<>>]
              /\ inbox' = [inbox EXCEPT ![n] = IF @ = <<>> \/ ~o.s.up THEN <<>> ELSE Tail(@)]
              /\ left' = [left EXCEPT !.faults = @ - o.faults,
                                      !.delays = IF txq[n] = <<>> THEN @ ELSE @ - 1]
    /\ UNCHANGED <<scenario, allocator, server>>

(* The transmitting half: the frames go to the driver, which fails or not.        *)
Hears(n, sender) == node[n].up /\ (n # sender \/ scenario.echo)

Sent(n, m) ==
    /\ inbox' = [k \in Nodes |-> IF m.kind = "request ID" /\ Hears(k, n) THEN Append(inbox[k], m)
                                 ELSE inbox[k]]
    /\ allocator' = IF m.kind = "request ID" THEN [allocator EXCEPT !.requests = Append(@, m)]
                    ELSE allocator
    /\ server' = IF m.kind = "read" THEN Append(server, m) ELSE server

Transmit(n) ==
    /\ txq[n] # <<>>
    /\ txq' = [txq EXCEPT ![n] = Tail(@)]
    /\ \/ Sent(n, Head(txq[n])) /\ UNCHANGED left
       \/ /\ left.losses > 0
          /\ left' = [left EXCEPT !.losses = @ - 1]
          /\ UNCHANGED <<inbox, allocator, server>>
    /\ UNCHANGED <<scenario, node, disk>>

(* main, up to the loop; fwupdate.fd = -1 is in load_settings. *)
Fresh(d) ==
    [up |-> TRUE, id |-> 0, settings |-> d.settings, wait |-> 0, offset |-> 0,
     fw |-> [path |-> <<>>, asked |-> <<>>, node |-> 0, tid |-> 0, wait |-> 0, fd |-> "none",
             offset |-> 0],
     late |-> [status |-> 0, telemetry |-> 0], updating |-> FALSE, demand |-> NoDemand]

Started(d) ==
    IF d.settings["CAN_NODE"] > 0
    THEN canardSetLocalNodeID(Fresh(d), d.settings["CAN_NODE"])
    ELSE Fresh(d)

Boot(n) ==
    /\ ~node[n].up
    /\ node' = [node EXCEPT ![n] = Started(disk[n])]
    /\ UNCHANGED <<scenario, left, disk, txq, inbox, allocator, server>>

(* The program ends between two turns of its loop. *)
Crash(n) ==
    /\ node[n].up /\ left.faults > 0
    /\ left' = [left EXCEPT !.faults = @ - 1]
    /\ node' = [node EXCEPT ![n].up = FALSE]
    /\ txq' = [txq EXCEPT ![n] = <<>>]
    /\ inbox' = [inbox EXCEPT ![n] = <<>>]
    /\ UNCHANGED <<scenario, disk, allocator, server>>

-----------------------------------------------------------------------------
(* The others on the bus *)

(* A transfer gets lost on its way to a node. *)
Lose(n) ==
    /\ left.losses > 0 /\ inbox[n] # <<>>
    /\ left' = [left EXCEPT !.losses = @ - 1]
    /\ inbox' = [inbox EXCEPT ![n] = Tail(@)]
    /\ UNCHANGED <<scenario, node, disk, txq, allocator, server>>

ToAll(m) == [k \in Nodes |-> IF node[k].up THEN Append(inbox[k], m) ELSE inbox[k]]

(* The allocator puts a unique ID together, gives the highest node-ID that is free *)
(* and keeps what it gave.                                                  *)
Query(m) ==
    IF m.first THEN <<m.part>>
    ELSE IF allocator.query # <<>> /\ (m.last <=> Len(allocator.query) = 2)
    THEN Append(allocator.query, m.part)
    ELSE <<>>

Unused == DynamicIds \ {e.id : e \in allocator.table}

Allocate ==
    /\ allocator.requests # <<>>
    /\ LET query == Query(Head(allocator.requests))
           rest == Tail(allocator.requests)
           known == {e \in allocator.table : e.uid = query}
       IN  IF query = <<>> \/ (Len(query) = 3 /\ known = {} /\ Unused = {})
           THEN allocator' = [allocator EXCEPT !.requests = rest] /\ UNCHANGED inbox
           ELSE IF Len(query) < 3
           THEN /\ inbox' = ToAll([kind |-> "allocation", uid |-> query, id |-> 0])
                /\ allocator' = [allocator EXCEPT !.requests = rest, !.query = query, !.age = 0]
           ELSE \E id \in IF known = {} THEN {Max(Unused)} ELSE {e.id : e \in known} :
                /\ inbox' = ToAll([kind |-> "allocation", uid |-> query, id |-> id])
                /\ allocator' = [allocator EXCEPT !.requests = rest, !.query = <<>>, !.age = 0,
                                                  !.table = @ \cup {[uid |-> query, id |-> id]}]
    /\ UNCHANGED <<scenario, left, node, disk, txq, server>>

Chunk(path, i) == [path |-> path, index |-> i]
Image(path) == [i \in 1 .. scenario.images[path] + 1 |-> Chunk(path, i - 1)]

Serve ==
    /\ server # <<>>
    /\ LET m == Head(server)
           known == m.path \in DOMAIN scenario.images
           answer == [kind |-> "chunk", tid |-> m.tid, error |-> ~known,
                      whole |-> known /\ m.offset < scenario.images[m.path],
                      chunk |-> Chunk(m.path, m.offset)]
       IN  inbox' = IF node[m.from].up THEN [inbox EXCEPT ![m.from] = Append(@, answer)] ELSE inbox
    /\ server' = Tail(server)
    /\ UNCHANGED <<scenario, left, node, disk, txq, allocator>>

(* The operator addresses a node by its ID; another update is begun when the status  *)
(* says that the last one has ended and its reads are answered.                  *)
Begins(n) == {inbox[n][i].path : i \in {j \in DOMAIN inbox[n] : inbox[n][j].kind = "begin"}}
Allowed(n, m) ==
    m.kind = "begin" =>
        /\ Begins(n) \subseteq {m.path}
        /\ m.path = node[n].fw.asked \/ (node[n].fw.node = 0 /\ server = <<>>)

Operate(n) ==
    /\ left.commands > 0 /\ node[n].up /\ node[n].id # 0
    /\ \E m \in scenario.commands :
        /\ Allowed(n, m)
        /\ inbox' = [inbox EXCEPT ![n] = Append(@, m)]
    /\ left' = [left EXCEPT !.commands = @ - 1]
    /\ UNCHANGED <<scenario, node, disk, txq, allocator, server>>

-----------------------------------------------------------------------------
(* Time goes on when the loops have nothing to do; the server may be slower. *)

Quiet ==
    /\ \A n \in Nodes : node[n].up /\ inbox[n] = <<>> /\ txq[n] = <<>> /\ ~Due(n)
    /\ allocator.requests = <<>>

Waiting(n) == (node[n].id = 0 /\ node[n].wait > 0) \/ (node[n].fw.node # 0 /\ node[n].fw.wait > 0)
Down(k) == Max2(k - 1, 0)

Tick ==
    /\ Quiet
    /\ \E n \in Nodes : Waiting(n)
    /\ server # <<>> => left.delays > 0
    /\ left' = IF server # <<>> THEN [left EXCEPT !.delays = @ - 1] ELSE left
    /\ node' = [n \in Nodes |-> [node[n] EXCEPT !.wait = IF node[n].id = 0 THEN Down(@) ELSE 0,
                                                !.fw.wait = Down(@)]]
    /\ allocator' = IF allocator.query = <<>> THEN allocator
                    ELSE IF allocator.age + 1 = FollowupTimeout
                    THEN [allocator EXCEPT !.query = <<>>, !.age = 0]
                    ELSE [allocator EXCEPT !.age = @ + 1]
    /\ UNCHANGED <<scenario, disk, txq, inbox, server>>

Second ==
    /\ Quiet /\ left.seconds > 0
    /\ left' = [left EXCEPT !.seconds = @ - 1]
    /\ node' = [n \in Nodes |-> [node[n] EXCEPT !.late.status = @ + 1, !.late.telemetry = @ + 1]]
    /\ UNCHANGED <<scenario, disk, txq, inbox, allocator, server>>

-----------------------------------------------------------------------------
EscInit ==
    /\ scenario \in Scenarios
    /\ left = scenario.left
    /\ disk = [n \in Nodes |->
                [settings |-> [p \in AllParameters |->
                                IF p = "CAN_NODE" THEN scenario.static[n] ELSE Default(p)],
                 firmware |-> <<>>]]
    /\ node = [n \in Nodes |-> Started(disk[n])]
    /\ txq = [n \in Nodes |-> <<>>]
    /\ inbox = [n \in Nodes |-> <<>>]
    /\ allocator = [requests |-> <<>>, query |-> <<>>, age |-> 0, table |-> {}]
    /\ server = <<>>

EscNext ==
    \/ \E n \in Nodes : Pass(n)
    \/ \E n \in Nodes : Transmit(n)
    \/ \E n \in Nodes : Boot(n)
    \/ \E n \in Nodes : Crash(n)
    \/ \E n \in Nodes : Lose(n)
    \/ Allocate
    \/ Serve
    \/ \E n \in Nodes : Operate(n)
    \/ Tick
    \/ Second

(* As long as a loop or the others have something to do, or time can pass, one of them  *)
(* goes on; nobody has to lose or to command anything.  Time waits for the rest, so    *)
(* that no loop starves.                                                       *)
Running ==
    \/ \E n \in Nodes : Pass(n) \/ Transmit(n) \/ Boot(n)
    \/ Allocate
    \/ Serve
    \/ Tick

FairEscSpec == EscInit /\ [][EscNext]_escVars /\ WF_escVars(Running)

-----------------------------------------------------------------------------
(* Properties *)

EscTypeOK ==
    /\ scenario \in Scenarios
    /\ \A n \in Nodes :
        LET s == node[n]
        IN  /\ s.id \in 0 .. 127 /\ s.offset \in 0 .. 2
            /\ s.wait \in 0 .. MinRequestPeriod + MinRequestPeriod
            /\ s.fw.tid \in 0 .. TidMod - 1 /\ s.fw.wait \in 0 .. ReadTimeout
            /\ s.fw.node \in {0, ServerId} /\ s.fw.fd \in {"none", "open", "closed"}
            /\ s.fw.node # 0 => s.fw.fd # "closed"

(* esc_node.c:417, "Matching the received UID against the local one": whatever requests   *)
(* collide, and whatever prefixes the unique IDs share, no two nodes have one ID.   *)
OneNodePerId ==
    \A n, k \in Nodes :
        n # k /\ node[n].up /\ node[k].up /\ node[n].id = node[k].id => node[n].id = 0

(* newfirmware.bin is the beginning of the image that the operator asked for, without *)
(* a chunk twice, left out or of another file, though reads are repeated and        *)
(* answers lost or late; and when the file is closed it is all of it.             *)
FileIsImage ==
    \A n \in Nodes :
        LET s == node[n]
            image == Image(s.fw.asked)
        IN  s.up /\ s.fw.asked # <<>> /\ s.fw.asked \in DOMAIN scenario.images =>
                /\ IsPrefix(disk[n].firmware, image)
                /\ s.fw.fd = "closed" => disk[n].firmware = image

(* Once the losses are over, the nodes get an ID, updates end, and what is late is     *)
(* caught up with.  Two that ask at once can collide as long as Rule C draws the same  *)
(* delays for both; with only one left, it gets its ID.                             *)
Settled(n) ==
    LET s == node[n]
    IN  s.up /\ s.id # 0 /\ s.fw.node = 0 /\ s.late.status = 0
Collide(n) == node[n].id = 0 /\ \E k \in Nodes \ {n} : node[k].id = 0
Settles == <>[](\A n \in Nodes : Settled(n) \/ Collide(n))
=============================================================================
