---------------------------- MODULE EscNodeProofs ----------------------------
(***************************************************************************)
(* The example nodes, for any number of nodes, any unique IDs and any budget of     *)
(* losses, delays and faults: no two nodes have one ID, and newfirmware.bin is what     *)
(* the operator asked for, for any images and any read timeout.                    *)
(***************************************************************************)
EXTENDS EscNode, SequenceTheorems, WellFoundedInduction, TLAPS

Tid == 0 .. TidMod - 1
Path == Seq(Symbols)
ChunkType == [path : Path, index : Nat]

Request == [kind : {"request ID"}, first : BOOLEAN, part : Symbols, last : BOOLEAN]
Announcement == [kind : {"allocation"}, uid : Seq(Symbols), id : Nat]
Read == [kind : {"read"}, from : Nodes, path : Path, offset : Nat, tid : Tid]
ReadAnswer ==
    [kind : {"chunk"}, tid : Tid, error : BOOLEAN, whole : BOOLEAN, chunk : ChunkType]

SettingsOK(v, given) ==
    /\ v = [p \in AllParameters |-> v[p]]
    /\ v["CAN_NODE"] \in given

FwType(fw) ==
    fw \in [path : Path, asked : Path, node : {0, ServerId}, tid : Tid, wait : 0 .. ReadTimeout,
            fd : {"none", "open", "closed"}, offset : Nat]

(* The memory and the files of a node that may find the IDs given among its settings; own  *)
(* are all IDs that it may have.                                                *)
NodeOK(s, given, own) ==
    /\ s \in [up : BOOLEAN, id : 0 .. 127, settings : {s.settings},
              wait : 0 .. MinRequestPeriod + MinRequestPeriod, offset : 0 .. 2, fw : {s.fw},
              late : [status : Nat, telemetry : Nat], updating : BOOLEAN, demand : {s.demand}]
    /\ FwType(s.fw)
    /\ s.fw.node # 0 => s.fw.fd # "closed"
    /\ SettingsOK(s.settings, given)
    /\ s.id # 0 => s.id \in own

DiskOK(d, given) ==
    /\ d \in [settings : {d.settings}, firmware : Seq(ChunkType)]
    /\ SettingsOK(d.settings, given)

(* What a node sends: only requests for an ID and reads are answered here. *)
SentOK(n, m) ==
    /\ m.kind = "request ID" => m \in Request
    /\ m.kind = "read" => m \in Read /\ m.from = n

OutOK(n, q) == (\E S : q \in Seq(S)) /\ \A i \in DOMAIN q : SentOK(n, q[i])

(* What a node receives: an announced ID is in the allocator's table. *)
Received(m, table, commands) ==
    \/ m \in Request
    \/ m \in Announcement /\ (Len(m.uid) >= 3 => [uid |-> m.uid, id |-> m.id] \in table)
    \/ m \in ReadAnswer
    \/ m \in commands

InOK(q, table, commands) ==
    (\E S : q \in Seq(S)) /\ \A i \in DOMAIN q : Received(q[i], table, commands)

(* The node-IDs that some command saves. *)
Assigned(commands) ==
    {m.value : m \in {c \in commands : c.kind = "getset" /\ c.byName /\ c.name = "CAN_NODE"}}
        \ {Empty}

(* The IDs that node n got from its operator, and those from the allocator, too. *)
Given(n) == {scenario.static[n]} \cup Assigned(scenario.commands)
Owned(n) ==
    Given(n) \cup {e.id : e \in {f \in allocator.table : f.uid = scenario.uid[n]}}

(* A whole unique ID is not kept, and the table is one to one. *)
AllocatorOK ==
    /\ allocator \in [requests : Seq(Request), query : Seq(Symbols), age : {allocator.age},
                      table : SUBSET [uid : Seq(Symbols), id : DynamicIds]]
    /\ Len(allocator.query) < 3
    /\ \A e, f \in allocator.table : e.uid = f.uid \/ e.id = f.id => e = f

EscInv ==
    /\ scenario \in Scenarios
    /\ DOMAIN node = Nodes /\ DOMAIN disk = Nodes /\ DOMAIN txq = Nodes /\ DOMAIN inbox = Nodes
    /\ \A n \in Nodes :
          /\ NodeOK(node[n], Given(n), Owned(n))
          /\ DiskOK(disk[n], Given(n))
          /\ OutOK(n, txq[n])
          /\ InOK(inbox[n], allocator.table, scenario.commands)
    /\ AllocatorOK
    /\ server \in Seq(Read)

(* No two nodes are the same. *)
Unlike(s) ==
    \A n, k \in Nodes :
        n # k => s.uid[n] # s.uid[k] /\ (s.static[n] = s.static[k] => s.static[n] = 0)

-----------------------------------------------------------------------------
(* Queues *)

LEMMA QueueTail ==
    ASSUME NEW S, NEW q \in Seq(S), q # <<>>
    PROVE  /\ Tail(q) \in Seq(S) /\ 1 \in DOMAIN q /\ Head(q) = q[1]
           /\ \A i \in DOMAIN Tail(q) : i + 1 \in DOMAIN q /\ Tail(q)[i] = q[i + 1]
<1>1. /\ Tail(q) \in Seq(S) /\ Len(Tail(q)) = Len(q) - 1
      /\ \A i \in 1 .. Len(q) - 1 : Tail(q)[i] = q[i + 1]
  OBVIOUS
<1>2. DOMAIN Tail(q) = 1 .. Len(q) - 1 /\ DOMAIN q = 1 .. Len(q) /\ Len(q) \in Nat \ {0}
  BY <1>1
<1>3. \A i \in 1 .. Len(q) - 1 : i + 1 \in 1 .. Len(q)
  BY <1>2
<1>4. 1 \in 1 .. Len(q) /\ Head(q) = q[1]
  BY <1>2
<1> QED
  BY <1>1, <1>2, <1>3, <1>4

LEMMA QueueAppend ==
    ASSUME NEW S, NEW q \in Seq(S), NEW m
    PROVE  /\ Append(q, m) \in Seq(S \cup {m})
           /\ \A i \in DOMAIN Append(q, m) :
                 Append(q, m)[i] = m \/ (i \in DOMAIN q /\ Append(q, m)[i] = q[i])
<1>1. q \in Seq(S \cup {m})
  OBVIOUS
<1>2. /\ Append(q, m) \in Seq(S \cup {m}) /\ Len(Append(q, m)) = Len(q) + 1 /\ Len(q) \in Nat
      /\ DOMAIN q = 1 .. Len(q)
      /\ \A i \in 1 .. Len(q) : Append(q, m)[i] = q[i]
      /\ Append(q, m)[Len(q) + 1] = m
  BY <1>1
<1>3. DOMAIN Append(q, m) = 1 .. Len(q) + 1
  BY <1>2
<1>4. \A i \in 1 .. Len(q) + 1 : i \in 1 .. Len(q) \/ i = Len(q) + 1
  BY <1>2
<1> QED
  BY <1>2, <1>3, <1>4

LEMMA QueueConcat ==
    ASSUME NEW S, NEW T, NEW q \in Seq(S), NEW r \in Seq(T)
    PROVE  /\ q \o r \in Seq(S \cup T)
           /\ \A i \in DOMAIN (q \o r) :
                 \/ i \in DOMAIN q /\ (q \o r)[i] = q[i]
                 \/ \E j \in DOMAIN r : (q \o r)[i] = r[j]
<1>1. q \in Seq(S \cup T) /\ r \in Seq(S \cup T)
  OBVIOUS
<1>2. /\ q \o r \in Seq(S \cup T) /\ Len(q \o r) = Len(q) + Len(r)
      /\ Len(q) \in Nat /\ Len(r) \in Nat
      /\ DOMAIN q = 1 .. Len(q) /\ DOMAIN r = 1 .. Len(r)
  BY <1>1
<1>3. \A i \in 1 .. Len(q) + Len(r) :
         (q \o r)[i] = IF i <= Len(q) THEN q[i] ELSE r[i - Len(q)]
  BY <1>1
<1>4. DOMAIN (q \o r) = 1 .. Len(q) + Len(r)
  BY <1>2
<1>5. \A i \in 1 .. Len(q) + Len(r) :
         (i <= Len(q) => i \in 1 .. Len(q)) /\ (~(i <= Len(q)) => i - Len(q) \in 1 .. Len(r))
  BY <1>2
<1> QED
  BY <1>2, <1>3, <1>4, <1>5

LEMMA OutConcat ==
    ASSUME NEW n, NEW q, NEW r, OutOK(n, q), OutOK(n, r)
    PROVE  OutOK(n, q \o r)
<1>1. PICK S : q \in Seq(S)
  BY DEF OutOK
<1>2. PICK T : r \in Seq(T)
  BY DEF OutOK
<1>3. /\ q \o r \in Seq(S \cup T)
      /\ \A i \in DOMAIN (q \o r) :
            \/ i \in DOMAIN q /\ (q \o r)[i] = q[i]
            \/ \E j \in DOMAIN r : (q \o r)[i] = r[j]
  BY <1>1, <1>2, QueueConcat
<1>4. \A i \in DOMAIN (q \o r) : SentOK(n, (q \o r)[i])
  BY <1>3 DEF OutOK
<1> QED
  BY <1>3, <1>4 DEF OutOK

LEMMA OutTail ==
    ASSUME NEW n, NEW q, OutOK(n, q), q # <<>>
    PROVE  OutOK(n, Tail(q)) /\ SentOK(n, Head(q))
<1>1. PICK S : q \in Seq(S)
  BY DEF OutOK
<1>2. /\ Tail(q) \in Seq(S) /\ 1 \in DOMAIN q /\ Head(q) = q[1]
      /\ \A i \in DOMAIN Tail(q) : i + 1 \in DOMAIN q /\ Tail(q)[i] = q[i + 1]
  BY <1>1, QueueTail
<1>3. \A i \in DOMAIN Tail(q) : SentOK(n, Tail(q)[i])
  BY <1>2 DEF OutOK
<1>4. SentOK(n, Head(q))
  BY <1>2 DEF OutOK
<1> QED
  BY <1>2, <1>3, <1>4 DEF OutOK

LEMMA OutNothing ==
    ASSUME NEW n
    PROVE  OutOK(n, <<>>)
<1>1. <<>> \in Seq({}) /\ DOMAIN <<>> = {}
  OBVIOUS
<1> QED
  BY <1>1 DEF OutOK

LEMMA OutOne ==
    ASSUME NEW n, NEW m, SentOK(n, m)
    PROVE  OutOK(n, <<m>>)
<1>1. <<m>> \in Seq({m}) /\ DOMAIN <<m>> = {1} /\ <<m>>[1] = m
  OBVIOUS
<1> QED
  BY <1>1 DEF OutOK

LEMMA InTail ==
    ASSUME NEW table, NEW commands, NEW q, InOK(q, table, commands), q # <<>>
    PROVE  InOK(Tail(q), table, commands) /\ Received(Head(q), table, commands)
<1>1. PICK S : q \in Seq(S)
  BY DEF InOK
<1>2. /\ Tail(q) \in Seq(S) /\ 1 \in DOMAIN q /\ Head(q) = q[1]
      /\ \A i \in DOMAIN Tail(q) : i + 1 \in DOMAIN q /\ Tail(q)[i] = q[i + 1]
  BY <1>1, QueueTail
<1>3. \A i \in DOMAIN Tail(q) : Received(Tail(q)[i], table, commands)
  BY <1>2 DEF InOK
<1>4. Received(Head(q), table, commands)
  BY <1>2 DEF InOK
<1> QED
  BY <1>2, <1>3, <1>4 DEF InOK

LEMMA InAppend ==
    ASSUME NEW table, NEW commands, NEW q, InOK(q, table, commands),
           NEW m, Received(m, table, commands)
    PROVE  InOK(Append(q, m), table, commands)
<1>1. PICK S : q \in Seq(S)
  BY DEF InOK
<1>2. /\ Append(q, m) \in Seq(S \cup {m})
      /\ \A i \in DOMAIN Append(q, m) :
            Append(q, m)[i] = m \/ (i \in DOMAIN q /\ Append(q, m)[i] = q[i])
  BY <1>1, QueueAppend
<1>3. \A i \in DOMAIN Append(q, m) : Received(Append(q, m)[i], table, commands)
  BY <1>2 DEF InOK
<1> QED
  BY <1>2, <1>3 DEF InOK

LEMMA InNothing ==
    ASSUME NEW table, NEW commands
    PROVE  InOK(<<>>, table, commands)
<1>1. <<>> \in Seq({}) /\ DOMAIN <<>> = {}
  OBVIOUS
<1> QED
  BY <1>1 DEF InOK

(* What waits stays good when the table grows. *)
LEMMA InGrows ==
    ASSUME NEW table, NEW wider, table \subseteq wider, NEW commands,
           NEW q, InOK(q, table, commands)
    PROVE  InOK(q, wider, commands)
BY DEF InOK, Received

-----------------------------------------------------------------------------
(* Handlers *)

OutcomeOK(n, o, given, own) ==
    /\ o \in [s : {o.s}, d : {o.d}, out : {o.out}, faults : Nat]
    /\ NodeOK(o.s, given, own)
    /\ DiskOK(o.d, given)
    /\ OutOK(n, o.out)

LEMMA OutcomeIs ==
    ASSUME NEW n, NEW given, NEW own, NEW s, NEW d, NEW out,
           NodeOK(s, given, own), DiskOK(d, given), OutOK(n, out)
    PROVE  OutcomeOK(n, Outcome(s, d, out), given, own)
BY DEF OutcomeOK, Outcome

LEMMA FaultIs ==
    ASSUME NEW n, NEW given, NEW own, NEW s, NEW d,
           NodeOK(s, given, own), DiskOK(d, given)
    PROVE  OutcomeOK(n, Fault(s, d), given, own)
<1>1. OutOK(n, <<>>)
  BY OutNothing
<1> QED
  BY <1>1 DEF OutcomeOK, Fault, Outcome

LEMMA ReplyIs ==
    ASSUME NEW n, NEW of, NEW value
    PROVE  OutOK(n, <<Reply(of, value)>>)
<1>1. SentOK(n, Reply(of, value))
  BY DEF SentOK, Reply
<1> QED
  BY <1>1, OutOne

(* The fields that the handlers change, one at a time. *)
LEMMA NodeWait ==
    ASSUME NEW given, NEW own, NEW s, NodeOK(s, given, own),
           NEW w \in 0 .. MinRequestPeriod + MinRequestPeriod
    PROVE  NodeOK([s EXCEPT !.wait = w], given, own)
BY DEF NodeOK

LEMMA NodeOffset ==
    ASSUME NEW given, NEW own, NEW s, NodeOK(s, given, own), NEW w \in 0 .. 2
    PROVE  NodeOK([s EXCEPT !.offset = w], given, own)
BY DEF NodeOK

LEMMA NodeUp ==
    ASSUME NEW given, NEW own, NEW s, NodeOK(s, given, own), NEW w \in BOOLEAN
    PROVE  NodeOK([s EXCEPT !.up = w], given, own)
BY DEF NodeOK

LEMMA NodeId ==
    ASSUME NEW given, NEW own, NEW s, NodeOK(s, given, own),
           NEW id, id \in own \cup {0}
    PROVE  NodeOK(canardSetLocalNodeID(s, id), given, own)
<1>1. CASE id \in 1 .. 127
  BY <1>1 DEF NodeOK, canardSetLocalNodeID
<1>2. CASE id \notin 1 .. 127
  BY <1>2, NodeUp DEF canardSetLocalNodeID
<1> QED
  BY <1>1, <1>2

LEMMA NodeFw ==
    ASSUME NEW given, NEW own, NEW s, NodeOK(s, given, own),
           NEW fw, FwType(fw), fw.node # 0 => fw.fd # "closed"
    PROVE  NodeOK([s EXCEPT !.fw = fw], given, own)
BY DEF NodeOK

LEMMA NodeLate ==
    ASSUME NEW given, NEW own, NEW s, NodeOK(s, given, own),
           NEW late \in [status : Nat, telemetry : Nat]
    PROVE  NodeOK([s EXCEPT !.late = late], given, own)
BY DEF NodeOK

LEMMA NodeSettings ==
    ASSUME NEW given, NEW own, NEW s, NodeOK(s, given, own), NEW v, SettingsOK(v, given)
    PROVE  NodeOK([s EXCEPT !.settings = v], given, own)
BY DEF NodeOK

LEMMA NodeDemand ==
    ASSUME NEW given, NEW own, NEW s, NodeOK(s, given, own), NEW v
    PROVE  NodeOK([s EXCEPT !.demand = v], given, own)
BY DEF NodeOK

LEMMA Postponing ==
    ASSUME NEW given, NEW own, NEW s, NodeOK(s, given, own), NEW t \in Postponed(s)
    PROVE  /\ NodeOK(t, given, own)
           /\ t.offset = s.offset /\ t.id = s.id
           /\ t.wait - MinRequestPeriod \in 0 .. MinRequestPeriod + MinRequestPeriod
<1>1. PICK r \in FollowupDelays : t = [s EXCEPT !.wait = MinRequestPeriod + r]
  BY DEF Postponed
<1>2. /\ r \in Nat /\ r < MinRequestPeriod /\ MinRequestPeriod \in Nat
      /\ MinRequestPeriod + r \in 0 .. MinRequestPeriod + MinRequestPeriod
  BY EscAssumption
<1>3. NodeOK(t, given, own)
  BY <1>1, <1>2, NodeWait
<1>4. t.offset = s.offset /\ t.id = s.id /\ t.wait = MinRequestPeriod + r
  BY <1>1 DEF NodeOK
<1> QED
  BY <1>2, <1>3, <1>4

(* A unique ID has three parts, and only itself is a whole one that matches. *)
LEMMA WholeMatch ==
    ASSUME NEW S, NEW u \in Seq(S), NEW v \in [1 .. 3 -> S], IsPrefix(u, v), ~(Len(u) < 3)
    PROVE  u = v
<1>1. v \in Seq(S)
  <2>1. \A k \in Nat : \A f \in [1 .. k -> S] : f \in Seq(S)
    OBVIOUS
  <2> QED
    BY <2>1
<1>2. Len(v) = 3
  <2>1. \A k \in Nat : \A f \in [1 .. k -> S] : Len(f) = k
    OBVIOUS
  <2> QED
    BY <2>1
<1>3. Len(u) \in Nat /\ Len(u) <= Len(v) /\ SubSeq(u, 1, Len(u)) = SubSeq(v, 1, Len(u))
  BY DEF IsPrefix
<1>4. Len(u) = 3
  BY <1>2, <1>3
<1>5. \A i \in 1 .. 3 : SubSeq(u, 1, 3)[i] = u[i] /\ SubSeq(v, 1, 3)[i] = v[i]
  BY <1>1, <1>2, <1>4
<1>6. \A i \in 1 .. 3 : u[i] = v[i]
  BY <1>3, <1>4, <1>5
<1>7. u \in [1 .. 3 -> S]
  <2>1. \A w \in Seq(S) : w \in [1 .. Len(w) -> S]
    OBVIOUS
  <2>2. u \in [1 .. Len(u) -> S]
    BY <2>1
  <2> QED
    BY <1>4, <2>2
<1> QED
  BY <1>6, <1>7

LEMMA AllocationHandled ==
    ASSUME scenario \in Scenarios, NEW n \in Nodes, NEW given, NEW own,
           NEW table, \A e \in table : e.uid = scenario.uid[n] => e.id \in own,
           NEW s, NodeOK(s, given, own), NEW d, DiskOK(d, given),
           NEW m, Received(m, table, scenario.commands), m.kind \in DNA,
           NEW o \in handle_DNA_Allocation(n, s, d, m)
    PROVE  OutcomeOK(n, o, given, own)
<1>1. IsScenario(scenario)
  BY EscAssumption
<1>2. m \in Request \/ (m \in Announcement /\ (Len(m.uid) >= 3 => [uid |-> m.uid, id |-> m.id] \in table))
  BY <1>1 DEF Received, IsScenario, Commands, DNA, ReadAnswer
<1>3. OutOK(n, <<>>)
  BY OutNothing
<1>4. CASE o = Outcome(s, d, <<>>)
  BY <1>3, <1>4, OutcomeIs
<1>5. CASE \E t \in Postponed(s) : o = Fault(t, d)
  BY <1>5, Postponing, FaultIs
<1>6. ASSUME NEW t \in Postponed(s),
             o = Outcome(IF m.kind = "request ID" \/ ~Matches(n, m.uid) THEN [t EXCEPT !.offset = 0]
                         ELSE IF Len(m.uid) < 3
                         THEN [t EXCEPT !.offset = Len(m.uid), !.wait = @ - MinRequestPeriod]
                         ELSE canardSetLocalNodeID(t, m.id), d, <<>>)
      PROVE  OutcomeOK(n, o, given, own)
  <2>1. NodeOK(t, given, own) /\ t.wait - MinRequestPeriod \in 0 .. MinRequestPeriod + MinRequestPeriod
    BY Postponing
  <2>2. CASE m.kind = "request ID" \/ ~Matches(n, m.uid)
    <3>1. NodeOK([t EXCEPT !.offset = 0], given, own)
      <4>1. 0 \in 0 .. 2
        OBVIOUS
      <4> QED
        BY <2>1, <4>1, NodeOffset
    <3> QED
      BY <1>3, <1>6, <2>2, <3>1, OutcomeIs
  <2>3. CASE ~(m.kind = "request ID" \/ ~Matches(n, m.uid)) /\ Len(m.uid) < 3
    <3>1. m \in Announcement
      BY <1>2, <2>3 DEF Request
    <3>2. Len(m.uid) \in 0 .. 2
      <4>1. m.uid \in Seq(Symbols)
        BY <3>1 DEF Announcement
      <4>2. Len(m.uid) \in Nat
        BY <4>1
      <4>3. Len(m.uid) < 3
        BY <2>3
      <4>4. \A x \in Nat : x < 3 => x \in 0 .. 2
        OBVIOUS
      <4> QED
        BY <4>2, <4>3, <4>4
    <3>3. NodeOK([t EXCEPT !.offset = Len(m.uid)], given, own)
      BY <2>1, <3>2, NodeOffset
    <3>4. NodeOK([[t EXCEPT !.offset = Len(m.uid)] EXCEPT !.wait = t.wait - MinRequestPeriod], given, own)
      BY <2>1, <3>3, NodeWait
    <3>5. [t EXCEPT !.offset = Len(m.uid), !.wait = @ - MinRequestPeriod]
            = [[t EXCEPT !.offset = Len(m.uid)] EXCEPT !.wait = t.wait - MinRequestPeriod]
      BY <2>1 DEF NodeOK
    <3> QED
      BY <1>3, <1>6, <2>3, <3>4, <3>5, OutcomeIs
  <2>4. CASE ~(m.kind = "request ID" \/ ~Matches(n, m.uid)) /\ ~(Len(m.uid) < 3)
    <3>1. m \in Announcement /\ (Len(m.uid) >= 3 => [uid |-> m.uid, id |-> m.id] \in table)
      BY <1>2, <2>4 DEF Request
    <3>2. m.uid \in Seq(Symbols) /\ scenario.uid[n] \in [1 .. 3 -> Symbols] /\ Len(m.uid) \in Nat
      BY <1>1, <3>1 DEF Announcement, IsScenario
    <3>3. IsPrefix(m.uid, scenario.uid[n])
      BY <2>4 DEF Matches
    <3>4. m.uid = scenario.uid[n]
      BY <2>4, <3>2, <3>3, WholeMatch
    <3>5. Len(m.uid) >= 3
      <4>1. ~(Len(m.uid) < 3)
        BY <2>4
      <4> QED
        BY <3>2, <4>1
    <3>6. m.id \in own
      BY <3>1, <3>4, <3>5
    <3>7. NodeOK(canardSetLocalNodeID(t, m.id), given, own)
      BY <2>1, <3>6, NodeId
    <3> QED
      BY <1>3, <1>6, <2>4, <3>7, OutcomeIs
  <2> QED
    BY <2>2, <2>3, <2>4
<1> QED
  BY <1>4, <1>5, <1>6 DEF handle_DNA_Allocation

LEMMA RequestSent ==
    ASSUME scenario \in Scenarios, NEW n \in Nodes, NEW given, NEW own,
           NEW s, NodeOK(s, given, own), NEW d, DiskOK(d, given),
           NEW o \in request_DNA(n, s, d)
    PROVE  OutcomeOK(n, o, given, own)
<1>1. IsScenario(scenario)
  BY EscAssumption
<1> DEFINE m == [kind |-> "request ID", first |-> s.offset = 0,
                 part |-> scenario.uid[n][s.offset + 1], last |-> s.offset = 2]
<1>2. PICK t \in Postponed(s) : o = Outcome(AfterRequest(t), d, <<m>>)
  BY DEF request_DNA
<1>3. s.offset \in 0 .. 2 /\ s.offset + 1 \in 1 .. 3
  BY DEF NodeOK
<1>4. scenario.uid[n][s.offset + 1] \in Symbols
  BY <1>1, <1>3 DEF IsScenario
<1>5. m \in Request
  BY <1>4 DEF Request
<1>6. m.kind = "request ID"
  OBVIOUS
<1> HIDE DEF m
<1>7. OutOK(n, <<m>>)
  BY <1>5, <1>6, OutOne DEF SentOK
<1>8. NodeOK(AfterRequest(t), given, own)
  <2>1. 0 \in 0 .. 2
    OBVIOUS
  <2> QED
    BY <2>1, Postponing, NodeOffset DEF AfterRequest
<1> QED
  BY <1>2, <1>7, <1>8, OutcomeIs

LEMMA GetSetHandled ==
    ASSUME NEW n, NEW given, NEW own,
           NEW s, NodeOK(s, given, own), NEW d, DiskOK(d, given),
           NEW commands, Assigned(commands) \subseteq given, NEW m \in commands, m.kind = "getset",
           NEW o \in handle_param_GetSet(n, s, d, m)
    PROVE  OutcomeOK(n, o, given, own)
<1> DEFINE found == m.name \in Parameters(Program(n))
           set == found /\ m.byName /\ m.value # Empty
           new == IF set THEN [s EXCEPT !.settings[m.name] = m.value] ELSE s
           disk2 == IF set /\ Saves(Program(n)) THEN [d EXCEPT !.settings = new.settings] ELSE d
           reply == <<Reply("getset", IF found THEN new.settings[m.name] ELSE Empty)>>
<1>1. \/ o = Outcome(new, disk2, reply)
      \/ o = [Outcome(new, d, reply) EXCEPT !.faults = 1]
      \/ o = Fault(s, d)
  BY DEF handle_param_GetSet
<1>2. OutOK(n, reply)
  BY ReplyIs
<1>3. NodeOK(new, given, own) /\ SettingsOK(new.settings, given)
  <2>1. CASE set
    <3> DEFINE v == [s.settings EXCEPT ![m.name] = m.value]
    <3>1. m.name = "CAN_NODE" => m.value \in given
      BY <2>1 DEF Assigned
    <3>2. SettingsOK(s.settings, given)
      BY DEF NodeOK
    <3>3. SettingsOK(v, given)
      BY <3>1, <3>2 DEF SettingsOK, AllParameters, Parameters, Programs, EscParameters
    <3>4. new = [s EXCEPT !.settings = v]
      BY <2>1 DEF NodeOK
    <3> HIDE DEF v
    <3>5. [s EXCEPT !.settings = v].settings = v
      BY DEF NodeOK
    <3> QED
      BY <3>3, <3>4, <3>5, NodeSettings
  <2>2. CASE ~set
    BY <2>2 DEF NodeOK
  <2> QED
    BY <2>1, <2>2
<1>4. DiskOK(disk2, given)
  <2> HIDE DEF new, found
  <2>1. DiskOK([d EXCEPT !.settings = new.settings], given)
    BY <1>3 DEF DiskOK
  <2> QED
    BY <2>1
<1> HIDE DEF found, set, new, disk2, reply
<1>5. CASE o = Outcome(new, disk2, reply)
  BY <1>2, <1>3, <1>4, <1>5, OutcomeIs
<1>6. CASE o = [Outcome(new, d, reply) EXCEPT !.faults = 1]
  BY <1>2, <1>3, <1>6 DEF OutcomeOK, Outcome
<1>7. CASE o = Fault(s, d)
  BY <1>7, FaultIs
<1> QED
  BY <1>1, <1>5, <1>6, <1>7

LEMMA RestartHandled ==
    ASSUME NEW n, NEW given, NEW own,
           NEW s, NodeOK(s, given, own), NEW d, DiskOK(d, given),
           NEW o \in handle_RestartNode(s, d)
    PROVE  OutcomeOK(n, o, given, own)
<1>1. o = Outcome([s EXCEPT !.up = FALSE], d, <<>>)
  BY DEF handle_RestartNode
<1>2. NodeOK([s EXCEPT !.up = FALSE], given, own)
  <2>1. FALSE \in BOOLEAN
    OBVIOUS
  <2> QED
    BY <2>1, NodeUp
<1> QED
  BY <1>1, <1>2, OutNothing, OutcomeIs

LEMMA AnswersHandled ==
    ASSUME NEW n, NEW given, NEW own,
           NEW s, NodeOK(s, given, own), NEW d, DiskOK(d, given),
           NEW o \in handle_param_ExecuteOpcode(s, d) \cup handle_GetNodeInfo(s, d)
    PROVE  OutcomeOK(n, o, given, own)
BY ReplyIs, OutcomeIs, FaultIs DEF handle_param_ExecuteOpcode, handle_GetNodeInfo

LEMMA OverlayType ==
    ASSUME NEW old \in Path, NEW new \in Path
    PROVE  Overlay(old, new) \in Path
<1>1. /\ Len(new) \in Nat /\ Len(old) \in Nat
      /\ \A i \in 1 .. Len(old) : old[i] \in Symbols
  BY DEF Path
<1>2. \A i \in Len(new) + 1 .. Len(old) : old[i] \in Symbols
  BY <1>1
<1>3. SubSeq(old, Len(new) + 1, Len(old)) \in Seq(Symbols)
  BY <1>1, <1>2, SubSeqProperties
<1> QED
  BY <1>3 DEF Overlay, Path

LEMMA BeginHandled ==
    ASSUME NEW n, NEW given, NEW own,
           NEW s, NodeOK(s, given, own), NEW d, DiskOK(d, given),
           NEW m, m.path \in Path, NEW o \in handle_begin_firmware_update(s, d, m)
    PROVE  OutcomeOK(n, o, given, own)
<1> DEFINE fw == [s.fw EXCEPT !.fd = "open", !.offset = 0, !.node = ServerId,
                              !.path = Overlay(@, m.path), !.asked = m.path]
           new == [s EXCEPT !.fw.fd = "open", !.fw.offset = 0, !.fw.node = ServerId,
                            !.fw.path = Overlay(@, m.path), !.fw.asked = m.path]
           disk2 == [d EXCEPT !.firmware = <<>>]
<1>1. \/ o = Outcome(s, d, <<>>)
      \/ o = Outcome(new, disk2, <<Reply("begin", TRUE)>>)
      \/ o = Fault([s EXCEPT !.fw.fd = "none"], d)
      \/ o = Fault(s, d)
  BY DEF handle_begin_firmware_update
<1>2. FwType(s.fw)
  BY DEF NodeOK
<1>3. NodeOK(new, given, own)
  <2>1. Overlay(s.fw.path, m.path) \in Path
    BY <1>2, OverlayType DEF FwType
  <2>2. FwType(fw) /\ fw.fd = "open"
    BY <1>2, <2>1 DEF FwType
  <2>3. new = [s EXCEPT !.fw = fw]
    BY <1>2 DEF NodeOK, FwType
  <2> HIDE DEF fw, new
  <2> QED
    BY <2>2, <2>3, NodeFw
<1>4. DiskOK(disk2, given)
  <2>1. <<>> \in Seq(ChunkType)
    OBVIOUS
  <2> QED
    BY <2>1 DEF DiskOK
<1>5. NodeOK([s EXCEPT !.fw.fd = "none"], given, own)
  <2> DEFINE f == [s.fw EXCEPT !.fd = "none"]
  <2>1. FwType(f) /\ f.fd = "none"
    BY <1>2 DEF FwType
  <2>2. [s EXCEPT !.fw.fd = "none"] = [s EXCEPT !.fw = f]
    BY <1>2 DEF NodeOK, FwType
  <2> HIDE DEF f
  <2> QED
    BY <2>1, <2>2, NodeFw
<1> HIDE DEF fw, new, disk2
<1>6. CASE o = Outcome(s, d, <<>>)
  BY <1>6, OutNothing, OutcomeIs
<1>7. CASE o = Outcome(new, disk2, <<Reply("begin", TRUE)>>)
  BY <1>3, <1>4, <1>7, ReplyIs, OutcomeIs
<1>8. CASE o = Fault([s EXCEPT !.fw.fd = "none"], d)
  BY <1>5, <1>8, FaultIs
<1>9. CASE o = Fault(s, d)
  BY <1>9, FaultIs
<1> QED
  BY <1>1, <1>6, <1>7, <1>8, <1>9

LEMMA NextTidType ==
    ASSUME NEW tid \in Tid
    PROVE  NextReadTid(tid) \in Tid
BY EscAssumption DEF Tid, NextReadTid

LEMMA ReadSent ==
    ASSUME NEW n \in Nodes, NEW given, NEW own,
           NEW s, NodeOK(s, given, own), NEW d, DiskOK(d, given),
           NEW o \in send_firmware_read(n, s, d)
    PROVE  OutcomeOK(n, o, given, own)
<1> DEFINE asked == [s EXCEPT !.fw.wait = ReadTimeout]
           f == [s.fw EXCEPT !.wait = ReadTimeout]
           g == [s.fw EXCEPT !.wait = ReadTimeout, !.tid = NextReadTid(@)]
           next == [asked EXCEPT !.fw.tid = NextReadTid(@)]
           m == [kind |-> "read", from |-> n, path |-> s.fw.path,
                 offset |-> s.fw.offset, tid |-> s.fw.tid]
<1>1. o = Outcome(s, d, <<>>) \/ o = Outcome(next, d, <<m>>) \/ o = Fault(asked, d)
  BY DEF send_firmware_read
<1>2. FwType(s.fw) /\ (s.fw.node # 0 => s.fw.fd # "closed") /\ ReadTimeout \in 0 .. ReadTimeout
  BY EscAssumption DEF NodeOK
<1>3. NextReadTid(s.fw.tid) \in Tid
  BY <1>2, NextTidType DEF FwType
<1>4. NodeOK(asked, given, own)
  <2>1. FwType(f) /\ (f.node # 0 => f.fd # "closed")
    BY <1>2 DEF FwType
  <2>2. asked = [s EXCEPT !.fw = f]
    BY <1>2 DEF NodeOK, FwType
  <2> HIDE DEF asked, f
  <2> QED
    BY <2>1, <2>2, NodeFw
<1>5. NodeOK(next, given, own)
  <2>1. FwType(g) /\ (g.node # 0 => g.fd # "closed")
    BY <1>2, <1>3 DEF FwType
  <2>2. next = [s EXCEPT !.fw = g]
    BY <1>2 DEF NodeOK, FwType
  <2> HIDE DEF next, g
  <2> QED
    BY <2>1, <2>2, NodeFw
<1>6. m \in Read /\ m.from = n /\ m.kind = "read"
  BY <1>2 DEF Read, FwType
<1> HIDE DEF asked, f, g, next, m
<1>7. OutOK(n, <<m>>)
  BY <1>6, OutOne DEF SentOK
<1> QED
  BY <1>1, <1>4, <1>5, <1>7, OutNothing, OutcomeIs, FaultIs

LEMMA ReadAnswered ==
    ASSUME NEW n, NEW given, NEW own,
           NEW s, NodeOK(s, given, own), NEW d, DiskOK(d, given),
           NEW m \in ReadAnswer, NEW o \in handle_file_read_response(s, d, m)
    PROVE  OutcomeOK(n, o, given, own)
<1> DEFINE ended == [s EXCEPT !.fw.node = 0]
           f == [s.fw EXCEPT !.node = 0]
           closed == [s EXCEPT !.fw.fd = IF @ = "open" THEN "closed" ELSE @, !.fw.node = 0]
           g == [s.fw EXCEPT !.fd = IF @ = "open" THEN "closed" ELSE @, !.node = 0]
           h == [s.fw EXCEPT !.offset = @ + 1, !.wait = 0]
           new == IF m.whole THEN Progress(s) ELSE closed
           disk2 == IF s.fw.fd = "open" THEN [d EXCEPT !.firmware = Append(@, m.chunk)] ELSE d
<1>1. \/ o = Outcome(s, d, <<>>)
      \/ o = Outcome(ended, d, <<>>)
      \/ o = Outcome(new, disk2, <<>>)
      \/ o = Fault(s, d)
  BY DEF handle_file_read_response
<1>2. FwType(s.fw) /\ (s.fw.node # 0 => s.fw.fd # "closed") /\ 0 \in 0 .. ReadTimeout
  BY EscAssumption DEF NodeOK
<1>3. NodeOK(ended, given, own)
  <2>1. FwType(f) /\ f.node = 0
    BY <1>2 DEF FwType
  <2>2. ended = [s EXCEPT !.fw = f]
    BY <1>2 DEF NodeOK, FwType
  <2> HIDE DEF ended, f
  <2> QED
    BY <2>1, <2>2, NodeFw
<1>4. NodeOK(closed, given, own)
  <2>1. FwType(g) /\ g.node = 0
    BY <1>2 DEF FwType
  <2>2. closed = [s EXCEPT !.fw = g]
    BY <1>2 DEF NodeOK, FwType
  <2> HIDE DEF closed, g
  <2> QED
    BY <2>1, <2>2, NodeFw
<1>5. NodeOK(Progress(s), given, own)
  <2>1. h.node = s.fw.node /\ h.fd = s.fw.fd
    BY <1>2 DEF FwType
  <2>2. s.fw.offset + 1 \in Nat
    BY <1>2 DEF FwType
  <2>3. FwType(h)
    BY <1>2, <2>2 DEF FwType
  <2>4. Progress(s) = [s EXCEPT !.fw = h]
    BY <1>2 DEF NodeOK, FwType, Progress
  <2> HIDE DEF h
  <2> QED
    BY <1>2, <2>1, <2>3, <2>4, NodeFw
<1>6. NodeOK(new, given, own)
  <2> HIDE DEF closed
  <2> QED
    BY <1>4, <1>5
<1>7. DiskOK(disk2, given)
  <2>1. m.chunk \in ChunkType /\ d.firmware \in Seq(ChunkType)
    BY DEF ReadAnswer, DiskOK
  <2>2. Append(d.firmware, m.chunk) \in Seq(ChunkType)
    BY <2>1
  <2> QED
    BY <2>2 DEF DiskOK
<1> HIDE DEF ended, f, closed, g, h, new, disk2
<1> QED
  BY <1>1, <1>3, <1>6, <1>7, OutNothing, OutcomeIs, FaultIs

LEMMA TransferHandled ==
    ASSUME scenario \in Scenarios, NEW n \in Nodes,
           NEW given, Assigned(scenario.commands) \subseteq given, NEW own,
           NEW table, \A e \in table : e.uid = scenario.uid[n] => e.id \in own,
           NEW s, NodeOK(s, given, own), NEW d, DiskOK(d, given),
           NEW m, Received(m, table, scenario.commands),
           NEW o \in onTransferReceived(n, s, d, m)
    PROVE  OutcomeOK(n, o, given, own)
<1>1. IsScenario(scenario)
  BY EscAssumption
<1>2. CASE m.kind \notin Handles(Program(n))
  BY <1>2, OutNothing, OutcomeIs DEF onTransferReceived
<1>3. CASE m.kind \in Handles(Program(n))
  <2>1. \/ m.kind \in DNA /\ m \notin scenario.commands
        \/ m.kind = "chunk" /\ m \in ReadAnswer
        \/ m.kind \in Commands /\ m \in scenario.commands
    BY <1>1 DEF Received, Request, Announcement, ReadAnswer, IsScenario, DNA
  <2>9. CommandOf(Program(n)) \in {"RawCommand", "ArrayCommand", "none"}
    BY <1>1 DEF IsScenario, CommandOf, Program, Programs
  <2>2. CASE m.kind \in DNA
    <3>1. o \in handle_DNA_Allocation(n, s, d, m)
      BY <1>3, <2>2, <2>9 DEF onTransferReceived, DNA
    <3> QED
      BY <2>2, <3>1, AllocationHandled
  <2>3. CASE m.kind = "chunk" /\ m \in ReadAnswer
    <3>1. o \in handle_file_read_response(s, d, m)
      BY <1>3, <2>3, <2>9 DEF onTransferReceived, DNA
    <3> QED
      BY <2>3, <3>1, ReadAnswered
  <2>4. CASE m.kind = "getset" /\ m \in scenario.commands
    <3>1. o \in handle_param_GetSet(n, s, d, m)
      BY <1>3, <2>4, <2>9 DEF onTransferReceived, DNA
    <3> QED
      BY <2>4, <3>1, GetSetHandled
  <2>5. CASE m.kind \in {"opcode", "info"}
    <3>1. o \in handle_param_ExecuteOpcode(s, d) \cup handle_GetNodeInfo(s, d)
      BY <1>3, <2>5, <2>9 DEF onTransferReceived, DNA
    <3> QED
      BY <3>1, AnswersHandled
  <2>6. CASE m.kind = "restart"
    <3>1. o \in handle_RestartNode(s, d)
      BY <1>3, <2>6, <2>9 DEF onTransferReceived, DNA
    <3> QED
      BY <3>1, RestartHandled
  <2>7. CASE m.kind = "begin" /\ m \in scenario.commands
    <3>1. o \in handle_begin_firmware_update(s, d, m)
      BY <1>3, <2>7, <2>9 DEF onTransferReceived, DNA
    <3>2. m.path \in Path
      BY <1>1, <2>7 DEF IsScenario, Path
    <3> QED
      BY <3>1, <3>2, BeginHandled
  <2>8. CASE m.kind \in {"RawCommand", "ArrayCommand"}
    <3>1. scenario.program[n] \in Programs
      BY <1>1 DEF IsScenario
    <3>2. m.kind = CommandOf(Program(n))
      BY <1>3, <2>8, <3>1 DEF Handles, CommandOf, Program, Programs, DNA, EscHandles, ServoHandles,
         BatteryHandles, RangefinderHandles, EscCppHandles
    <3>3. o \in {Outcome(t, d, <<>>) : t \in Commanded(n, s, m)}
      BY <1>3, <2>8, <2>9, <3>2 DEF onTransferReceived, DNA
    <3>4. \E v : o = Outcome([s EXCEPT !.demand = v], d, <<>>)
      BY <3>3 DEF Commanded
    <3> QED
      BY <3>4, NodeDemand, OutNothing, OutcomeIs
  <2> QED
    BY <2>1, <2>2, <2>3, <2>4, <2>5, <2>6, <2>7, <2>8 DEF Commands
<1> QED
  BY <1>2, <1>3

-----------------------------------------------------------------------------
(* The main loop *)

LEMMA StatusSent ==
    ASSUME NEW n, NEW given, NEW own,
           NEW s, NodeOK(s, given, own), NEW d, DiskOK(d, given),
           NEW o \in process1HzTasks(s, d)
    PROVE  OutcomeOK(n, o, given, own)
<1> DEFINE m == [kind |-> "status", updating |-> s.fw.node # 0,
                 progress |-> IF s.fw.node # 0 THEN s.fw.offset ELSE 0]
           new == [s EXCEPT !.late.status = @ - 1, !.updating = s.fw.node # 0]
<1>1. CASE s.late.status = 0
  BY <1>1, OutNothing, OutcomeIs DEF process1HzTasks
<1>2. CASE s.late.status # 0
  <2>1. o = Outcome(new, d, <<m>>)
    BY <1>2 DEF process1HzTasks
  <2>2. SentOK(n, m)
    BY DEF SentOK
  <2>3. s.late \in [status : Nat, telemetry : Nat] /\ (s.fw.node # 0) \in BOOLEAN
    BY DEF NodeOK
  <2>4. s.late.status - 1 \in Nat
    BY <1>2, <2>3
  <2>5. NodeOK(new, given, own)
    BY <2>3, <2>4 DEF NodeOK
  <2> HIDE DEF m, new
  <2> QED
    BY <2>1, <2>2, <2>5, OutOne, OutcomeIs
<1> QED
  BY <1>1, <1>2

(* Neither requests nor reads. *)
Plain(out) == (\E S : out \in Seq(S)) /\ \A i \in DOMAIN out : out[i].kind \notin {"request ID", "read"}

LEMMA PlainIsOut ==
    ASSUME NEW n, NEW out, Plain(out)
    PROVE  OutOK(n, out)
BY DEF Plain, OutOK, SentOK

LEMMA ReportsSent ==
    ASSUME NEW program \in Programs, NEW demand, NEW settings
    PROVE  Plain(Telemetry(program, demand, settings))
<1>1. \A from, value : Report(from, value).kind \notin {"request ID", "read"}
  BY DEF Report
<1>2. \A from, value : Plain(<<Report(from, value)>>)
  <2> TAKE from, value
  <2> DEFINE m == Report(from, value)
  <2>1. m.kind \notin {"request ID", "read"}
    BY <1>1
  <2> HIDE DEF m
  <2>2. <<m>> \in Seq({m}) /\ DOMAIN <<m>> = {1} /\ <<m>>[1] = m
    OBVIOUS
  <2>3. Plain(<<m>>)
    BY <2>1, <2>2 DEF Plain
  <2> QED
    BY <2>3 DEF m
<1>5. \A S : \A k \in Nat : \A g \in [1 .. k -> S] : g \in Seq(S)
  OBVIOUS
<1>0. \A f : DOMAIN f = 1 .. 4 /\ f = [i \in 1 .. 4 |-> f[i]]
                /\ (\A i \in 1 .. 4 : f[i].kind \notin {"request ID", "read"}) => Plain(f)
  <2> TAKE f
  <2> HAVE DOMAIN f = 1 .. 4 /\ f = [i \in 1 .. 4 |-> f[i]]
           /\ \A i \in 1 .. 4 : f[i].kind \notin {"request ID", "read"}
  <2>2. f \in [1 .. 4 -> {f[i] : i \in 1 .. 4}]
    OBVIOUS
  <2>3. 4 \in Nat
    OBVIOUS
  <2>4. f \in Seq({f[i] : i \in 1 .. 4})
    BY <1>5, <2>2, <2>3
  <2> QED
    BY <2>4 DEF Plain
<1>3. Plain(send_ServoStatus(demand))
  <2> DEFINE f == send_ServoStatus(demand)
  <2>1. f = [i \in 1 .. 4 |-> Report(i - 1, DemandOf(demand, i))]
    BY DEF send_ServoStatus, NumMotors
  <2> HIDE DEF f
  <2>2. DOMAIN f = 1 .. 4 /\ f = [i \in 1 .. 4 |-> f[i]]
        /\ \A i \in 1 .. 4 : f[i].kind \notin {"request ID", "read"}
    BY <1>1, <2>1
  <2>3. Plain(f)
    BY <1>0, <2>2
  <2> QED
    BY <2>3 DEF f
<1>4. Plain(send_ESCStatus_cpp(demand))
  <2> DEFINE f == send_ESCStatus_cpp(demand)
  <2>1. f = [i \in 1 .. 4 |-> Report(0, DemandOf(demand, i))]
    BY DEF send_ESCStatus_cpp, NumMotors
  <2> HIDE DEF f
  <2>2. DOMAIN f = 1 .. 4 /\ f = [i \in 1 .. 4 |-> f[i]]
        /\ \A i \in 1 .. 4 : f[i].kind \notin {"request ID", "read"}
    BY <1>1, <2>1
  <2>3. Plain(f)
    BY <1>0, <2>2
  <2> QED
    BY <2>3 DEF f
<1> QED
  BY <1>2, <1>3, <1>4 DEF Telemetry, Programs, send_ESCStatus, send_BatteryInfo, send_RangeFinder

LEMMA TelemetrySent ==
    ASSUME scenario \in Scenarios, NEW n \in Nodes, NEW given, NEW own,
           NEW s, NodeOK(s, given, own), NEW d, DiskOK(d, given),
           NEW o \in sendTelemetry(n, s, d)
    PROVE  OutcomeOK(n, o, given, own)
<1> DEFINE new == [s EXCEPT !.late.telemetry = StillLate(Program(n), @)]
           out == Telemetry(Program(n), s.demand, s.settings)
<1>1. CASE s.late.telemetry = 0 \/ Silent(Program(n), s.settings)
  BY <1>1, OutNothing, OutcomeIs DEF sendTelemetry
<1>2. CASE ~(s.late.telemetry = 0 \/ Silent(Program(n), s.settings))
  <2>1. o = Outcome(new, d, out)
    BY <1>2 DEF sendTelemetry
  <2>2. Program(n) \in Programs
    BY EscAssumption DEF IsScenario, Program
  <2>3. OutOK(n, out)
    BY <2>2, ReportsSent, PlainIsOut
  <2>4. s.late \in [status : Nat, telemetry : Nat]
    BY DEF NodeOK
  <2>5. StillLate(Program(n), s.late.telemetry) \in Nat
    BY <1>2, <2>4 DEF StillLate
  <2>6. NodeOK(new, given, own)
    BY <2>4, <2>5 DEF NodeOK
  <2> HIDE DEF out, new
  <2> QED
    BY <2>1, <2>3, <2>6, OutcomeIs
<1> QED
  BY <1>1, <1>2

LEMMA OutcomeChanged ==
    ASSUME NEW n, NEW given, NEW own, NEW x, OutcomeOK(n, x, given, own),
           NEW out, OutOK(n, out), NEW faults \in Nat
    PROVE  OutcomeOK(n, [x EXCEPT !.out = out, !.faults = faults], given, own)
<1> DEFINE y == [x EXCEPT !.out = out, !.faults = faults]
<1>1. /\ y.s = x.s /\ y.d = x.d /\ y.out = out
      /\ y \in [s : {x.s}, d : {x.d}, out : {out}, faults : Nat]
  BY DEF OutcomeOK
<1> HIDE DEF y
<1>2. OutcomeOK(n, y, given, own)
  BY <1>1 DEF OutcomeOK
<1> QED
  BY <1>2 DEF y

(* Two handlers one after the other. *)
LEMMA Joined ==
    ASSUME NEW n, NEW given, NEW own, NEW o, OutcomeOK(n, o, given, own),
           NEW x, OutcomeOK(n, x, given, own)
    PROVE  OutcomeOK(n, [x EXCEPT !.out = o.out \o x.out, !.faults = o.faults + x.faults], given, own)
<1>1. OutOK(n, o.out \o x.out)
  BY OutConcat DEF OutcomeOK
<1>2. o.faults \in Nat /\ x.faults \in Nat
  BY DEF OutcomeOK
<1>3. o.faults + x.faults \in Nat
  BY <1>2
<1> QED
  BY <1>1, <1>3, OutcomeChanged

LEMMA TasksDone ==
    ASSUME scenario \in Scenarios, NEW n \in Nodes, NEW given, NEW own,
           NEW s, NodeOK(s, given, own), NEW d, DiskOK(d, given),
           NEW o \in Tasks(n, s, d)
    PROVE  OutcomeOK(n, o, given, own)
<1> DEFINE first == Then(process1HzTasks(s, d), LAMBDA t, e : sendTelemetry(n, t, e))
           both == Then(first, LAMBDA t, e : readWhenUpdating(n, t, e))
<1>1. CASE ~s.up
  BY <1>1, OutNothing, OutcomeIs DEF Tasks
<1>2. CASE s.up /\ s.id = 0
  <2>1. CASE s.wait = 0
    BY <1>2, <2>1, RequestSent DEF Tasks
  <2>2. CASE s.wait # 0
    BY <1>2, <2>2, OutNothing, OutcomeIs DEF Tasks
  <2> QED
    BY <2>1, <2>2
<1>3. CASE s.up /\ s.id # 0
  <2>1. ASSUME NEW p \in first
        PROVE  OutcomeOK(n, p, given, own)
    <3>1. PICK q \in process1HzTasks(s, d) : \E x \in sendTelemetry(n, q.s, q.d) :
             p = [x EXCEPT !.out = q.out \o x.out, !.faults = q.faults + x.faults]
      BY <2>1 DEF Then
    <3>2. PICK x \in sendTelemetry(n, q.s, q.d) :
             p = [x EXCEPT !.out = q.out \o x.out, !.faults = q.faults + x.faults]
      BY <3>1
    <3>3. OutcomeOK(n, q, given, own)
      BY <3>1, StatusSent
    <3>4. OutcomeOK(n, x, given, own)
      BY <3>2, <3>3, TelemetrySent DEF OutcomeOK
    <3> QED
      BY <3>2, <3>3, <3>4, Joined
  <2>2. PICK p \in first : \E x \in readWhenUpdating(n, p.s, p.d) :
           o = [x EXCEPT !.out = p.out \o x.out, !.faults = p.faults + x.faults]
    <3>1. o \in both
      BY <1>3 DEF Tasks
    <3> HIDE DEF first
    <3> QED
      BY <3>1 DEF Then
  <2>3. PICK x \in readWhenUpdating(n, p.s, p.d) :
           o = [x EXCEPT !.out = p.out \o x.out, !.faults = p.faults + x.faults]
    BY <2>2
  <2>4. OutcomeOK(n, p, given, own)
    BY <2>1, <2>2
  <2>5. OutcomeOK(n, x, given, own)
    <3>1. CASE p.s.fw.node # 0
      BY <2>3, <2>4, <3>1, ReadSent DEF OutcomeOK, readWhenUpdating
    <3>2. CASE p.s.fw.node = 0
      <4>1. x = Outcome(p.s, p.d, <<>>)
        BY <2>3, <3>2 DEF readWhenUpdating
      <4>2. NodeOK(p.s, given, own) /\ DiskOK(p.d, given)
        BY <2>4 DEF OutcomeOK
      <4> QED
        BY <4>1, <4>2, OutNothing, OutcomeIs
    <3> QED
      BY <3>1, <3>2
  <2> QED
    BY <2>3, <2>4, <2>5, Joined
<1> QED
  BY <1>1, <1>2, <1>3

(* A turn of the loop: what is received, and then the tasks. *)
LEMMA TurnDone ==
    ASSUME scenario \in Scenarios, NEW n \in Nodes, NEW given, NEW own,
           NEW received, \A o \in received : OutcomeOK(n, o, given, own),
           NEW o \in Then(received, LAMBDA t, e : Tasks(n, t, e))
    PROVE  OutcomeOK(n, o, given, own)
<1>1. PICK q \in received : \E x \in Tasks(n, q.s, q.d) :
         o = [x EXCEPT !.out = q.out \o x.out, !.faults = q.faults + x.faults]
  BY DEF Then
<1>2. PICK x \in Tasks(n, q.s, q.d) :
         o = [x EXCEPT !.out = q.out \o x.out, !.faults = q.faults + x.faults]
  BY <1>1
<1>3. OutcomeOK(n, q, given, own)
  BY <1>1
<1>4. NodeOK(q.s, given, own) /\ DiskOK(q.d, given)
  BY <1>3 DEF OutcomeOK
<1>5. OutcomeOK(n, x, given, own)
  BY <1>2, <1>4, TasksDone
<1> QED
  BY <1>2, <1>3, <1>5, Joined

-----------------------------------------------------------------------------
(* The steps *)

LEMMA NodeWider ==
    ASSUME NEW given, NEW own, NEW wider, own \subseteq wider, NEW s, NodeOK(s, given, own)
    PROVE  NodeOK(s, given, wider)
BY DEF NodeOK

(* Nobody forgets an ID that was given. *)
LEMMA Kept ==
    ASSUME EscInv, scenario' = scenario, allocator.table \subseteq allocator'.table,
           AllocatorOK', server' \in Seq(Read),
           DOMAIN node' = Nodes, DOMAIN disk' = Nodes, DOMAIN txq' = Nodes, DOMAIN inbox' = Nodes,
           \A k \in Nodes :
              /\ NodeOK(node'[k], Given(k), Owned(k))
              /\ DiskOK(disk'[k], Given(k))
              /\ OutOK(k, txq'[k])
              /\ InOK(inbox'[k], allocator'.table, scenario.commands)
    PROVE  EscInv'
<1>1. \A k \in Nodes : Owned(k) \subseteq Owned(k)' /\ Given(k)' = Given(k)
  BY DEF Owned, Given
<1>2. \A k \in Nodes : NodeOK(node'[k], Given(k)', Owned(k)')
  BY <1>1, NodeWider
<1>3. scenario' \in Scenarios
  BY DEF EscInv
<1>4. \A k \in Nodes : DiskOK(disk'[k], Given(k)')
  BY <1>1
<1> QED
  BY <1>2, <1>3, <1>4 DEF EscInv

LEMMA PassStep ==
    ASSUME EscInv, NEW n \in Nodes, Pass(n)
    PROVE  EscInv'
<1> DEFINE table == allocator.table
           commands == scenario.commands
           given == Given(n)
           own == Owned(n)
           received == IF inbox[n] = <<>> THEN {Outcome(node[n], disk[n], <<>>)}
                       ELSE onTransferReceived(n, node[n], disk[n], Head(inbox[n]))
<1>1. /\ scenario \in Scenarios
      /\ NodeOK(node[n], given, own) /\ DiskOK(disk[n], given)
      /\ OutOK(n, txq[n]) /\ InOK(inbox[n], table, commands)
  BY DEF EscInv
<1>2. /\ \A e \in table : e.uid = scenario.uid[n] => e.id \in own
      /\ Assigned(scenario.commands) \subseteq given
  BY DEF Owned, Given
<1>3. UNCHANGED <<scenario, allocator, server>>
  BY DEF Pass
<1>4. PICK o \in Then(received, LAMBDA t, e : Tasks(n, t, e)) :
         /\ node' = [node EXCEPT ![n] = o.s]
         /\ disk' = [disk EXCEPT ![n] = o.d]
         /\ txq' = [txq EXCEPT ![n] = IF o.s.up THEN @ \o o.out ELSE <<>>]
         /\ inbox' = [inbox EXCEPT ![n] = IF @ = <<>> \/ ~o.s.up THEN <<>> ELSE Tail(@)]
  BY DEF Pass
<1>5. \A x \in received : OutcomeOK(n, x, given, own)
  <2>1. CASE inbox[n] = <<>>
    <3>1. OutcomeOK(n, Outcome(node[n], disk[n], <<>>), given, own)
      BY <1>1, OutNothing, OutcomeIs
    <3> QED
      BY <2>1, <3>1
  <2>2. CASE inbox[n] # <<>>
    <3>1. Received(Head(inbox[n]), table, commands)
      BY <1>1, <2>2, InTail
    <3>2. \A x \in onTransferReceived(n, node[n], disk[n], Head(inbox[n])) :
             OutcomeOK(n, x, given, own)
      <4> HIDE DEF own, given, table
      <4> QED
        BY <1>1, <1>2, <3>1, TransferHandled
    <3> QED
      BY <2>2, <3>2
  <2> QED
    BY <2>1, <2>2
<1>6. OutcomeOK(n, o, given, own)
  <2> HIDE DEF own, given, received
  <2> QED
    BY <1>1, <1>4, <1>5, TurnDone
<1>7. NodeOK(o.s, given, own) /\ DiskOK(o.d, given) /\ OutOK(n, o.out)
  BY <1>6 DEF OutcomeOK
<1>8. OutOK(n, IF o.s.up THEN txq[n] \o o.out ELSE <<>>)
  BY <1>1, <1>7, OutConcat, OutNothing
<1>9. InOK(IF inbox[n] = <<>> \/ ~o.s.up THEN <<>> ELSE Tail(inbox[n]), table, commands)
  BY <1>1, InTail, InNothing
<1>10. \A k \in Nodes :
          /\ node'[k] = IF k = n THEN o.s ELSE node[k]
          /\ disk'[k] = IF k = n THEN o.d ELSE disk[k]
          /\ txq'[k] = IF k = n THEN IF o.s.up THEN txq[n] \o o.out ELSE <<>> ELSE txq[k]
          /\ inbox'[k] = IF k = n THEN IF inbox[n] = <<>> \/ ~o.s.up THEN <<>> ELSE Tail(inbox[n])
                         ELSE inbox[k]
  BY <1>4 DEF EscInv
<1> HIDE DEF received, own, given, table, commands
<1>11. \A k \in Nodes :
          /\ NodeOK(node'[k], Given(k), Owned(k))
          /\ DiskOK(disk'[k], Given(k))
          /\ OutOK(k, txq'[k])
          /\ InOK(inbox'[k], allocator'.table, scenario.commands)
  BY <1>3, <1>7, <1>8, <1>9, <1>10 DEF EscInv, own, given, table, commands
<1>12. /\ DOMAIN node' = Nodes /\ DOMAIN disk' = Nodes /\ DOMAIN txq' = Nodes
       /\ DOMAIN inbox' = Nodes
  BY <1>4 DEF EscInv
<1>13. AllocatorOK' /\ server' \in Seq(Read) /\ scenario' = scenario
       /\ allocator.table \subseteq allocator'.table
  BY <1>3 DEF EscInv, AllocatorOK
<1> QED
  BY <1>11, <1>12, <1>13, Kept

LEMMA TransmitStep ==
    ASSUME EscInv, NEW n \in Nodes, Transmit(n)
    PROVE  EscInv'
<1> DEFINE m == Head(txq[n])
<1>1. /\ txq[n] # <<>> /\ txq' = [txq EXCEPT ![n] = Tail(@)]
      /\ UNCHANGED <<scenario, node, disk>>
      /\ Sent(n, m) \/ UNCHANGED <<inbox, allocator, server>>
  BY DEF Transmit
<1>2. OutOK(n, Tail(txq[n])) /\ SentOK(n, m)
  BY <1>1, OutTail DEF EscInv
<1> HIDE DEF m
<1>3. \A k \in Nodes : OutOK(k, txq'[k])
  BY <1>1, <1>2 DEF EscInv
<1>4. AllocatorOK' /\ allocator'.table = allocator.table
  <2>1. CASE m.kind = "request ID" /\ Sent(n, m)
    <3>1. m \in Request /\ allocator.requests \in Seq(Request)
      BY <1>2, <2>1 DEF SentOK, EscInv, AllocatorOK
    <3>2. Append(allocator.requests, m) \in Seq(Request)
      BY <3>1
    <3>3. allocator' = [allocator EXCEPT !.requests = Append(@, m)]
      BY <2>1 DEF Sent
    <3> QED
      BY <3>2, <3>3 DEF EscInv, AllocatorOK
  <2>2. CASE allocator' = allocator
    BY <2>2 DEF EscInv, AllocatorOK
  <2> QED
    BY <1>1, <2>1, <2>2 DEF Sent
<1>5. server' \in Seq(Read)
  <2>1. CASE m.kind = "read" /\ Sent(n, m)
    <3>1. m \in Read /\ server \in Seq(Read)
      BY <1>2, <2>1 DEF SentOK, EscInv
    <3>2. server' = Append(server, m)
      BY <2>1 DEF Sent
    <3> QED
      BY <3>1, <3>2
  <2>2. CASE server' = server
    BY <2>2 DEF EscInv
  <2> QED
    BY <1>1, <2>1, <2>2 DEF Sent
<1>6. DOMAIN inbox' = Nodes
  BY <1>1 DEF Sent, EscInv
<1>7. \A k \in Nodes : InOK(inbox'[k], allocator.table, scenario.commands)
  <2> TAKE k \in Nodes
  <2>1. InOK(inbox[k], allocator.table, scenario.commands)
    BY DEF EscInv
  <2>2. CASE inbox'[k] = inbox[k]
    BY <2>1, <2>2
  <2>3. CASE m.kind = "request ID" /\ inbox'[k] = Append(inbox[k], m)
    <3>1. Received(m, allocator.table, scenario.commands)
      BY <1>2, <2>3 DEF SentOK, Received
    <3> QED
      BY <2>1, <2>3, <3>1, InAppend
  <2> QED
    BY <1>1, <2>2, <2>3 DEF Sent
<1> QED
  BY <1>1, <1>3, <1>4, <1>5, <1>6, <1>7, Kept DEF EscInv

LEMMA StartedOK ==
    ASSUME NEW given, NEW own, given \subseteq own, NEW d, DiskOK(d, given)
    PROVE  NodeOK(Started(d), given, own)
<1>1. DOMAIN d.settings = AllParameters /\ d.settings["CAN_NODE"] \in own
  BY DEF DiskOK, SettingsOK
<1>2. <<>> \in Path /\ 0 \in Tid /\ 0 \in 0 .. ReadTimeout /\ 0 \in 0 .. 2 /\ 0 \in 0 .. 127
      /\ 0 \in 0 .. MinRequestPeriod + MinRequestPeriod
  BY EscAssumption DEF Path, Tid
<1>3. FwType(Fresh(d).fw) /\ Fresh(d).fw.node = 0
  BY <1>2 DEF FwType, Fresh
<1>4. NodeOK(Fresh(d), given, own)
  <2>1. SettingsOK(Fresh(d).settings, given)
    BY DEF Fresh, DiskOK
  <2>2. Fresh(d).id = 0
    BY DEF Fresh
  <2>3. Fresh(d) \in [up : BOOLEAN, id : 0 .. 127, settings : {Fresh(d).settings},
              wait : 0 .. MinRequestPeriod + MinRequestPeriod, offset : 0 .. 2, fw : {Fresh(d).fw},
              late : [status : Nat, telemetry : Nat], updating : BOOLEAN, demand : {Fresh(d).demand}]
    BY <1>2 DEF Fresh
  <2> QED
    BY <1>3, <2>1, <2>2, <2>3 DEF NodeOK
<1> QED
  BY <1>1, <1>4, NodeId DEF Started

LEMMA GivenIsOwned ==
    ASSUME NEW n
    PROVE  Given(n) \subseteq Owned(n)
BY DEF Owned

LEMMA BootStep ==
    ASSUME EscInv, NEW n \in Nodes, Boot(n)
    PROVE  EscInv'
<1>1. /\ node' = [node EXCEPT ![n] = Started(disk[n])]
      /\ UNCHANGED <<scenario, disk, txq, inbox, allocator, server>>
  BY DEF Boot
<1>2. NodeOK(Started(disk[n]), Given(n), Owned(n))
  BY GivenIsOwned, StartedOK DEF EscInv
<1>3. \A k \in Nodes : NodeOK(node'[k], Given(k), Owned(k))
  BY <1>1, <1>2 DEF EscInv
<1> QED
  BY <1>1, <1>3, Kept DEF EscInv, AllocatorOK

LEMMA CrashStep ==
    ASSUME EscInv, NEW n \in Nodes, Crash(n)
    PROVE  EscInv'
<1>1. /\ node' = [node EXCEPT ![n].up = FALSE]
      /\ txq' = [txq EXCEPT ![n] = <<>>] /\ inbox' = [inbox EXCEPT ![n] = <<>>]
      /\ UNCHANGED <<scenario, disk, allocator, server>>
  BY DEF Crash
<1>2. NodeOK([node[n] EXCEPT !.up = FALSE], Given(n), Owned(n))
  BY NodeUp DEF EscInv
<1>3. \A k \in Nodes : NodeOK(node'[k], Given(k), Owned(k))
  BY <1>1, <1>2 DEF EscInv
<1>4. \A k \in Nodes :
         OutOK(k, txq'[k]) /\ InOK(inbox'[k], allocator.table, scenario.commands)
  BY <1>1, OutNothing, InNothing DEF EscInv
<1> QED
  BY <1>1, <1>3, <1>4, Kept DEF EscInv, AllocatorOK

LEMMA LoseStep ==
    ASSUME EscInv, NEW n \in Nodes, Lose(n)
    PROVE  EscInv'
<1>1. /\ inbox[n] # <<>> /\ inbox' = [inbox EXCEPT ![n] = Tail(@)]
      /\ UNCHANGED <<scenario, node, disk, txq, allocator, server>>
  BY DEF Lose
<1>2. \A k \in Nodes : InOK(inbox'[k], allocator.table, scenario.commands)
  BY <1>1, InTail DEF EscInv
<1> QED
  BY <1>1, <1>2, Kept DEF EscInv, AllocatorOK

LEMMA OperateStep ==
    ASSUME EscInv, NEW n \in Nodes, Operate(n)
    PROVE  EscInv'
<1>1. PICK m \in scenario.commands : inbox' = [inbox EXCEPT ![n] = Append(@, m)]
  BY DEF Operate
<1>2. UNCHANGED <<scenario, node, disk, txq, allocator, server>>
  BY DEF Operate
<1>3. Received(m, allocator.table, scenario.commands)
  BY DEF Received
<1>4. \A k \in Nodes : InOK(inbox'[k], allocator.table, scenario.commands)
  BY <1>1, <1>3, InAppend DEF EscInv
<1> QED
  BY <1>1, <1>2, <1>4, Kept DEF EscInv, AllocatorOK

LEMMA ServeStep ==
    ASSUME EscInv, Serve
    PROVE  EscInv'
<1> DEFINE m == Head(server)
           known == m.path \in DOMAIN scenario.images
           answer == [kind |-> "chunk", tid |-> m.tid, error |-> ~known,
                      whole |-> known /\ m.offset < scenario.images[m.path],
                      chunk |-> Chunk(m.path, m.offset)]
<1>1. /\ server # <<>> /\ server' = Tail(server)
      /\ inbox' = IF node[m.from].up THEN [inbox EXCEPT ![m.from] = Append(@, answer)] ELSE inbox
      /\ UNCHANGED <<scenario, node, disk, txq, allocator>>
  BY DEF Serve
<1>2. server \in Seq(Read)
  BY DEF EscInv
<1>3. Tail(server) \in Seq(Read) /\ m \in Read
  BY <1>1, <1>2
<1>4. answer \in ReadAnswer
  BY <1>3 DEF Read, ReadAnswer, ChunkType, Chunk
<1> HIDE DEF m, answer
<1>5. Received(answer, allocator.table, scenario.commands)
  BY <1>4 DEF Received
<1>6. DOMAIN inbox' = Nodes /\ \A k \in Nodes : InOK(inbox'[k], allocator.table, scenario.commands)
  BY <1>1, <1>5, InAppend DEF EscInv
<1> QED
  BY <1>1, <1>3, <1>6, Kept DEF EscInv, AllocatorOK

(* A set of node-IDs that is not empty has a greatest. *)
LEMMA MaxIsIn ==
    ASSUME NEW S, S \subseteq 1 .. 127, S # {}
    PROVE  Max(S) \in S
<1> DEFINE R == OpToRel(<, Nat)
           T == {127 - x : x \in S}
<1>1. IsWellFoundedOn(R, Nat)
  BY NatLessThanWellFounded
<1>2. T \subseteq Nat /\ T # {}
  <2>1. \A x \in S : 127 - x \in Nat
    OBVIOUS
  <2> QED
    BY <2>1
<1>3. \A x, y \in Nat : x < y => <<x, y>> \in R
  BY DEF OpToRel
<1> HIDE DEF R
<1>4. PICK least \in T : \A y \in T : ~(<<y, least>> \in R)
  <2> HIDE DEF T
  <2> QED
    BY <1>1, <1>2, WFMin
<1>5. PICK greatest \in S : least = 127 - greatest
  BY <1>4
<1>6. \A y \in S : greatest >= y
  <2> TAKE y \in S
  <2>0. y \in 0 .. 127 /\ greatest \in 0 .. 127
    OBVIOUS
  <2>1. 127 - y \in Nat /\ 127 - greatest \in Nat /\ 127 - y \in T
    BY <2>0
  <2>2. ~(127 - y < 127 - greatest)
    <3>1. ~(<<127 - y, least>> \in R)
      BY <1>4, <2>1
    <3> HIDE DEF T
    <3> QED
      BY <1>3, <1>5, <2>1, <3>1
  <2> HIDE DEF T
  <2> QED
    BY <2>2
<1> QED
  BY <1>6 DEF Max

LEMMA QueryType ==
    ASSUME AllocatorOK, NEW m \in Request
    PROVE  Query(m) \in Seq(Symbols) /\ Len(Query(m)) <= 3
<1>1. allocator.query \in Seq(Symbols) /\ m.part \in Symbols /\ Len(allocator.query) < 3
  BY DEF AllocatorOK, Request
<1>2. <<m.part>> \in Seq(Symbols) /\ Append(allocator.query, m.part) \in Seq(Symbols)
      /\ <<>> \in Seq(Symbols)
      /\ Len(<<m.part>>) = 1 /\ Len(Append(allocator.query, m.part)) = Len(allocator.query) + 1
      /\ Len(<<>>) = 0 /\ Len(allocator.query) \in Nat
  BY <1>1
<1> QED
  BY <1>1, <1>2 DEF Query

(* An announcement reaches the nodes that are up. *)
LEMMA Announced ==
    ASSUME EscInv, NEW uid \in Seq(Symbols), NEW id \in Nat, NEW table,
           allocator.table \subseteq table, Len(uid) >= 3 => [uid |-> uid, id |-> id] \in table,
           inbox' = ToAll([kind |-> "allocation", uid |-> uid, id |-> id])
    PROVE  /\ DOMAIN inbox' = Nodes
           /\ \A k \in Nodes : InOK(inbox'[k], table, scenario.commands)
<1> DEFINE m == [kind |-> "allocation", uid |-> uid, id |-> id]
<1>1. Received(m, table, scenario.commands)
  BY DEF Received, Announcement
<1> HIDE DEF m
<1>2. inbox' = [k \in Nodes |-> IF node[k].up THEN Append(inbox[k], m) ELSE inbox[k]]
  BY DEF ToAll, m
<1>3. \A k \in Nodes : InOK(inbox[k], table, scenario.commands)
  BY InGrows DEF EscInv
<1>4. ASSUME NEW k \in Nodes
      PROVE  InOK(inbox'[k], table, scenario.commands)
  <2>1. InOK(inbox[k], table, scenario.commands)
    BY <1>3
  <2>2. InOK(Append(inbox[k], m), table, scenario.commands)
    BY <1>1, <2>1, InAppend
  <2>3. inbox'[k] = inbox[k] \/ inbox'[k] = Append(inbox[k], m)
    BY <1>2
  <2> QED
    BY <2>1, <2>2, <2>3
<1> QED
  BY <1>2, <1>4

LEMMA AllocateStep ==
    ASSUME EscInv, Allocate
    PROVE  EscInv'
<1> DEFINE query == Query(Head(allocator.requests))
           rest == Tail(allocator.requests)
           known == {e \in allocator.table : e.uid = query}
<1>1. allocator.requests # <<>> /\ UNCHANGED <<scenario, node, disk, txq, server>>
  BY DEF Allocate
<1>2. /\ AllocatorOK /\ allocator.requests \in Seq(Request)
      /\ allocator.table \subseteq [uid : Seq(Symbols), id : DynamicIds]
  BY DEF EscInv, AllocatorOK
<1>3. Head(allocator.requests) \in Request /\ rest \in Seq(Request)
  BY <1>1, <1>2
<1>4. /\ query \in Seq(Symbols) /\ Len(query) \in Nat /\ Len(query) <= 3
      /\ <<>> \in Seq(Symbols) /\ Len(<<>>) < 3
  BY <1>2, <1>3, QueryType
<1> HIDE DEF query, rest, known
<1>8. IF query = <<>> \/ (Len(query) = 3 /\ known = {} /\ Unused = {})
      THEN allocator' = [allocator EXCEPT !.requests = rest] /\ UNCHANGED inbox
      ELSE IF Len(query) < 3
      THEN /\ inbox' = ToAll([kind |-> "allocation", uid |-> query, id |-> 0])
           /\ allocator' = [allocator EXCEPT !.requests = rest, !.query = query, !.age = 0]
      ELSE \E id \in IF known = {} THEN {Max(Unused)} ELSE {e.id : e \in known} :
           /\ inbox' = ToAll([kind |-> "allocation", uid |-> query, id |-> id])
           /\ allocator' = [allocator EXCEPT !.requests = rest, !.query = <<>>, !.age = 0,
                                             !.table = @ \cup {[uid |-> query, id |-> id]}]
  BY DEF Allocate, query, rest, known
<1>5. CASE allocator' = [allocator EXCEPT !.requests = rest] /\ UNCHANGED inbox
  <2>1. AllocatorOK' /\ allocator'.table = allocator.table
    BY <1>2, <1>3, <1>5 DEF AllocatorOK
  <2> QED
    BY <1>1, <1>5, <2>1, Kept DEF EscInv
<1>6. CASE /\ Len(query) < 3
           /\ inbox' = ToAll([kind |-> "allocation", uid |-> query, id |-> 0])
           /\ allocator' = [allocator EXCEPT !.requests = rest, !.query = query, !.age = 0]
  <2>1. AllocatorOK' /\ allocator'.table = allocator.table
    BY <1>2, <1>3, <1>4, <1>6 DEF AllocatorOK
  <2>2. DOMAIN inbox' = Nodes /\ \A k \in Nodes : InOK(inbox'[k], allocator.table, scenario.commands)
    <3> HIDE DEF query
    <3>1. Len(query) >= 3 => [uid |-> query, id |-> 0] \in allocator.table
      BY <1>4, <1>6
    <3>2. 0 \in Nat /\ allocator.table \subseteq allocator.table
      OBVIOUS
    <3> QED
      BY <1>4, <1>6, <3>1, <3>2, Announced
  <2> QED
    BY <1>1, <2>1, <2>2, Kept DEF EscInv
<1>7. CASE ~(query = <<>> \/ (Len(query) = 3 /\ known = {} /\ Unused = {})) /\ ~(Len(query) < 3)
  <2>0. PICK id \in IF known = {} THEN {Max(Unused)} ELSE {e.id : e \in known} :
           /\ inbox' = ToAll([kind |-> "allocation", uid |-> query, id |-> id])
           /\ allocator' = [allocator EXCEPT !.requests = rest, !.query = <<>>, !.age = 0,
                                             !.table = @ \cup {[uid |-> query, id |-> id]}]
    BY <1>7, <1>8
  <2>9. known = {} => Unused # {}
    <3>1. Len(query) = 3
      <4>1. \A x \in Nat : x <= 3 /\ ~(x < 3) => x = 3
        OBVIOUS
      <4>2. Len(query) \in Nat /\ Len(query) <= 3 /\ ~(Len(query) < 3)
        BY <1>4, <1>7
      <4> QED
        BY <4>1, <4>2
    <3> QED
      BY <1>7, <3>1
  <2> DEFINE entry == [uid |-> query, id |-> id]
             table == allocator.table \cup {entry}
  <2>1. \/ id \in Unused /\ known = {}
        \/ entry \in allocator.table
    <3>1. CASE known = {}
      <4>1. Unused \subseteq 1 .. 127
        BY EscAssumption DEF Unused
      <4>2. Max(Unused) \in Unused
        BY <2>9, <3>1, <4>1, MaxIsIn
      <4> QED
        BY <2>0, <3>1, <4>2
    <3>2. CASE known # {}
      <4>1. PICK e \in known : id = e.id
        BY <2>0, <3>2
      <4>2. e \in [uid : Seq(Symbols), id : DynamicIds] /\ e.uid = query /\ e \in allocator.table
        BY <1>2, <4>1 DEF known
      <4>3. e = entry
        BY <4>1, <4>2
      <4> QED
        BY <4>2, <4>3
    <3> QED
      BY <3>1, <3>2
  <2>2. id \in DynamicIds
    BY <1>2, <2>1 DEF Unused
  <2>3. id \in Nat
    BY <2>2, EscAssumption
  <2>4. table \in SUBSET [uid : Seq(Symbols), id : DynamicIds]
    BY <1>2, <1>4, <2>2
  <2>5. \A e, f \in table : e.uid = f.uid \/ e.id = f.id => e = f
    <3>1. \A e, f \in allocator.table : e.uid = f.uid \/ e.id = f.id => e = f
      BY <1>2 DEF AllocatorOK
    <3>2. CASE id \in Unused /\ known = {}
      <4>1. \A e \in allocator.table : e.uid # entry.uid /\ e.id # entry.id
        BY <3>2 DEF Unused, known
      <4> QED
        BY <3>1, <4>1
    <3>3. CASE entry \in allocator.table
      BY <3>1, <3>3
    <3> QED
      BY <2>1, <3>2, <3>3
  <2>6. AllocatorOK' /\ allocator'.table = table
    <3> HIDE DEF table
    <3>1. allocator' = [allocator EXCEPT !.requests = rest, !.query = <<>>, !.age = 0,
                                            !.table = table]
      BY <2>0 DEF table
    <3> QED
      BY <1>2, <1>3, <1>4, <2>4, <2>5, <3>1 DEF AllocatorOK
  <2>7. DOMAIN inbox' = Nodes /\ \A k \in Nodes : InOK(inbox'[k], table, scenario.commands)
    <3>1. allocator.table \subseteq table /\ entry \in table
      OBVIOUS
    <3> HIDE DEF table
    <3> QED
      BY <1>4, <2>0, <2>3, <3>1, Announced
  <2>8. allocator.table \subseteq allocator'.table
    BY <2>6
  <2> HIDE DEF table
  <2> QED
    BY <1>1, <2>6, <2>7, <2>8, Kept DEF EscInv
<1>9. CASE query = <<>> \/ (Len(query) = 3 /\ known = {} /\ Unused = {})
  BY <1>5, <1>8, <1>9
<1>10. CASE ~(query = <<>> \/ (Len(query) = 3 /\ known = {} /\ Unused = {})) /\ Len(query) < 3
  BY <1>6, <1>8, <1>10
<1> QED
  BY <1>7, <1>9, <1>10

LEMMA DownType ==
    ASSUME NEW limit \in Nat, NEW k \in 0 .. limit
    PROVE  Down(k) \in 0 .. limit
BY DEF Down, Max2

LEMMA TickStep ==
    ASSUME EscInv, Tick
    PROVE  EscInv'
<1>1. /\ node' = [n \in Nodes |-> [node[n] EXCEPT !.wait = IF node[n].id = 0 THEN Down(@) ELSE 0,
                                                  !.fw.wait = Down(@)]]
      /\ allocator' \in {allocator, [allocator EXCEPT !.query = <<>>, !.age = 0],
                         [allocator EXCEPT !.age = @ + 1]}
      /\ UNCHANGED <<scenario, disk, txq, inbox, server>>
  BY DEF Tick
<1>2. \A k \in Nodes : NodeOK(node'[k], Given(k), Owned(k))
  <2> TAKE k \in Nodes
  <2> DEFINE s == node[k]
             w == IF s.id = 0 THEN Down(s.wait) ELSE 0
             f == [s.fw EXCEPT !.wait = Down(@)]
  <2>1. NodeOK(s, Given(k), Owned(k))
    BY DEF EscInv
  <2>2. w \in 0 .. MinRequestPeriod + MinRequestPeriod
    <3>1. s.wait \in 0 .. MinRequestPeriod + MinRequestPeriod /\ MinRequestPeriod + MinRequestPeriod \in Nat
      BY <2>1, EscAssumption DEF NodeOK
    <3> QED
      BY <3>1, DownType
  <2>3. FwType(s.fw) /\ (s.fw.node # 0 => s.fw.fd # "closed")
    BY <2>1 DEF NodeOK
  <2>4. Down(s.fw.wait) \in 0 .. ReadTimeout
    BY <2>3, EscAssumption, DownType DEF FwType
  <2>5. FwType(f) /\ (f.node # 0 => f.fd # "closed")
    BY <2>3, <2>4 DEF FwType
  <2> DEFINE t == [s EXCEPT !.wait = w]
  <2>6. node'[k] = [t EXCEPT !.fw = f]
    BY <1>1, <2>1 DEF NodeOK
  <2> HIDE DEF w, f, s
  <2>7. NodeOK(t, Given(k), Owned(k))
    BY <2>1, <2>2, NodeWait
  <2> HIDE DEF t
  <2>8. NodeOK([t EXCEPT !.fw = f], Given(k), Owned(k))
    BY <2>5, <2>7, NodeFw
  <2> QED
    BY <2>6, <2>8
<1>3. AllocatorOK' /\ allocator'.table = allocator.table
  <2>1. AllocatorOK /\ <<>> \in Seq(Symbols) /\ Len(<<>>) < 3
    BY DEF EscInv
  <2> QED
    BY <1>1, <2>1 DEF AllocatorOK
<1>4. DOMAIN node' = Nodes
  BY <1>1
<1> QED
  BY <1>1, <1>2, <1>3, <1>4, Kept DEF EscInv

LEMMA SecondStep ==
    ASSUME EscInv, Second
    PROVE  EscInv'
<1>1. /\ node' = [n \in Nodes |-> [node[n] EXCEPT !.late.status = @ + 1, !.late.telemetry = @ + 1]]
      /\ UNCHANGED <<scenario, disk, txq, inbox, allocator, server>>
  BY DEF Second
<1>2. \A k \in Nodes : NodeOK(node'[k], Given(k), Owned(k))
  <2> TAKE k \in Nodes
  <2>1. NodeOK(node[k], Given(k), Owned(k))
    BY DEF EscInv
  <2> DEFINE s == node[k]
             late == [s.late EXCEPT !.status = @ + 1, !.telemetry = @ + 1]
  <2>2. s.late \in [status : Nat, telemetry : Nat]
    BY <2>1 DEF NodeOK
  <2>3. late \in [status : Nat, telemetry : Nat]
    <3>1. s.late.status + 1 \in Nat /\ s.late.telemetry + 1 \in Nat
      BY <2>2
    <3> HIDE DEF s
    <3> QED
      BY <2>2, <3>1
  <2>4. node'[k] = [s EXCEPT !.late = late]
    BY <1>1, <2>1, <2>2 DEF NodeOK
  <2>5. NodeOK(s, Given(k), Owned(k))
    BY <2>1
  <2> HIDE DEF late, s
  <2>6. NodeOK([s EXCEPT !.late = late], Given(k), Owned(k))
    BY <2>3, <2>5, NodeLate
  <2> QED
    BY <2>4, <2>6
<1> QED
  BY <1>1, <1>2, Kept DEF EscInv, AllocatorOK

LEMMA InitStep ==
    ASSUME EscInit
    PROVE  EscInv
<1>1. scenario \in Scenarios /\ IsScenario(scenario)
  BY EscAssumption DEF EscInit
<1>2. \A n \in Nodes : DiskOK(disk[n], Given(n))
  <2> TAKE n \in Nodes
  <2> DEFINE v == [p \in AllParameters |-> IF p = "CAN_NODE" THEN scenario.static[n] ELSE Default(p)]
  <2>1. disk[n] = [settings |-> v, firmware |-> <<>>]
    BY DEF EscInit
  <2>2. "CAN_NODE" \in AllParameters
    <3>1. "esc" \in Programs /\ "CAN_NODE" \in Parameters("esc")
      BY DEF Programs, Parameters, EscParameters
    <3> QED
      BY <3>1 DEF AllParameters
  <2>3. SettingsOK(v, Given(n))
    BY <2>2 DEF SettingsOK, Given
  <2>4. <<>> \in Seq(ChunkType)
    OBVIOUS
  <2> HIDE DEF v
  <2> QED
    BY <2>1, <2>3, <2>4 DEF DiskOK
<1>3. \A n \in Nodes : NodeOK(node[n], Given(n), Owned(n))
  <2> TAKE n \in Nodes
  <2>1. node[n] = Started(disk[n])
    BY DEF EscInit
  <2> QED
    BY <1>2, <2>1, GivenIsOwned, StartedOK
<1>4. AllocatorOK
  <2>1. <<>> \in Seq(Symbols) /\ <<>> \in Seq(Request)
    OBVIOUS
  <2> QED
    BY <2>1 DEF EscInit, AllocatorOK
<1>5. \A n \in Nodes : OutOK(n, txq[n]) /\ InOK(inbox[n], allocator.table, scenario.commands)
  BY OutNothing, InNothing DEF EscInit
<1>6. server \in Seq(Read)
  BY DEF EscInit
<1> QED
  BY <1>1, <1>2, <1>3, <1>4, <1>5, <1>6 DEF EscInv, EscInit

-----------------------------------------------------------------------------
(* The theorems *)

LEMMA NextStep ==
    ASSUME EscInv, [EscNext]_escVars
    PROVE  EscInv'
<1>1. CASE UNCHANGED escVars
  BY <1>1 DEF EscInv, escVars, AllocatorOK, Owned, Given
<1>2. CASE EscNext
  <2>1. ASSUME NEW n \in Nodes, Pass(n)
        PROVE  EscInv'
    BY <2>1, PassStep
  <2>2. ASSUME NEW n \in Nodes, Transmit(n)
        PROVE  EscInv'
    BY <2>2, TransmitStep
  <2>3. ASSUME NEW n \in Nodes, Boot(n)
        PROVE  EscInv'
    BY <2>3, BootStep
  <2>4. ASSUME NEW n \in Nodes, Crash(n)
        PROVE  EscInv'
    BY <2>4, CrashStep
  <2>5. ASSUME NEW n \in Nodes, Lose(n)
        PROVE  EscInv'
    BY <2>5, LoseStep
  <2>6. ASSUME Allocate
        PROVE  EscInv'
    BY <2>6, AllocateStep
  <2>7. ASSUME Serve
        PROVE  EscInv'
    BY <2>7, ServeStep
  <2>8. ASSUME NEW n \in Nodes, Operate(n)
        PROVE  EscInv'
    BY <2>8, OperateStep
  <2>9. ASSUME Tick
        PROVE  EscInv'
    BY <2>9, TickStep
  <2>10. ASSUME Second
         PROVE  EscInv'
    BY <2>10, SecondStep
  <2> QED
    BY <1>2, <2>1, <2>2, <2>3, <2>4, <2>5, <2>6, <2>7, <2>8, <2>9, <2>10 DEF EscNext
<1> QED
  BY <1>1, <1>2

(* Two nodes that are not alike own no ID together. *)
LEMMA OwnersDiffer ==
    ASSUME EscInv, Unlike(scenario), Assigned(scenario.commands) \subseteq {0}, NEW n \in Nodes, NEW k \in Nodes, n # k,
           NEW id \in Owned(n), id \in Owned(k)
    PROVE  id = 0
<1> DEFINE static == scenario.static
           table == allocator.table
<1>1. /\ static[n] \notin DynamicIds /\ static[k] \notin DynamicIds
      /\ \A e \in table : e.id \in DynamicIds
      /\ \A e, f \in table : e.id = f.id => e = f
  BY EscAssumption DEF EscInv, IsScenario, AllocatorOK
<1>2. scenario.uid[n] # scenario.uid[k] /\ (static[n] = static[k] => static[n] = 0)
  BY DEF Unlike
<1> QED
  BY <1>1, <1>2 DEF Owned, Given

(* EscTypeOK: the type invariant of the nodes; a node that is being updated has the file   *)
(* open or lost, but not closed (fwupdate in esc_node.c).                          *)
THEOREM EscTypeCorrect ==
    FairEscSpec => []EscTypeOK
<1>1. EscInit => EscInv
  BY InitStep
<1>2. EscInv /\ [EscNext]_escVars => EscInv'
  BY NextStep
<1>3. EscInv => EscTypeOK
  BY DEF EscInv, EscTypeOK, NodeOK, FwType, Tid
<1> QED
  BY <1>1, <1>2, <1>3, PTL DEF FairEscSpec

(* OneNodePerId: when the unique IDs differ, and the static IDs, too, whatever requests    *)
(* collide, get lost or are late and whoever dies, no two nodes have one ID: a node takes an *)
(* ID only from an answer to its whole unique ID (handle_DNA_Allocation, esc_node.c:400).   *)
THEOREM OneIdPerNode ==
    ASSUME \A s \in Scenarios : Unlike(s) /\ Assigned(s.commands) \subseteq {0}
    PROVE  FairEscSpec => []OneNodePerId
<1>1. EscInit => EscInv
  BY InitStep
<1>2. EscInv /\ [EscNext]_escVars => EscInv'
  BY NextStep
<1>3. EscInv => OneNodePerId
  <2> SUFFICES ASSUME EscInv, NEW n \in Nodes, NEW k \in Nodes, n # k, node[n].id = node[k].id,
                      node[n].id # 0
               PROVE  FALSE
    BY DEF OneNodePerId
  <2>1. node[n].id \in Owned(n) /\ node[n].id \in Owned(k)
    BY DEF EscInv, NodeOK
  <2>2. Unlike(scenario) /\ Assigned(scenario.commands) \subseteq {0}
    BY DEF EscInv
  <2> QED
    BY <2>1, <2>2, OwnersDiffer
<1> QED
  BY <1>1, <1>2, <1>3, PTL DEF FairEscSpec

-----------------------------------------------------------------------------
(* The file.  The reads of node n and the answers to them are on a way: from its TX   *)
(* queue to the server and back to its inbox, where the operator's orders wait, too.    *)
(* An item is the place, the position and the message; a lower place is further on.    *)

Items(n, in, srv, out) ==
    {<<1, i, in[i]>> : i \in {j \in DOMAIN in : in[j].kind \in {"chunk", "begin"}}}
    \cup {<<2, i, srv[i]>> : i \in {j \in DOMAIN srv : srv[j].from = n}}
    \cup {<<3, i, out[i]>> : i \in {j \in DOMAIN out : out[j].kind = "read"}}

Sooner(a, b) == a[1] < b[1] \/ (a[1] = b[1] /\ a[2] < b[2])
IsOrder(a) == a[3].kind = "begin"

(* How many reads were sent after the one with transfer-ID t; tid is the next one. *)
SinceThen(tid, t) == (tid + TidMod - 1 - t) % TidMod

(* What the file server answers to a read. *)
AnswerTo(images, path, offset, tid) ==
    [kind |-> "chunk", tid |-> tid, error |-> path \notin DOMAIN images,
     whole |-> path \in DOMAIN images /\ offset < images[path], chunk |-> Chunk(path, offset)]

(* A read, or the answer to it, for the chunk that comes next. *)
About(a, fw, images) ==
    IF a[1] = 1 THEN a[3] = AnswerTo(images, fw.path, fw.offset, a[3].tid)
    ELSE a[3].path = fw.path /\ a[3].offset = fw.offset

Chunks(path, k) == [i \in 1 .. k |-> Chunk(path, i - 1)]
Size(images, path) == IF path \in DOMAIN images THEN images[path] ELSE 0

(* An update is under way: the reads that are answered no more are those for the next chunk, *)
(* as many as there were delays at most, and the file is all that came before.       *)
Busy(fw, firmware, items, images, used) ==
    /\ fw.fd = "open" /\ fw.asked # <<>>
    /\ \A a, b \in items :
          ~IsOrder(a) /\ ~IsOrder(b) /\ Sooner(a, b) =>
              SinceThen(fw.tid, b[3].tid) < SinceThen(fw.tid, a[3].tid)
    /\ \A a \in items :
          ~IsOrder(a) =>
              /\ SinceThen(fw.tid, a[3].tid) + (IF fw.wait < ReadTimeout THEN 1 ELSE 0) <= used
              /\ About(a, fw, images)
    /\ fw.offset <= Size(images, fw.path)
    /\ firmware = Chunks(fw.path, fw.offset)
    /\ \A b \in items : IsOrder(b) => b[3].path = fw.asked

Stored(fw, firmware, images) ==
    IF fw.path \in DOMAIN images
    THEN \E k \in 0 .. images[fw.path] + 1 :
            firmware = Chunks(fw.path, k) /\ (fw.fd = "closed" => k = images[fw.path] + 1)
    ELSE firmware = <<>> /\ fw.fd # "closed"

(* No update is under way: what is left of the last life of the node comes before the order *)
(* for the next update.                                                         *)
Idle(fw, firmware, items, images) ==
    /\ \A a \in items : ~IsOrder(a) => a[1] # 3
    /\ \A a, b \in items : ~IsOrder(a) /\ IsOrder(b) => Sooner(a, b)
    /\ fw.asked # <<>> => (\A a \in items : IsOrder(a)) /\ Stored(fw, firmware, images)

UpdateOK(fw, firmware, items, images, used) ==
    /\ fw.node # 0 => Busy(fw, firmware, items, images, used)
    /\ fw.node = 0 => Idle(fw, firmware, items, images)
    /\ fw.asked # <<>> => IsPrefix(fw.asked, fw.path)
    /\ \A b, c \in items : IsOrder(b) /\ IsOrder(c) => b[3].path = c[3].path

ItemsType(items) ==
    \A a \in items :
        /\ a[1] \in 1 .. 3 /\ a[2] \in Nat
        /\ IF IsOrder(a) THEN a[3].path \in Path /\ a[3].path # <<>> ELSE a[3].tid \in Tid

-----------------------------------------------------------------------------
(* Transfer-IDs *)

LEMMA FunctionIsQueue ==
    ASSUME NEW D, NEW k \in Nat, NEW g \in [1 .. k -> D]
    PROVE  g \in Seq(D) /\ Len(g) = k
OBVIOUS

LEMMA Wraps ==
    ASSUME NEW M \in Nat \ {0}, NEW x \in 0 .. M + M - 1
    PROVE  x % M = IF x < M THEN x ELSE x - M
<1>1. x % M \in 0 .. M - 1 /\ x = M * (x \div M) + (x % M) /\ (x \div M) \in Int
  OBVIOUS
<1> DEFINE q == x \div M
           r == x % M
<1>2. q \in Int /\ r \in 0 .. M - 1 /\ x = M * q + r
  BY <1>1
<1> HIDE DEF q, r
<1>3. q >= 0
  <2> SUFFICES ASSUME q <= -1
               PROVE  FALSE
    BY <1>2
  <2>1. M * q <= M * (-1)
    BY <1>2
  <2> QED
    BY <1>2, <2>1
<1>4. q < 2
  <2> SUFFICES ASSUME q >= 2
               PROVE  FALSE
    BY <1>2
  <2>1. M * q >= M * 2
    BY <1>2
  <2> QED
    BY <1>2, <2>1
<1>5. CASE q = 0
  <2>1. x = r
    BY <1>2, <1>5
  <2> QED
    BY <1>2, <2>1 DEF r
<1>6. CASE q = 1
  <2>1. x = M + r
    BY <1>2, <1>6
  <2> QED
    BY <1>2, <2>1 DEF r
<1> QED
  BY <1>2, <1>3, <1>4, <1>5, <1>6

LEMMA SinceIs ==
    ASSUME NEW tid \in Tid, NEW t \in Tid
    PROVE  /\ SinceThen(tid, t) = IF tid - 1 >= t THEN tid - 1 - t ELSE tid - 1 - t + TidMod
           /\ SinceThen(tid, t) \in 0 .. TidMod - 1
<1>1. TidMod \in Nat \ {0}
  BY EscAssumption
<1>2. tid + TidMod - 1 - t \in 0 .. TidMod + TidMod - 1
  BY <1>1 DEF Tid
<1> DEFINE x == tid + TidMod - 1 - t
<1> HIDE DEF x
<1>3. x % TidMod = IF x < TidMod THEN x ELSE x - TidMod
  BY <1>1, <1>2, Wraps DEF x
<1>4. SinceThen(tid, t) = x % TidMod
  BY DEF SinceThen, x
<1>5. SinceThen(tid, t) = IF x < TidMod THEN x ELSE x - TidMod
  BY <1>3, <1>4
<1> QED
  BY <1>1, <1>5 DEF x, Tid

LEMMA NextTidIs ==
    ASSUME NEW tid \in Tid
    PROVE  NextReadTid(tid) = (IF tid + 1 < TidMod THEN tid + 1 ELSE 0) /\ NextReadTid(tid) \in Tid
<1>1. TidMod \in Nat \ {0}
  BY EscAssumption
<1>2. tid + 1 \in 0 .. TidMod + TidMod - 1
  BY <1>1 DEF Tid
<1> DEFINE x == tid + 1
<1> HIDE DEF x
<1>3. x % TidMod = IF x < TidMod THEN x ELSE x - TidMod
  BY <1>1, <1>2, Wraps DEF x
<1>4. NextReadTid(tid) = x % TidMod
  BY DEF NextReadTid, x
<1>5. NextReadTid(tid) = IF x < TidMod THEN x ELSE x - TidMod
  BY <1>3, <1>4
<1> QED
  BY <1>1, <1>5 DEF x, Tid

LEMMA SinceNext ==
    ASSUME NEW tid \in Tid, NEW t \in Tid, SinceThen(tid, t) + 1 < TidMod
    PROVE  SinceThen(NextReadTid(tid), t) = SinceThen(tid, t) + 1
<1>1. TidMod \in Nat \ {0}
  BY EscAssumption
<1> DEFINE next == NextReadTid(tid)
<1>2. next = (IF tid + 1 < TidMod THEN tid + 1 ELSE 0) /\ next \in Tid
  BY NextTidIs
<1> HIDE DEF next
<1>3. SinceThen(next, t) = IF next - 1 >= t THEN next - 1 - t ELSE next - 1 - t + TidMod
  BY <1>2, SinceIs
<1>4. SinceThen(tid, t) = IF tid - 1 >= t THEN tid - 1 - t ELSE tid - 1 - t + TidMod
  BY SinceIs
<1>5. SinceThen(next, t) = SinceThen(tid, t) + 1
  BY <1>1, <1>2, <1>3, <1>4 DEF Tid
<1> QED
  BY <1>5 DEF next

LEMMA SinceLast ==
    ASSUME NEW tid \in Tid
    PROVE  SinceThen(NextReadTid(tid), tid) = 0
<1>1. TidMod \in Nat \ {0}
  BY EscAssumption
<1> DEFINE next == NextReadTid(tid)
<1>2. next = (IF tid + 1 < TidMod THEN tid + 1 ELSE 0) /\ next \in Tid
  BY NextTidIs
<1> HIDE DEF next
<1>3. SinceThen(next, tid) = IF next - 1 >= tid THEN next - 1 - tid ELSE next - 1 - tid + TidMod
  BY <1>2, SinceIs
<1>4. SinceThen(next, tid) = 0
  BY <1>1, <1>2, <1>3 DEF Tid
<1> QED
  BY <1>4 DEF next

-----------------------------------------------------------------------------
(* Messages go on *)

(* The items of Q are some of those of P, one step further on. *)
Moves(f, Q, P, images) ==
    /\ f \in [Q -> P]
    /\ \A a \in Q :
          /\ IsOrder(a) => f[a][3] = a[3]
          /\ ~IsOrder(a) => /\ ~IsOrder(f[a]) /\ f[a][3].tid = a[3].tid
                            /\ (a[1] = 3 => f[a][1] = 3)
                            /\ (\A fw : About(f[a], fw, images) => About(a, fw, images))
    /\ \A a, b \in Q : Sooner(a, b) <=> Sooner(f[a], f[b])

LEMMA MovesKeep ==
    ASSUME NEW f, NEW P, NEW Q, NEW images, Moves(f, Q, P, images),
           NEW fw, NEW firmware, NEW used \in Nat, NEW more \in Nat, used <= more,
           UpdateOK(fw, firmware, P, images, used),
           fw.tid \in Tid, ItemsType(P)
    PROVE  UpdateOK(fw, firmware, Q, images, more)
<1>1. \A a \in Q : f[a] \in P /\ (IsOrder(f[a]) <=> IsOrder(a))
  BY DEF Moves, IsOrder
<1>2. \A a \in Q : IsOrder(a) => f[a][3] = a[3]
  BY DEF Moves
<1>3. \A a \in Q : ~IsOrder(a) => /\ f[a][3].tid = a[3].tid /\ (a[1] = 3 => f[a][1] = 3)
                                  /\ (About(f[a], fw, images) => About(a, fw, images))
  BY DEF Moves
<1>4. \A a, b \in Q : Sooner(a, b) <=> Sooner(f[a], f[b])
  BY DEF Moves
<1>5. ASSUME Busy(fw, firmware, P, images, used)
      PROVE  Busy(fw, firmware, Q, images, more)
  <2>1. \A a, b \in Q :
          ~IsOrder(a) /\ ~IsOrder(b) /\ Sooner(a, b) =>
              SinceThen(fw.tid, b[3].tid) < SinceThen(fw.tid, a[3].tid)
    <3> TAKE a \in Q, b \in Q
    <3> HAVE ~IsOrder(a) /\ ~IsOrder(b) /\ Sooner(a, b)
    <3>1. SinceThen(fw.tid, f[b][3].tid) < SinceThen(fw.tid, f[a][3].tid)
      BY <1>1, <1>4, <1>5 DEF Busy
    <3> QED
      BY <1>3, <3>1
  <2>2. ASSUME NEW a \in Q, ~IsOrder(a)
        PROVE  /\ SinceThen(fw.tid, a[3].tid) + (IF fw.wait < ReadTimeout THEN 1 ELSE 0) <= more
               /\ About(a, fw, images)
    <3>1. /\ SinceThen(fw.tid, f[a][3].tid) + (IF fw.wait < ReadTimeout THEN 1 ELSE 0) <= used
          /\ About(f[a], fw, images)
      BY <1>1, <1>5, <2>2 DEF Busy
    <3>2. f[a][3].tid \in Tid /\ f[a][3].tid = a[3].tid
      BY <1>1, <1>3, <2>2 DEF ItemsType
    <3>3. SinceThen(fw.tid, f[a][3].tid) \in 0 .. TidMod - 1
      BY <3>2, SinceIs
    <3>4. \A x \in 0 .. TidMod - 1 : \A w \in {0, 1} : x + w <= used => x + w <= more
      BY EscAssumption
    <3>5. SinceThen(fw.tid, a[3].tid) + (IF fw.wait < ReadTimeout THEN 1 ELSE 0) <= more
      BY <3>1, <3>2, <3>3, <3>4
    <3> QED
      BY <1>3, <2>2, <3>1, <3>5
  <2>3. \A b \in Q : IsOrder(b) => b[3].path = fw.asked
    BY <1>1, <1>2, <1>5 DEF Busy
  <2> QED
    BY <1>5, <2>1, <2>2, <2>3 DEF Busy
<1>6. ASSUME Idle(fw, firmware, P, images)
      PROVE  Idle(fw, firmware, Q, images)
  BY <1>1, <1>3, <1>4, <1>6 DEF Idle
<1>7. \A b, c \in Q : IsOrder(b) /\ IsOrder(c) => b[3].path = c[3].path
  BY <1>1, <1>2 DEF UpdateOK
<1> QED
  BY <1>5, <1>6, <1>7 DEF UpdateOK

LEMMA Fewer ==
    ASSUME NEW P, NEW Q, Q \subseteq P, NEW images
    PROVE  \E f : Moves(f, Q, P, images)
<1> DEFINE f == [a \in Q |-> a]
<1>1. Moves(f, Q, P, images)
  BY DEF Moves
<1> QED
  BY <1>1

LEMMA ItemIs ==
    ASSUME NEW n, NEW in, NEW srv, NEW out
    PROVE  /\ \A a \in Items(n, in, srv, out) :
                 \/ \E i \in DOMAIN in : in[i].kind \in {"chunk", "begin"} /\ a = <<1, i, in[i]>>
                 \/ \E i \in DOMAIN srv : srv[i].from = n /\ a = <<2, i, srv[i]>>
                 \/ \E i \in DOMAIN out : out[i].kind = "read" /\ a = <<3, i, out[i]>>
           /\ \A i \in DOMAIN in :
                 in[i].kind \in {"chunk", "begin"} => <<1, i, in[i]>> \in Items(n, in, srv, out)
           /\ \A i \in DOMAIN srv : srv[i].from = n => <<2, i, srv[i]>> \in Items(n, in, srv, out)
           /\ \A i \in DOMAIN out : out[i].kind = "read" => <<3, i, out[i]>> \in Items(n, in, srv, out)
BY DEF Items

(* A message is taken from the inbox. *)
LEMMA InboxMoves ==
    ASSUME NEW n, NEW S, NEW in \in Seq(S), in # <<>>, NEW T, NEW srv \in Seq(T), NEW U, NEW out \in Seq(U), NEW images
    PROVE  \E f : /\ Moves(f, Items(n, Tail(in), srv, out), Items(n, in, srv, out), images)
                  /\ \A a \in Items(n, Tail(in), srv, out) : Sooner(<<1, 1, Head(in)>>, f[a])
<1> DEFINE P == Items(n, in, srv, out)
           Q == Items(n, Tail(in), srv, out)
           f == [a \in Q |-> IF a[1] = 1 THEN <<1, a[2] + 1, a[3]>> ELSE a]
<1>1. /\ DOMAIN Tail(in) \subseteq Nat \ {0} /\ DOMAIN srv \subseteq Nat \ {0} /\ DOMAIN out \subseteq Nat \ {0}
      /\ \A i \in DOMAIN Tail(in) : i + 1 \in DOMAIN in /\ Tail(in)[i] = in[i + 1]
  BY QueueTail
<1>2. \A a \in Q :
         \/ \E i \in DOMAIN Tail(in) : in[i + 1].kind \in {"chunk", "begin"} /\ a = <<1, i, in[i + 1]>>
         \/ \E i \in DOMAIN srv : srv[i].from = n /\ a = <<2, i, srv[i]>>
         \/ \E i \in DOMAIN out : out[i].kind = "read" /\ a = <<3, i, out[i]>>
  BY <1>1 DEF Items
<1>3. /\ \A i \in DOMAIN in : in[i].kind \in {"chunk", "begin"} => <<1, i, in[i]>> \in P
      /\ \A i \in DOMAIN srv : srv[i].from = n => <<2, i, srv[i]>> \in P
      /\ \A i \in DOMAIN out : out[i].kind = "read" => <<3, i, out[i]>> \in P
  BY ItemIs
<1> HIDE DEF P, Q
<1>4. \A a \in Q : f[a] \in P
  <2> TAKE a \in Q
  <2>1. CASE \E i \in DOMAIN Tail(in) : in[i + 1].kind \in {"chunk", "begin"} /\ a = <<1, i, in[i + 1]>>
    BY <1>1, <1>3, <2>1
  <2>2. CASE \E i \in DOMAIN srv : srv[i].from = n /\ a = <<2, i, srv[i]>>
    BY <1>3, <2>2
  <2>3. CASE \E i \in DOMAIN out : out[i].kind = "read" /\ a = <<3, i, out[i]>>
    BY <1>3, <2>3
  <2> QED
    BY <1>2, <2>1, <2>2, <2>3
<1>5. \A a \in Q : /\ f[a][1] = a[1] /\ f[a][3] = a[3] /\ a[2] \in Nat \ {0} /\ a[1] \in 1 .. 3
                   /\ f[a][2] = IF a[1] = 1 THEN a[2] + 1 ELSE a[2]
  BY <1>1, <1>2
<1>6. f \in [Q -> P]
  BY <1>4
<1> HIDE DEF f
<1>7. \A a, b \in Q : Sooner(a, b) <=> Sooner(f[a], f[b])
  <2> TAKE a \in Q, b \in Q
  <2>1. /\ f[a][1] = a[1] /\ a[2] \in Nat /\ f[a][2] = IF a[1] = 1 THEN a[2] + 1 ELSE a[2]
        /\ f[b][1] = b[1] /\ b[2] \in Nat /\ f[b][2] = IF b[1] = 1 THEN b[2] + 1 ELSE b[2]
        /\ a[1] \in 1 .. 3 /\ b[1] \in 1 .. 3
    BY <1>5
  <2> QED
    BY <2>1 DEF Sooner
<1>8. \A a \in Q : \A fw : About(f[a], fw, images) => About(a, fw, images)
  BY <1>5 DEF About
<1>9. Moves(f, Q, P, images)
  BY <1>5, <1>6, <1>7, <1>8 DEF Moves, IsOrder
<1>10. \A a \in Q : Sooner(<<1, 1, Head(in)>>, f[a])
  BY <1>5 DEF Sooner
<1> QED
  BY <1>9, <1>10 DEF P, Q

(* A transfer leaves the TX queue and gets lost. *)
LEMMA QueueMoves ==
    ASSUME NEW n, NEW S, NEW in \in Seq(S), NEW T, NEW srv \in Seq(T), NEW U, NEW out \in Seq(U), out # <<>>, NEW images
    PROVE  \E f : Moves(f, Items(n, in, srv, Tail(out)), Items(n, in, srv, out), images)
<1> DEFINE P == Items(n, in, srv, out)
           Q == Items(n, in, srv, Tail(out))
           f == [a \in Q |-> IF a[1] = 3 THEN <<3, a[2] + 1, a[3]>> ELSE a]
<1>1. /\ DOMAIN in \subseteq Nat \ {0} /\ DOMAIN srv \subseteq Nat \ {0} /\ DOMAIN Tail(out) \subseteq Nat \ {0}
      /\ \A i \in DOMAIN Tail(out) : i + 1 \in DOMAIN out /\ Tail(out)[i] = out[i + 1]
  BY QueueTail
<1>2. \A a \in Q :
         \/ \E i \in DOMAIN in : in[i].kind \in {"chunk", "begin"} /\ a = <<1, i, in[i]>>
         \/ \E i \in DOMAIN srv : srv[i].from = n /\ a = <<2, i, srv[i]>>
         \/ \E i \in DOMAIN Tail(out) : out[i + 1].kind = "read" /\ a = <<3, i, out[i + 1]>>
  BY <1>1 DEF Items
<1>3. /\ \A i \in DOMAIN in : in[i].kind \in {"chunk", "begin"} => <<1, i, in[i]>> \in P
      /\ \A i \in DOMAIN srv : srv[i].from = n => <<2, i, srv[i]>> \in P
      /\ \A i \in DOMAIN out : out[i].kind = "read" => <<3, i, out[i]>> \in P
  BY ItemIs
<1> HIDE DEF P, Q
<1>4. \A a \in Q : f[a] \in P
  <2> TAKE a \in Q
  <2>1. CASE \E i \in DOMAIN in : in[i].kind \in {"chunk", "begin"} /\ a = <<1, i, in[i]>>
    BY <1>3, <2>1
  <2>2. CASE \E i \in DOMAIN srv : srv[i].from = n /\ a = <<2, i, srv[i]>>
    BY <1>3, <2>2
  <2>3. CASE \E i \in DOMAIN Tail(out) : out[i + 1].kind = "read" /\ a = <<3, i, out[i + 1]>>
    BY <1>1, <1>3, <2>3
  <2> QED
    BY <1>2, <2>1, <2>2, <2>3
<1>5. \A a \in Q : /\ f[a][1] = a[1] /\ f[a][3] = a[3] /\ a[2] \in Nat \ {0} /\ a[1] \in 1 .. 3
                   /\ f[a][2] = IF a[1] = 3 THEN a[2] + 1 ELSE a[2]
  BY <1>1, <1>2
<1>6. f \in [Q -> P]
  BY <1>4
<1> HIDE DEF f
<1>7. \A a, b \in Q : Sooner(a, b) <=> Sooner(f[a], f[b])
  <2> TAKE a \in Q, b \in Q
  <2>1. /\ f[a][1] = a[1] /\ a[2] \in Nat /\ f[a][2] = IF a[1] = 3 THEN a[2] + 1 ELSE a[2]
        /\ f[b][1] = b[1] /\ b[2] \in Nat /\ f[b][2] = IF b[1] = 3 THEN b[2] + 1 ELSE b[2]
        /\ a[1] \in 1 .. 3 /\ b[1] \in 1 .. 3
    BY <1>5
  <2> QED
    BY <2>1 DEF Sooner
<1>8. \A a \in Q : \A fw : About(f[a], fw, images) => About(a, fw, images)
  BY <1>5 DEF About
<1>9. Moves(f, Q, P, images)
  BY <1>5, <1>6, <1>7, <1>8 DEF Moves, IsOrder
<1> QED
  BY <1>9 DEF P, Q

(* A read leaves the TX queue and gets to the server. *)
LEMMA ReadMoves ==
    ASSUME NEW n, NEW S, NEW in \in Seq(S), NEW srv \in Seq(Read), NEW U, NEW out \in Seq(U), out # <<>>,
           Head(out) \in Read, NEW images
    PROVE  \E f : Moves(f, Items(n, in, Append(srv, Head(out)), Tail(out)), Items(n, in, srv, out), images)
<1> DEFINE P == Items(n, in, srv, out)
           Q == Items(n, in, Append(srv, Head(out)), Tail(out))
           L == Len(srv)
           f == [a \in Q |-> IF a[1] = 3 THEN <<3, a[2] + 1, a[3]>>
                             ELSE IF a[1] = 2 /\ a[2] = L + 1 THEN <<3, 1, a[3]>> ELSE a]
<1>1. /\ DOMAIN in \subseteq Nat \ {0} /\ DOMAIN Tail(out) \subseteq Nat \ {0}
      /\ \A i \in DOMAIN Tail(out) : i + 1 \in DOMAIN out /\ Tail(out)[i] = out[i + 1]
      /\ 1 \in DOMAIN out /\ Head(out) = out[1]
  BY QueueTail
<1>0. out[1] \in Read /\ out[1].kind = "read"
  BY <1>1 DEF Read
<1>2. /\ L \in Nat /\ DOMAIN srv = 1 .. L /\ DOMAIN Append(srv, out[1]) = 1 .. L + 1
      /\ \A i \in 1 .. L : Append(srv, out[1])[i] = srv[i] /\ srv[i].kind # "begin"
      /\ Append(srv, out[1])[L + 1] = out[1]
  <2>1. \A h \in Read : /\ Len(srv) \in Nat /\ DOMAIN srv = 1 .. Len(srv)
                        /\ DOMAIN Append(srv, h) = 1 .. Len(srv) + 1
                        /\ \A x \in 1 .. Len(srv) : Append(srv, h)[x] = srv[x] /\ srv[x] \in Read
                        /\ Append(srv, h)[Len(srv) + 1] = h
    OBVIOUS
  <2>2. \A x \in Read : x.kind # "begin"
    BY DEF Read
  <2> QED
    BY <1>0, <2>1, <2>2
<1>3. \A a \in Q :
         \/ \E i \in DOMAIN in : in[i].kind \in {"chunk", "begin"} /\ a = <<1, i, in[i]>>
         \/ \E i \in 1 .. L : srv[i].from = n /\ a = <<2, i, srv[i]>>
         \/ a = <<2, L + 1, out[1]>>
         \/ \E i \in DOMAIN Tail(out) : out[i + 1].kind = "read" /\ a = <<3, i, out[i + 1]>>
  <2> HIDE DEF L
  <2>1. \A i \in 1 .. L + 1 : i \in 1 .. L \/ i = L + 1
    BY <1>2
  <2> QED
    BY <1>0, <1>1, <1>2, <2>1 DEF Items
<1>4. /\ \A i \in DOMAIN in : in[i].kind \in {"chunk", "begin"} => <<1, i, in[i]>> \in P
      /\ \A i \in DOMAIN srv : srv[i].from = n => <<2, i, srv[i]>> \in P
      /\ \A i \in DOMAIN out : out[i].kind = "read" => <<3, i, out[i]>> \in P
  BY ItemIs
<1> HIDE DEF P, Q, L
<1>5. \A a \in Q : /\ f[a] \in P /\ f[a][3] = a[3]
                   /\ \/ a[1] = 1 /\ a[2] \in Nat /\ f[a][1] = 1 /\ f[a][2] = a[2]
                      \/ a[1] = 2 /\ a[2] \in 1 .. L /\ f[a][1] = 2 /\ f[a][2] = a[2]
                      \/ a[1] = 2 /\ a[2] = L + 1 /\ f[a][1] = 3 /\ f[a][2] = 1 /\ a[3] = out[1]
                      \/ a[1] = 3 /\ a[2] \in Nat \ {0} /\ f[a][1] = 3 /\ f[a][2] = a[2] + 1
  <2> TAKE a \in Q
  <2>1. CASE \E i \in DOMAIN in : in[i].kind \in {"chunk", "begin"} /\ a = <<1, i, in[i]>>
    BY <1>1, <1>4, <2>1
  <2>2. CASE \E i \in 1 .. L : srv[i].from = n /\ a = <<2, i, srv[i]>>
    <3>1. PICK i \in 1 .. L : srv[i].from = n /\ a = <<2, i, srv[i]>>
      BY <2>2
    <3>2. <<2, i, srv[i]>> \in P /\ i # L + 1
      BY <1>2, <1>4, <3>1
    <3> QED
      BY <3>1, <3>2
  <2>3. CASE a = <<2, L + 1, out[1]>>
    BY <1>0, <1>1, <1>2, <1>4, <2>3
  <2>4. CASE \E i \in DOMAIN Tail(out) : out[i + 1].kind = "read" /\ a = <<3, i, out[i + 1]>>
    BY <1>1, <1>4, <2>4
  <2> QED
    BY <1>3, <2>1, <2>2, <2>3, <2>4
<1>6. f \in [Q -> P]
  BY <1>5
<1> HIDE DEF f
<1>7. \A a, b \in Q : Sooner(a, b) <=> Sooner(f[a], f[b])
  <2> TAKE a \in Q, b \in Q
  <2> DEFINE Placed(c, d) == \/ c[1] = 1 /\ c[2] \in Nat /\ d[1] = 1 /\ d[2] = c[2]
                             \/ c[1] = 2 /\ c[2] \in 1 .. L /\ d[1] = 2 /\ d[2] = c[2]
                             \/ c[1] = 2 /\ c[2] = L + 1 /\ d[1] = 3 /\ d[2] = 1
                             \/ c[1] = 3 /\ c[2] \in Nat \ {0} /\ d[1] = 3 /\ d[2] = c[2] + 1
  <2>0. Placed(a, f[a]) /\ Placed(b, f[b]) /\ L \in Nat
    BY <1>2, <1>5
  <2>1. CASE a[1] = 1 /\ a[2] \in Nat /\ f[a][1] = 1 /\ f[a][2] = a[2]
    BY <2>0, <2>1 DEF Sooner
  <2>2. CASE a[1] = 2 /\ a[2] \in 1 .. L /\ f[a][1] = 2 /\ f[a][2] = a[2]
    BY <2>0, <2>2 DEF Sooner
  <2>3. CASE a[1] = 2 /\ a[2] = L + 1 /\ f[a][1] = 3 /\ f[a][2] = 1
    <3>1. CASE b[1] = 1 /\ b[2] \in Nat /\ f[b][1] = 1 /\ f[b][2] = b[2]
      BY <2>0, <2>3, <3>1 DEF Sooner
    <3>2. CASE b[1] = 2 /\ b[2] \in 1 .. L /\ f[b][1] = 2 /\ f[b][2] = b[2]
      BY <2>0, <2>3, <3>2 DEF Sooner
    <3>3. CASE b[1] = 2 /\ b[2] = L + 1 /\ f[b][1] = 3 /\ f[b][2] = 1
      BY <2>0, <2>3, <3>3 DEF Sooner
    <3>4. CASE b[1] = 3 /\ b[2] \in Nat \ {0} /\ f[b][1] = 3 /\ f[b][2] = b[2] + 1
      BY <2>0, <2>3, <3>4 DEF Sooner
    <3> QED
      BY <2>0, <3>1, <3>2, <3>3, <3>4
  <2>4. CASE a[1] = 3 /\ a[2] \in Nat \ {0} /\ f[a][1] = 3 /\ f[a][2] = a[2] + 1
    <3>1. CASE b[1] = 1 /\ b[2] \in Nat /\ f[b][1] = 1 /\ f[b][2] = b[2]
      BY <2>0, <2>4, <3>1 DEF Sooner
    <3>2. CASE b[1] = 2 /\ b[2] \in 1 .. L /\ f[b][1] = 2 /\ f[b][2] = b[2]
      BY <2>0, <2>4, <3>2 DEF Sooner
    <3>3. CASE b[1] = 2 /\ b[2] = L + 1 /\ f[b][1] = 3 /\ f[b][2] = 1
      BY <2>0, <2>4, <3>3 DEF Sooner
    <3>4. CASE b[1] = 3 /\ b[2] \in Nat \ {0} /\ f[b][1] = 3 /\ f[b][2] = b[2] + 1
      BY <2>0, <2>4, <3>4 DEF Sooner
    <3> QED
      BY <2>0, <3>1, <3>2, <3>3, <3>4
  <2> QED
    BY <2>0, <2>1, <2>2, <2>3, <2>4
<1>8. \A a \in Q : \A fw : About(f[a], fw, images) => About(a, fw, images)
  BY <1>5 DEF About
<1>9. \A a \in Q : a[1] = 3 => f[a][1] = 3
  BY <1>5
<1>10. Moves(f, Q, P, images)
  BY <1>5, <1>6, <1>7, <1>8, <1>9 DEF Moves, IsOrder
<1> QED
  BY <1>1, <1>10 DEF P, Q

(* The server takes a read of another node, or one of this node and answers it. *)
LEMMA ServerMoves ==
    ASSUME NEW n, NEW S, NEW in \in Seq(S), NEW srv \in Seq(Read), srv # <<>>, NEW U, NEW out \in Seq(U),
           NEW images, Head(srv).from # n
    PROVE  \E f : Moves(f, Items(n, in, Tail(srv), out), Items(n, in, srv, out), images)
<1> DEFINE P == Items(n, in, srv, out)
           Q == Items(n, in, Tail(srv), out)
           f == [a \in Q |-> IF a[1] = 2 THEN <<2, a[2] + 1, a[3]>> ELSE a]
<1>1. /\ DOMAIN in \subseteq Nat \ {0} /\ DOMAIN Tail(srv) \subseteq Nat \ {0} /\ DOMAIN out \subseteq Nat \ {0}
      /\ \A i \in DOMAIN Tail(srv) : i + 1 \in DOMAIN srv /\ Tail(srv)[i] = srv[i + 1]
  BY QueueTail
<1>2. \A a \in Q :
         \/ \E i \in DOMAIN in : in[i].kind \in {"chunk", "begin"} /\ a = <<1, i, in[i]>>
         \/ \E i \in DOMAIN Tail(srv) : srv[i + 1].from = n /\ a = <<2, i, srv[i + 1]>>
         \/ \E i \in DOMAIN out : out[i].kind = "read" /\ a = <<3, i, out[i]>>
  BY <1>1 DEF Items
<1>3. /\ \A i \in DOMAIN in : in[i].kind \in {"chunk", "begin"} => <<1, i, in[i]>> \in P
      /\ \A i \in DOMAIN srv : srv[i].from = n => <<2, i, srv[i]>> \in P
      /\ \A i \in DOMAIN out : out[i].kind = "read" => <<3, i, out[i]>> \in P
  BY ItemIs
<1> HIDE DEF P, Q
<1>4. \A a \in Q : f[a] \in P
  <2> TAKE a \in Q
  <2>1. CASE \E i \in DOMAIN in : in[i].kind \in {"chunk", "begin"} /\ a = <<1, i, in[i]>>
    BY <1>3, <2>1
  <2>2. CASE \E i \in DOMAIN Tail(srv) : srv[i + 1].from = n /\ a = <<2, i, srv[i + 1]>>
    BY <1>1, <1>3, <2>2
  <2>3. CASE \E i \in DOMAIN out : out[i].kind = "read" /\ a = <<3, i, out[i]>>
    BY <1>3, <2>3
  <2> QED
    BY <1>2, <2>1, <2>2, <2>3
<1>5. \A a \in Q : /\ f[a][1] = a[1] /\ f[a][3] = a[3] /\ a[2] \in Nat \ {0} /\ a[1] \in 1 .. 3
                   /\ f[a][2] = IF a[1] = 2 THEN a[2] + 1 ELSE a[2]
  BY <1>1, <1>2
<1>6. f \in [Q -> P]
  BY <1>4
<1> HIDE DEF f
<1>7. \A a, b \in Q : Sooner(a, b) <=> Sooner(f[a], f[b])
  <2> TAKE a \in Q, b \in Q
  <2>1. /\ f[a][1] = a[1] /\ a[2] \in Nat /\ f[a][2] = IF a[1] = 2 THEN a[2] + 1 ELSE a[2]
        /\ f[b][1] = b[1] /\ b[2] \in Nat /\ f[b][2] = IF b[1] = 2 THEN b[2] + 1 ELSE b[2]
        /\ a[1] \in 1 .. 3 /\ b[1] \in 1 .. 3
    BY <1>5
  <2> QED
    BY <2>1 DEF Sooner
<1>8. \A a \in Q : \A fw : About(f[a], fw, images) => About(a, fw, images)
  BY <1>5 DEF About
<1>9. Moves(f, Q, P, images)
  BY <1>5, <1>6, <1>7, <1>8 DEF Moves, IsOrder
<1> QED
  BY <1>9 DEF P, Q

LEMMA AnswerMoves ==
    ASSUME NEW n, NEW S, NEW in \in Seq(S), NEW srv \in Seq(Read), srv # <<>>, NEW U, NEW out \in Seq(U),
           NEW images, NEW m, m = AnswerTo(images, Head(srv).path, Head(srv).offset, Head(srv).tid),
           Head(srv).from = n
    PROVE  \E f : Moves(f, Items(n, Append(in, m), Tail(srv), out), Items(n, in, srv, out), images)
<1> DEFINE P == Items(n, in, srv, out)
           Q == Items(n, Append(in, m), Tail(srv), out)
           L == Len(in)
           f == [a \in Q |-> IF a[1] = 2 THEN <<2, a[2] + 1, a[3]>>
                             ELSE IF a[1] = 1 /\ a[2] = L + 1 THEN <<2, 1, srv[1]>> ELSE a]
<1>1. /\ DOMAIN out \subseteq Nat \ {0} /\ DOMAIN Tail(srv) \subseteq Nat \ {0}
      /\ \A i \in DOMAIN Tail(srv) : i + 1 \in DOMAIN srv /\ Tail(srv)[i] = srv[i + 1]
      /\ 1 \in DOMAIN srv /\ Head(srv) = srv[1]
  BY QueueTail
<1>12. \A i \in DOMAIN srv : srv[i].kind = "read"
  <2>1. \A i \in DOMAIN srv : srv[i] \in Read
    OBVIOUS
  <2> QED
    BY <2>1 DEF Read
<1>2. /\ L \in Nat /\ DOMAIN in = 1 .. L /\ DOMAIN Append(in, m) = 1 .. L + 1
      /\ \A i \in 1 .. L : Append(in, m)[i] = in[i]
      /\ Append(in, m)[L + 1] = m
  <2>1. in \in Seq(S \cup {m})
    OBVIOUS
  <2> QED
    BY <2>1
<1>0. m.kind = "chunk" /\ m.tid = srv[1].tid
  BY <1>1 DEF AnswerTo
<1>3. \A a \in Q :
         \/ \E i \in 1 .. L : in[i].kind \in {"chunk", "begin"} /\ a = <<1, i, in[i]>>
         \/ a = <<1, L + 1, m>>
         \/ \E i \in DOMAIN Tail(srv) : srv[i + 1].from = n /\ a = <<2, i, srv[i + 1]>>
         \/ \E i \in DOMAIN out : out[i].kind = "read" /\ a = <<3, i, out[i]>>
  <2> HIDE DEF L
  <2>1. \A i \in 1 .. L + 1 : i \in 1 .. L \/ i = L + 1
    BY <1>2
  <2> QED
    BY <1>1, <1>2, <2>1 DEF Items
<1>4. /\ \A i \in DOMAIN in : in[i].kind \in {"chunk", "begin"} => <<1, i, in[i]>> \in P
      /\ \A i \in DOMAIN srv : srv[i].from = n => <<2, i, srv[i]>> \in P
      /\ \A i \in DOMAIN out : out[i].kind = "read" => <<3, i, out[i]>> \in P
  BY ItemIs
<1> HIDE DEF P, Q, L
<1>5. \A a \in Q : /\ f[a] \in P
                   /\ \/ a[1] = 1 /\ a[2] \in 1 .. L /\ f[a][1] = 1 /\ f[a][2] = a[2] /\ f[a][3] = a[3]
                      \/ a[1] = 1 /\ a[2] = L + 1 /\ f[a][1] = 2 /\ f[a][2] = 1 /\ a[3] = m /\ f[a][3] = srv[1]
                      \/ a[1] = 2 /\ a[2] \in Nat \ {0} /\ f[a][1] = 2 /\ f[a][2] = a[2] + 1 /\ f[a][3] = a[3]
                      \/ a[1] = 3 /\ a[2] \in Nat /\ f[a][1] = 3 /\ f[a][2] = a[2] /\ f[a][3] = a[3]
  <2> TAKE a \in Q
  <2>1. CASE \E i \in 1 .. L : in[i].kind \in {"chunk", "begin"} /\ a = <<1, i, in[i]>>
    BY <1>2, <1>4, <2>1
  <2>2. CASE a = <<1, L + 1, m>>
    BY <1>1, <1>2, <1>4, <2>2
  <2>3. CASE \E i \in DOMAIN Tail(srv) : srv[i + 1].from = n /\ a = <<2, i, srv[i + 1]>>
    BY <1>1, <1>4, <2>3
  <2>4. CASE \E i \in DOMAIN out : out[i].kind = "read" /\ a = <<3, i, out[i]>>
    BY <1>1, <1>4, <2>4
  <2> QED
    BY <1>3, <2>1, <2>2, <2>3, <2>4
<1>6. f \in [Q -> P]
  BY <1>5
<1> HIDE DEF f
<1>7. \A a, b \in Q : Sooner(a, b) <=> Sooner(f[a], f[b])
  <2> TAKE a \in Q, b \in Q
  <2> DEFINE Placed(c, d) == \/ c[1] = 1 /\ c[2] \in 1 .. L /\ d[1] = 1 /\ d[2] = c[2]
                             \/ c[1] = 1 /\ c[2] = L + 1 /\ d[1] = 2 /\ d[2] = 1
                             \/ c[1] = 2 /\ c[2] \in Nat \ {0} /\ d[1] = 2 /\ d[2] = c[2] + 1
                             \/ c[1] = 3 /\ c[2] \in Nat /\ d[1] = 3 /\ d[2] = c[2]
  <2>0. Placed(a, f[a]) /\ Placed(b, f[b]) /\ L \in Nat
    BY <1>2, <1>5
  <2>1. CASE a[1] = 1 /\ a[2] \in 1 .. L /\ f[a][1] = 1 /\ f[a][2] = a[2]
    BY <2>0, <2>1 DEF Sooner
  <2>2. CASE a[1] = 1 /\ a[2] = L + 1 /\ f[a][1] = 2 /\ f[a][2] = 1
    <3>1. CASE b[1] = 1 /\ b[2] \in 1 .. L /\ f[b][1] = 1 /\ f[b][2] = b[2]
      BY <2>0, <2>2, <3>1 DEF Sooner
    <3>2. CASE b[1] = 1 /\ b[2] = L + 1 /\ f[b][1] = 2 /\ f[b][2] = 1
      BY <2>0, <2>2, <3>2 DEF Sooner
    <3>3. CASE b[1] = 2 /\ b[2] \in Nat \ {0} /\ f[b][1] = 2 /\ f[b][2] = b[2] + 1
      BY <2>0, <2>2, <3>3 DEF Sooner
    <3>4. CASE b[1] = 3 /\ b[2] \in Nat /\ f[b][1] = 3 /\ f[b][2] = b[2]
      BY <2>0, <2>2, <3>4 DEF Sooner
    <3> QED
      BY <2>0, <3>1, <3>2, <3>3, <3>4
  <2>3. CASE a[1] = 2 /\ a[2] \in Nat \ {0} /\ f[a][1] = 2 /\ f[a][2] = a[2] + 1
    <3>1. CASE b[1] = 1 /\ b[2] \in 1 .. L /\ f[b][1] = 1 /\ f[b][2] = b[2]
      BY <2>0, <2>3, <3>1 DEF Sooner
    <3>2. CASE b[1] = 1 /\ b[2] = L + 1 /\ f[b][1] = 2 /\ f[b][2] = 1
      BY <2>0, <2>3, <3>2 DEF Sooner
    <3>3. CASE b[1] = 2 /\ b[2] \in Nat \ {0} /\ f[b][1] = 2 /\ f[b][2] = b[2] + 1
      BY <2>0, <2>3, <3>3 DEF Sooner
    <3>4. CASE b[1] = 3 /\ b[2] \in Nat /\ f[b][1] = 3 /\ f[b][2] = b[2]
      BY <2>0, <2>3, <3>4 DEF Sooner
    <3> QED
      BY <2>0, <3>1, <3>2, <3>3, <3>4
  <2>4. CASE a[1] = 3 /\ a[2] \in Nat /\ f[a][1] = 3 /\ f[a][2] = a[2]
    BY <2>0, <2>4 DEF Sooner
  <2> QED
    BY <2>0, <2>1, <2>2, <2>3, <2>4
<1>8. \A a \in Q : \A fw : About(f[a], fw, images) => About(a, fw, images)
  <2> TAKE a \in Q
  <2> TAKE fw
  <2>1. CASE a[1] = 1 /\ f[a][1] = 2 /\ a[3] = m /\ f[a][3] = srv[1]
    BY <1>0, <1>1, <2>1 DEF About
  <2>2. CASE f[a][1] = a[1] /\ f[a][3] = a[3]
    BY <2>2 DEF About
  <2> QED
    BY <1>5, <2>1, <2>2
<1>9. \A a \in Q : IsOrder(a) => f[a][3] = a[3]
  BY <1>0, <1>5 DEF IsOrder
<1>10. \A a \in Q : ~IsOrder(a) => ~IsOrder(f[a]) /\ f[a][3].tid = a[3].tid /\ (a[1] = 3 => f[a][1] = 3)
  <2> TAKE a \in Q
  <2>1. srv[1].kind = "read"
    BY <1>1, <1>12
  <2> QED
    BY <1>0, <1>5, <2>1 DEF IsOrder
<1>11. Moves(f, Q, P, images)
  BY <1>6, <1>7, <1>8, <1>9, <1>10 DEF Moves
<1> QED
  BY <1>11 DEF P, Q

(* Other messages do not matter. *)
LEMMA OthersInbox ==
    ASSUME NEW n, NEW S, NEW in \in Seq(S), NEW srv, NEW out, NEW m, m.kind \notin {"chunk", "begin"}
    PROVE  Items(n, Append(in, m), srv, out) \subseteq Items(n, in, srv, out)
<1>1. \A i \in DOMAIN Append(in, m) :
         Append(in, m)[i] = m \/ (i \in DOMAIN in /\ Append(in, m)[i] = in[i])
  BY QueueAppend
<1> QED
  BY <1>1 DEF Items

LEMMA OthersReads ==
    ASSUME NEW n, NEW in, NEW S, NEW srv \in Seq(S), NEW out, NEW m, m.from # n
    PROVE  Items(n, in, Append(srv, m), out) \subseteq Items(n, in, srv, out)
<1>1. \A i \in DOMAIN Append(srv, m) :
         Append(srv, m)[i] = m \/ (i \in DOMAIN srv /\ Append(srv, m)[i] = srv[i])
  BY QueueAppend
<1> QED
  BY <1>1 DEF Items

NoReads(out) == (\E S : out \in Seq(S)) /\ \A i \in DOMAIN out : out[i].kind # "read"

LEMMA OthersSent ==
    ASSUME NEW n, NEW in, NEW srv, NEW S, NEW out \in Seq(S), NEW more, NoReads(more)
    PROVE  Items(n, in, srv, out \o more) \subseteq Items(n, in, srv, out)
<1>1. PICK T : more \in Seq(T)
  BY DEF NoReads
<1>2. \A i \in DOMAIN (out \o more) :
         \/ i \in DOMAIN out /\ (out \o more)[i] = out[i]
         \/ \E j \in DOMAIN more : (out \o more)[i] = more[j]
  BY <1>1, QueueConcat
<1> QED
  BY <1>2 DEF Items, NoReads

-----------------------------------------------------------------------------
(* What an update does *)

LEMMA NoChunks ==
    ASSUME NEW path
    PROVE  Chunks(path, 0) = <<>>
<1>1. 1 .. 0 = {}
  OBVIOUS
<1> QED
  BY <1>1 DEF Chunks

LEMMA NextChunk ==
    ASSUME NEW path, NEW k \in Nat
    PROVE  Append(Chunks(path, k), Chunk(path, k)) = Chunks(path, k + 1)
<1> DEFINE s == Chunks(path, k)
           C == {Chunk(path, i - 1) : i \in 1 .. k + 1}
<1>1. s = [i \in 1 .. k |-> Chunk(path, i - 1)] /\ Chunks(path, k + 1) = [i \in 1 .. k + 1 |-> Chunk(path, i - 1)]
  BY DEF Chunks
<1>2. \A i \in 1 .. k : i \in 1 .. k + 1
  OBVIOUS
<1>3. s \in [1 .. k -> C]
  BY <1>1, <1>2
<1>4. \A D : \A g \in [1 .. k -> D] : g \in Seq(D) /\ Len(g) = k
  OBVIOUS
<1> HIDE DEF s, C
<1>5. s \in Seq(C) /\ Len(s) = k
  BY <1>3, <1>4
<1> DEFINE h == Chunk(path, k)
<1> HIDE DEF h
<1>6. h = Chunk(path, (k + 1) - 1)
  BY DEF h
<1>7. s \in Seq(C \cup {h})
  BY <1>5
<1>8. Append(s, h) = [i \in 1 .. k + 1 |-> IF i \in 1 .. k THEN s[i] ELSE h]
  <2>1. /\ Append(s, h) \in [1 .. k + 1 -> C \cup {h}]
        /\ \A i \in 1 .. k : Append(s, h)[i] = s[i]
        /\ Append(s, h)[k + 1] = h
    <3>1. Append(s, h) \in Seq(C \cup {h}) /\ Len(Append(s, h)) = k + 1
      BY <1>5, <1>7
    <3>2. \A D : \A g \in Seq(D) : g \in [1 .. Len(g) -> D]
      OBVIOUS
    <3>3. Append(s, h) \in [1 .. k + 1 -> C \cup {h}]
      BY <3>1, <3>2
    <3> QED
      BY <1>5, <1>7, <3>3
  <2>2. \A i \in 1 .. k + 1 : i \in 1 .. k \/ (i = k + 1 /\ i \notin 1 .. k)
    OBVIOUS
  <2> DEFINE t == Append(s, h)
  <2> HIDE DEF t
  <2>3. t \in [1 .. k + 1 -> C \cup {h}] /\ \A i \in 1 .. k + 1 : t[i] = IF i \in 1 .. k THEN s[i] ELSE h
    BY <2>1, <2>2 DEF t
  <2>4. t = [i \in 1 .. k + 1 |-> IF i \in 1 .. k THEN s[i] ELSE h]
    BY <2>3
  <2> QED
    BY <2>4 DEF t
<1>9. \A i \in 1 .. k + 1 : (IF i \in 1 .. k THEN s[i] ELSE h) = Chunk(path, i - 1)
  <2>1. \A i \in 1 .. k + 1 : i \in 1 .. k \/ i = k + 1
    OBVIOUS
  <2> QED
    BY <1>1, <1>6, <2>1
<1> QED
  BY <1>1, <1>8, <1>9 DEF s, h

(* Nothing but orders for this file. *)
OnlyOrders(items, path) == \A a \in items : IsOrder(a) /\ a[3].path = path

IsQueue(q) == \E S : q \in Seq(S)

(* An answer to the last read: nothing else is on the way. *)
LEMMA LastAnswer ==
    ASSUME NEW n, NEW in, NEW srv, NEW out, IsQueue(in), IsQueue(srv), IsQueue(out), in # <<>>,
           NEW images, NEW fw, FwType(fw), NEW firmware, NEW used,
           UpdateOK(fw, firmware, Items(n, in, srv, out), images, used),
           ItemsType(Items(n, in, srv, out)),
           Head(in).kind = "chunk", NextReadTid(Head(in).tid) = fw.tid, fw.node # 0
    PROVE  /\ OnlyOrders(Items(n, Tail(in), srv, out), fw.asked)
           /\ Head(in) = AnswerTo(images, fw.path, fw.offset, Head(in).tid)
<1> DEFINE P == Items(n, in, srv, out)
           Q == Items(n, Tail(in), srv, out)
           head == <<1, 1, Head(in)>>
<1>0. PICK S, T, U : in \in Seq(S) /\ srv \in Seq(T) /\ out \in Seq(U)
  BY DEF IsQueue
<1>1. PICK f : Moves(f, Q, P, images) /\ \A a \in Q : Sooner(head, f[a])
  BY <1>0, InboxMoves
<1>2. head \in P /\ ~IsOrder(head)
  <2>1. 1 \in DOMAIN in /\ Head(in) = in[1]
    BY <1>0, QueueTail
  <2> QED
    BY <2>1 DEF Items, IsOrder
<1>3. Busy(fw, firmware, P, images, used)
  BY DEF UpdateOK
<1>4. fw.tid \in Tid /\ head[3].tid \in Tid
  BY <1>2 DEF FwType, ItemsType
<1>5. SinceThen(fw.tid, head[3].tid) = 0
  <2>1. NextReadTid(head[3].tid) = fw.tid
    OBVIOUS
  <2> QED
    BY <1>4, <2>1, SinceLast
<1>6. \A a \in Q : f[a] \in P
  BY <1>1 DEF Moves
<1> HIDE DEF P, Q, head
<1>7. ASSUME NEW a \in Q, ~IsOrder(a)
      PROVE  FALSE
  <2>1. ~IsOrder(f[a]) /\ Sooner(head, f[a]) /\ f[a] \in P
    BY <1>1, <1>6, <1>7 DEF Moves
  <2>2. SinceThen(fw.tid, f[a][3].tid) < 0
    BY <1>2, <1>3, <1>5, <2>1 DEF Busy
  <2>3. f[a][3].tid \in Tid
    BY <2>1 DEF ItemsType, P
  <2>4. SinceThen(fw.tid, f[a][3].tid) \in 0 .. TidMod - 1
    BY <1>4, <2>3, SinceIs
  <2> QED
    BY <2>2, <2>4, EscAssumption
<1>8. \A a \in Q : a[3].path = fw.asked
  <2> TAKE a \in Q
  <2>1. IsOrder(a) /\ f[a][3] = a[3] /\ f[a] \in P
    BY <1>1, <1>6, <1>7 DEF Moves
  <2>2. IsOrder(f[a])
    BY <2>1 DEF IsOrder
  <2> QED
    BY <1>3, <2>1, <2>2 DEF Busy
<1>9. About(head, fw, images)
  BY <1>2, <1>3 DEF Busy
<1>10. Head(in) = AnswerTo(images, fw.path, fw.offset, Head(in).tid)
  BY <1>9 DEF About, head
<1> QED
  BY <1>7, <1>8, <1>10 DEF Q, OnlyOrders

ImagesType(images) == \A path \in DOMAIN images : images[path] \in Nat

(* The three outcomes of such an answer. *)
LEMMA AnswerTaken ==
    ASSUME NEW images, ImagesType(images), NEW fw, FwType(fw), NEW firmware, NEW used \in Nat, NEW P, NEW Q,
           UpdateOK(fw, firmware, P, images, used), fw.node # 0,
           OnlyOrders(Q, fw.asked),
           NEW m, m = AnswerTo(images, fw.path, fw.offset, m.tid)
    PROVE  /\ fw.fd = "open"
           /\ m.error => UpdateOK([fw EXCEPT !.node = 0], firmware, Q, images, used)
           /\ ~m.error /\ m.whole =>
                 UpdateOK([fw EXCEPT !.offset = @ + 1, !.wait = 0], Append(firmware, m.chunk), Q, images, used)
           /\ ~m.error /\ ~m.whole =>
                 UpdateOK([fw EXCEPT !.fd = "closed", !.node = 0], Append(firmware, m.chunk), Q, images, used)
<1>1. \A a \in Q : IsOrder(a) /\ a[3].path = fw.asked
  BY DEF OnlyOrders
<1>2. Busy(fw, firmware, P, images, used) /\ (fw.asked # <<>> => IsPrefix(fw.asked, fw.path))
  BY DEF UpdateOK
<1>3. /\ fw.fd = "open" /\ fw.asked # <<>> /\ IsPrefix(fw.asked, fw.path)
      /\ fw.offset <= Size(images, fw.path) /\ firmware = Chunks(fw.path, fw.offset)
  BY <1>2 DEF Busy
<1>4. /\ m.error <=> fw.path \notin DOMAIN images
      /\ m.whole <=> fw.path \in DOMAIN images /\ fw.offset < images[fw.path]
      /\ m.chunk = Chunk(fw.path, fw.offset)
  <2> DEFINE known == fw.path \in DOMAIN images
             whole == known /\ fw.offset < images[fw.path]
  <2>1. m = [kind |-> "chunk", tid |-> m.tid, error |-> ~known, whole |-> whole,
             chunk |-> Chunk(fw.path, fw.offset)]
    BY DEF AnswerTo
  <2> HIDE DEF known, whole
  <2>2. m.error = ~known /\ m.whole = whole /\ m.chunk = Chunk(fw.path, fw.offset)
    BY <2>1
  <2> QED
    BY <2>2 DEF known, whole
<1>5. fw.offset \in Nat /\ fw.offset + 1 \in Nat
  BY DEF FwType
<1>6. Append(firmware, m.chunk) = Chunks(fw.path, fw.offset + 1)
  BY <1>3, <1>4, <1>5, NextChunk
<1>7. ASSUME m.error
      PROVE  UpdateOK([fw EXCEPT !.node = 0], firmware, Q, images, used)
  <2> DEFINE g == [fw EXCEPT !.node = 0]
  <2>1. g.node = 0 /\ g.asked = fw.asked /\ g.path = fw.path /\ g.fd = "open"
    BY <1>3 DEF FwType
  <2>2. fw.path \notin DOMAIN images /\ firmware = <<>>
    <3>1. fw.path \notin DOMAIN images
      BY <1>4, <1>7
    <3>2. fw.offset = 0
      BY <1>3, <1>5, <3>1 DEF Size
    <3> QED
      BY <1>3, <3>1, <3>2, NoChunks
  <2> HIDE DEF g
  <2>3. Stored(g, firmware, images)
    BY <2>1, <2>2 DEF Stored
  <2>4. UpdateOK(g, firmware, Q, images, used)
    BY <1>1, <1>3, <2>1, <2>3 DEF UpdateOK, Idle
  <2> QED
    BY <2>4 DEF g
<1>8. ASSUME ~m.error, m.whole
      PROVE  UpdateOK([fw EXCEPT !.offset = @ + 1, !.wait = 0], Append(firmware, m.chunk), Q, images, used)
  <2> DEFINE g == [fw EXCEPT !.offset = @ + 1, !.wait = 0]
  <2>1. /\ g.node = fw.node /\ g.asked = fw.asked /\ g.path = fw.path /\ g.fd = "open"
        /\ g.offset = fw.offset + 1
    BY <1>3 DEF FwType
  <2>2. fw.offset + 1 <= Size(images, fw.path)
    <3>1. fw.path \in DOMAIN images /\ fw.offset < images[fw.path]
      BY <1>4, <1>8
    <3>2. images[fw.path] \in Nat
      BY <3>1 DEF ImagesType
    <3> QED
      BY <1>5, <3>1, <3>2 DEF Size
  <2> HIDE DEF g
  <2>3. Busy(g, Append(firmware, m.chunk), Q, images, used)
    BY <1>1, <1>3, <1>6, <2>1, <2>2 DEF Busy
  <2>4. UpdateOK(g, Append(firmware, m.chunk), Q, images, used)
    BY <1>1, <1>3, <2>1, <2>3 DEF UpdateOK
  <2> QED
    BY <2>4 DEF g
<1>9. ASSUME ~m.error, ~m.whole
      PROVE  UpdateOK([fw EXCEPT !.fd = "closed", !.node = 0], Append(firmware, m.chunk), Q, images, used)
  <2> DEFINE g == [fw EXCEPT !.fd = "closed", !.node = 0]
  <2>1. g.node = 0 /\ g.asked = fw.asked /\ g.path = fw.path /\ g.fd = "closed"
    BY DEF FwType
  <2>2. /\ fw.path \in DOMAIN images /\ images[fw.path] \in Nat
        /\ fw.offset = images[fw.path]
    <3>1. fw.path \in DOMAIN images /\ ~(fw.offset < images[fw.path])
      BY <1>4, <1>9
    <3>2. images[fw.path] \in Nat
      BY <3>1 DEF ImagesType
    <3> QED
      BY <1>3, <1>5, <3>1, <3>2 DEF Size
  <2> HIDE DEF g
  <2>3. Stored(g, Append(firmware, m.chunk), images)
    <3>1. images[fw.path] + 1 \in 0 .. images[fw.path] + 1
      BY <2>2
    <3> QED
      BY <1>6, <2>1, <2>2, <3>1 DEF Stored
  <2>4. UpdateOK(g, Append(firmware, m.chunk), Q, images, used)
    BY <1>1, <1>3, <2>1, <2>3 DEF UpdateOK, Idle
  <2> QED
    BY <2>4 DEF g
<1> QED
  BY <1>3, <1>7, <1>8, <1>9

(* strncpy: the new name comes first. *)
LEMMA OverlayStarts ==
    ASSUME NEW old \in Path, NEW new \in Path
    PROVE  IsPrefix(new, Overlay(old, new))
<1> DEFINE rest == SubSeq(old, Len(new) + 1, Len(old))
<1>1. /\ Len(new) \in Nat /\ Len(old) \in Nat
      /\ \A i \in 1 .. Len(old) : old[i] \in Symbols
  BY DEF Path
<1>2. \A i \in Len(new) + 1 .. Len(old) : old[i] \in Symbols
  BY <1>1
<1>3. rest \in Seq(Symbols) /\ new \in Seq(Symbols)
  BY <1>1, <1>2, SubSeqProperties DEF Path
<1>4. Overlay(old, new) = new \o rest
  BY DEF Overlay
<1> HIDE DEF rest
<1>5. /\ Len(new \o rest) = Len(new) + Len(rest) /\ Len(rest) \in Nat
      /\ \A i \in 1 .. Len(new) : (new \o rest)[i] = new[i]
      /\ new \o rest \in Seq(Symbols)
  BY <1>1, <1>3
<1>6. SubSeq(new, 1, Len(new)) = SubSeq(new \o rest, 1, Len(new))
  <2> DEFINE long == new \o rest
  <2>0. long \in Seq(Symbols)
    BY <1>5
  <2>1. \A i \in 1 .. Len(new) : new[i] \in Symbols /\ long[i] \in Symbols
    BY <1>3, <1>5
  <2> HIDE DEF long
  <2>2. /\ SubSeq(new, 1, Len(new)) = [i \in 1 .. Len(new) |-> new[i]]
        /\ SubSeq(long, 1, Len(new)) = [i \in 1 .. Len(new) |-> long[i]]
    BY <1>1, <1>3, <2>0
  <2>3. \A i \in 1 .. Len(new) : long[i] = new[i]
    BY <1>5 DEF long
  <2>4. SubSeq(new, 1, Len(new)) = SubSeq(long, 1, Len(new))
    BY <2>2, <2>3
  <2> QED
    BY <2>4 DEF long
<1>7. Len(new) <= Len(new \o rest)
  BY <1>1, <1>5
<1> QED
  BY <1>4, <1>6, <1>7 DEF IsPrefix

(* An order is next: it repeats the one that is being obeyed, or nothing else is on the way. *)
LEMMA FirstOrder ==
    ASSUME NEW n, NEW S, NEW in \in Seq(S), in # <<>>, NEW T, NEW srv \in Seq(T), NEW U, NEW out \in Seq(U),
           NEW images, NEW fw, NEW firmware, NEW used,
           UpdateOK(fw, firmware, Items(n, in, srv, out), images, used),
           ItemsType(Items(n, in, srv, out)), Head(in).kind = "begin"
    PROVE  /\ Head(in).path \in Path /\ Head(in).path # <<>>
           /\ fw.node # 0 => fw.fd = "open" /\ IsPrefix(Head(in).path, fw.path)
           /\ fw.node = 0 => OnlyOrders(Items(n, Tail(in), srv, out), Head(in).path)
<1> DEFINE P == Items(n, in, srv, out)
           Q == Items(n, Tail(in), srv, out)
           head == <<1, 1, Head(in)>>
<1>1. PICK f : Moves(f, Q, P, images) /\ \A a \in Q : Sooner(head, f[a])
  BY InboxMoves
<1>2. head \in P /\ IsOrder(head) /\ head[3] = Head(in)
  <2>1. 1 \in DOMAIN in /\ Head(in) = in[1]
    BY QueueTail
  <2> QED
    BY <2>1 DEF Items, IsOrder
<1>3. Head(in).path \in Path /\ Head(in).path # <<>>
  BY <1>2 DEF ItemsType
<1>6. \A a \in Q : f[a] \in P
  BY <1>1 DEF Moves
<1>4. head[1] = 1 /\ head[2] = 1
  OBVIOUS
<1>9. ItemsType(P) /\ UpdateOK(fw, firmware, P, images, used)
  OBVIOUS
<1> HIDE DEF P, Q, head
<1>5. ASSUME fw.node # 0
      PROVE  fw.fd = "open" /\ IsPrefix(Head(in).path, fw.path)
  <2>1. Busy(fw, firmware, P, images, used) /\ (fw.asked # <<>> => IsPrefix(fw.asked, fw.path))
    BY <1>5, <1>9 DEF UpdateOK
  <2>2. head[3].path = fw.asked
    BY <1>2, <2>1 DEF Busy
  <2> QED
    BY <1>2, <1>3, <2>1, <2>2 DEF Busy
<1>7. ASSUME fw.node = 0, NEW a \in Q
      PROVE  IsOrder(a) /\ a[3].path = Head(in).path
  <2>1. Idle(fw, firmware, P, images)
    BY <1>7, <1>9 DEF UpdateOK
  <2>2. IsOrder(a)
    <3> SUFFICES ASSUME ~IsOrder(a)
                 PROVE  FALSE
      OBVIOUS
    <3>1. ~IsOrder(f[a]) /\ f[a] \in P /\ Sooner(head, f[a])
      BY <1>1, <1>6, <1>7 DEF Moves
    <3>2. Sooner(f[a], head)
      BY <1>2, <2>1, <3>1 DEF Idle
    <3>3. f[a][1] \in 1 .. 3 /\ f[a][2] \in Nat
      BY <1>9, <3>1 DEF ItemsType
    <3> QED
      BY <1>4, <3>1, <3>2, <3>3 DEF Sooner
  <2>3. f[a] \in P /\ IsOrder(f[a]) /\ f[a][3] = a[3]
    <3>1. f[a] \in P /\ f[a][3] = a[3]
      BY <1>1, <1>6, <1>7, <2>2 DEF Moves
    <3> QED
      BY <2>2, <3>1 DEF IsOrder
  <2>4. f[a][3].path = head[3].path
    BY <1>2, <1>9, <2>3 DEF UpdateOK
  <2> QED
    BY <1>2, <2>2, <2>3, <2>4
<1> QED
  BY <1>3, <1>5, <1>7 DEF Q, OnlyOrders

(* The order is obeyed, or fails when the file cannot be opened. *)
LEMMA OrderObeyed ==
    ASSUME NEW images, ImagesType(images), NEW fw, FwType(fw), NEW firmware, NEW used \in Nat, NEW P, NEW Q,
           UpdateOK(fw, firmware, P, images, used), fw.node = 0,
           NEW path \in Path, path # <<>>, OnlyOrders(Q, path)
    PROVE  /\ UpdateOK([fw EXCEPT !.fd = "open", !.offset = 0, !.node = ServerId,
                                  !.path = Overlay(@, path), !.asked = path], <<>>, Q, images, used)
           /\ UpdateOK([fw EXCEPT !.fd = "none"], firmware, Q, images, used)
<1> DEFINE g == [fw EXCEPT !.fd = "open", !.offset = 0, !.node = ServerId,
                           !.path = Overlay(@, path), !.asked = path]
           h == [fw EXCEPT !.fd = "none"]
<1>1. /\ g.fd = "open" /\ g.offset = 0 /\ g.node = ServerId /\ g.path = Overlay(fw.path, path) /\ g.asked = path
      /\ h.fd = "none" /\ h.node = 0 /\ h.path = fw.path /\ h.asked = fw.asked
  BY DEF FwType
<1>2. ServerId # 0 /\ \A a \in Q : IsOrder(a) /\ a[3].path = path
  BY EscAssumption DEF OnlyOrders
<1>3. Idle(fw, firmware, P, images) /\ (fw.asked # <<>> => IsPrefix(fw.asked, fw.path))
  BY DEF UpdateOK
<1>4. IsPrefix(path, Overlay(fw.path, path))
  BY OverlayStarts DEF FwType
<1>5. 0 <= Size(images, g.path)
  BY DEF Size, ImagesType
<1> HIDE DEF g, h
<1>6. Busy(g, <<>>, Q, images, used)
  BY <1>1, <1>2, <1>5, NoChunks DEF Busy
<1>7. UpdateOK(g, <<>>, Q, images, used)
  BY <1>1, <1>2, <1>4, <1>6 DEF UpdateOK
<1>8. fw.asked # <<>> => Stored(h, firmware, images)
  BY <1>1, <1>3 DEF Idle, Stored
<1>9. UpdateOK(h, firmware, Q, images, used)
  BY <1>1, <1>2, <1>3, <1>8 DEF UpdateOK, Idle
<1> QED
  BY <1>7, <1>9 DEF g, h

(* A read is sent, or the pool has no block for it. *)
LEMMA ReadGoes ==
    ASSUME NEW images, NEW fw, FwType(fw), NEW firmware, NEW used \in Nat, used < TidMod, NEW P, NEW Q, NEW new,
           UpdateOK(fw, firmware, P, images, used), fw.node # 0, fw.wait = 0, ItemsType(P),
           Q \subseteq P \cup {new}, ~IsOrder(new), new[1] = 3, new[2] \in Nat,
           new[3].path = fw.path, new[3].offset = fw.offset, new[3].tid = fw.tid,
           \A a \in P : Sooner(a, new)
    PROVE  UpdateOK([fw EXCEPT !.wait = ReadTimeout, !.tid = NextReadTid(@)], firmware, Q, images, used)
<1> DEFINE g == [fw EXCEPT !.wait = ReadTimeout, !.tid = NextReadTid(@)]
<1>1. /\ g.fd = fw.fd /\ g.offset = fw.offset /\ g.node = fw.node /\ g.path = fw.path /\ g.asked = fw.asked
      /\ g.wait = ReadTimeout /\ g.tid = NextReadTid(fw.tid) /\ fw.tid \in Tid
  BY DEF FwType
<1>2. Busy(fw, firmware, P, images, used) /\ (fw.asked # <<>> => IsPrefix(fw.asked, fw.path))
  BY DEF UpdateOK
<1>3. ReadTimeout \in Nat \ {0} /\ TidMod \in Nat \ {0}
  BY EscAssumption
<1> HIDE DEF g
<1>4. \A a \in P : ~IsOrder(a) =>
         /\ SinceThen(fw.tid, a[3].tid) \in Nat
         /\ SinceThen(g.tid, a[3].tid) = SinceThen(fw.tid, a[3].tid) + 1
         /\ SinceThen(fw.tid, a[3].tid) + 1 <= used
  <2> TAKE a \in P
  <2> HAVE ~IsOrder(a)
  <2>1. a[3].tid \in Tid
    BY DEF ItemsType
  <2>2. SinceThen(fw.tid, a[3].tid) \in 0 .. TidMod - 1
    BY <1>1, <2>1, SinceIs
  <2>3. SinceThen(fw.tid, a[3].tid) + (IF fw.wait < ReadTimeout THEN 1 ELSE 0) <= used
    BY <1>2 DEF Busy
  <2>4. SinceThen(fw.tid, a[3].tid) + 1 <= used
    BY <1>3, <2>2, <2>3
  <2>5. SinceThen(fw.tid, a[3].tid) + 1 < TidMod
    BY <1>3, <2>2, <2>4
  <2> QED
    BY <1>1, <1>3, <2>1, <2>2, <2>4, <2>5, SinceNext
<1>5. SinceThen(g.tid, new[3].tid) = 0
  BY <1>1, SinceLast
<1>6. \A a \in P : ~Sooner(new, a)
  BY DEF Sooner, ItemsType
<1>7. ~Sooner(new, new)
  BY DEF Sooner
<1>8. \A a, b \in Q :
         ~IsOrder(a) /\ ~IsOrder(b) /\ Sooner(a, b) =>
            SinceThen(g.tid, b[3].tid) < SinceThen(g.tid, a[3].tid)
  <2> TAKE a \in Q, b \in Q
  <2> HAVE ~IsOrder(a) /\ ~IsOrder(b) /\ Sooner(a, b)
  <2>1. a \in P
    BY <1>6, <1>7
  <2>2. CASE b \in P
    <3>1. SinceThen(fw.tid, b[3].tid) < SinceThen(fw.tid, a[3].tid)
      BY <1>2, <2>1, <2>2 DEF Busy
    <3> QED
      BY <1>4, <2>1, <2>2, <3>1
  <2>3. CASE b = new
    BY <1>4, <1>5, <2>1, <2>3
  <2> QED
    BY <2>2, <2>3
<1>9. \A a \in Q : ~IsOrder(a) =>
         /\ SinceThen(g.tid, a[3].tid) + (IF g.wait < ReadTimeout THEN 1 ELSE 0) <= used
         /\ About(a, g, images)
  <2> TAKE a \in Q
  <2> HAVE ~IsOrder(a)
  <2>1. ~(g.wait < ReadTimeout)
    BY <1>1, <1>3
  <2>2. CASE a \in P
    <3>1. About(a, fw, images)
      BY <1>2, <2>2 DEF Busy
    <3>2. About(a, g, images)
      BY <1>1, <3>1 DEF About
    <3> QED
      BY <1>4, <2>1, <2>2, <3>2
  <2>3. CASE a = new
    BY <1>1, <1>5, <2>1, <2>3 DEF About
  <2> QED
    BY <2>2, <2>3
<1>10. \A b \in Q : IsOrder(b) => b \in P
  OBVIOUS
<1>11. Busy(g, firmware, Q, images, used)
  BY <1>1, <1>2, <1>8, <1>9, <1>10 DEF Busy
<1>12. UpdateOK(g, firmware, Q, images, used)
  BY <1>1, <1>2, <1>10, <1>11 DEF UpdateOK
<1> QED
  BY <1>12 DEF g

(* The timer of the reads changes; the more time has gone, the more delays there were. *)
LEMMA TimerChanges ==
    ASSUME NEW images, NEW fw, FwType(fw), NEW firmware, NEW used \in Nat, NEW more \in Nat, used <= more, NEW P,
           UpdateOK(fw, firmware, P, images, used), ItemsType(P),
           NEW wait, wait < ReadTimeout => (P = {} \/ used + 1 <= more)
    PROVE  UpdateOK([fw EXCEPT !.wait = wait], firmware, P, images, more)
<1> DEFINE g == [fw EXCEPT !.wait = wait]
<1>1. /\ g.fd = fw.fd /\ g.offset = fw.offset /\ g.node = fw.node /\ g.path = fw.path /\ g.asked = fw.asked
      /\ g.wait = wait /\ g.tid = fw.tid /\ fw.tid \in Tid
  BY DEF FwType
<1> HIDE DEF g
<1>2. ASSUME Busy(fw, firmware, P, images, used)
      PROVE  Busy(g, firmware, P, images, more)
  <2>1. \A a \in P : ~IsOrder(a) =>
           /\ SinceThen(g.tid, a[3].tid) + (IF g.wait < ReadTimeout THEN 1 ELSE 0) <= more
           /\ About(a, g, images)
    <3> TAKE a \in P
    <3> HAVE ~IsOrder(a)
    <3>1. a[3].tid \in Tid
      BY DEF ItemsType
    <3>2. SinceThen(fw.tid, a[3].tid) \in 0 .. TidMod - 1 /\ TidMod \in Nat
      BY <1>1, <3>1, SinceIs, EscAssumption
    <3>3. SinceThen(fw.tid, a[3].tid) + (IF fw.wait < ReadTimeout THEN 1 ELSE 0) <= used
          /\ About(a, fw, images)
      BY <1>2 DEF Busy
    <3>4. SinceThen(fw.tid, a[3].tid) <= used
      BY <3>2, <3>3
    <3>5. About(a, g, images)
      BY <1>1, <3>3 DEF About
    <3>6. SinceThen(g.tid, a[3].tid) + (IF g.wait < ReadTimeout THEN 1 ELSE 0) <= more
      BY <1>1, <3>2, <3>4
    <3> QED
      BY <3>5, <3>6
  <2> QED
    BY <1>1, <1>2, <2>1 DEF Busy
<1>3. Idle(fw, firmware, P, images) => Idle(g, firmware, P, images)
  BY <1>1 DEF Idle, Stored
<1>4. UpdateOK(g, firmware, P, images, more)
  BY <1>1, <1>2, <1>3 DEF UpdateOK
<1> QED
  BY <1>4 DEF g

(* The operator gives an order. *)
LEMMA OrderComes ==
    ASSUME NEW images, NEW fw, NEW firmware, NEW used, NEW P, NEW Q, NEW new,
           UpdateOK(fw, firmware, P, images, used),
           Q \subseteq P \cup {new}, IsOrder(new), new[3].path # <<>>,
           \A b \in P : IsOrder(b) => b[3].path = new[3].path,
           \/ new[3].path = fw.asked
           \/ fw.node = 0 /\ \A a \in P : ~IsOrder(a) /\ a[1] # 3 => Sooner(a, new)
    PROVE  UpdateOK(fw, firmware, Q, images, used)
<1>1. \A a \in Q : ~IsOrder(a) => a \in P
  OBVIOUS
<1>2. \A a \in Q : IsOrder(a) => a[3].path = new[3].path
  OBVIOUS
<1>3. ASSUME Busy(fw, firmware, P, images, used), fw.node # 0
      PROVE  Busy(fw, firmware, Q, images, used)
  BY <1>1, <1>2, <1>3 DEF Busy
<1>4. ASSUME Idle(fw, firmware, P, images), fw.node = 0
      PROVE  Idle(fw, firmware, Q, images)
  <2>1. \A a \in Q : ~IsOrder(a) => a[1] # 3
    BY <1>1, <1>4 DEF Idle
  <2>2. \A a, b \in Q : ~IsOrder(a) /\ IsOrder(b) => Sooner(a, b)
    BY <1>1, <1>4 DEF Idle
  <2> QED
    BY <1>1, <1>4, <2>1, <2>2 DEF Idle
<1> QED
  BY <1>2, <1>3, <1>4 DEF UpdateOK

-----------------------------------------------------------------------------
(* What has nothing to do with an update *)

LEMMA NothingSent ==
    NoReads(<<>>)
<1>1. <<>> \in Seq({}) /\ DOMAIN <<>> = {}
  OBVIOUS
<1> QED
  BY <1>1 DEF NoReads

LEMMA OtherSent ==
    ASSUME NEW m, m.kind # "read"
    PROVE  NoReads(<<m>>)
<1>1. <<m>> \in Seq({m}) /\ DOMAIN <<m>> = {1} /\ <<m>>[1] = m
  OBVIOUS
<1> QED
  BY <1>1 DEF NoReads

LEMMA BothSent ==
    ASSUME NEW q, NEW r, NoReads(q), NoReads(r)
    PROVE  NoReads(q \o r)
<1>1. PICK S : q \in Seq(S)
  BY DEF NoReads
<1>2. PICK T : r \in Seq(T)
  BY DEF NoReads
<1>3. /\ q \o r \in Seq(S \cup T)
      /\ \A i \in DOMAIN (q \o r) :
            \/ i \in DOMAIN q /\ (q \o r)[i] = q[i]
            \/ \E j \in DOMAIN r : (q \o r)[i] = r[j]
  BY <1>1, <1>2, QueueConcat
<1>4. \A i \in DOMAIN (q \o r) : (q \o r)[i].kind # "read"
  BY <1>3 DEF NoReads
<1> QED
  BY <1>3, <1>4 DEF NoReads

(* The outcome o leaves the update of s alone. *)
Quietly(o, s, d) == o.s.fw = s.fw /\ o.d.firmware = d.firmware /\ NoReads(o.out)

LEMMA QuietOutcome ==
    ASSUME NEW s, NEW d, NEW t, NEW e, NEW out, t.fw = s.fw, e.firmware = d.firmware, NoReads(out)
    PROVE  Quietly(Outcome(t, e, out), s, d)
BY DEF Quietly, Outcome

LEMMA QuietFault ==
    ASSUME NEW s, NEW d, NEW t, t.fw = s.fw
    PROVE  Quietly(Fault(t, d), s, d)
<1>1. NoReads(<<>>)
  BY NothingSent
<1> QED
  BY <1>1 DEF Quietly, Fault, Outcome

LEMMA OtherFields ==
    ASSUME NEW given, NEW own, NEW s, NodeOK(s, given, own)
    PROVE  /\ \A x : [s EXCEPT !.wait = x].fw = s.fw
           /\ \A x : [s EXCEPT !.offset = x].fw = s.fw
           /\ \A x, y : [s EXCEPT !.offset = x, !.wait = y].fw = s.fw
           /\ \A x : [s EXCEPT !.up = x].fw = s.fw
           /\ \A x : [s EXCEPT !.settings = x].fw = s.fw
           /\ \A x : [s EXCEPT !.demand = x].fw = s.fw
           /\ \A x : [s EXCEPT !.late = x].fw = s.fw
           /\ \A x, y : [s EXCEPT !.late = x, !.updating = y].fw = s.fw
           /\ \A x : canardSetLocalNodeID(s, x).fw = s.fw
BY DEF NodeOK, canardSetLocalNodeID

LEMMA AllocationQuiet ==
    ASSUME NEW given, NEW own, NEW s, NodeOK(s, given, own), NEW n, NEW d, NEW m,
           NEW o \in handle_DNA_Allocation(n, s, d, m)
    PROVE  Quietly(o, s, d)
<1>1. \A t \in Postponed(s) : NodeOK(t, given, own) /\ t.fw = s.fw
  <2> TAKE t \in Postponed(s)
  <2>1. NodeOK(t, given, own)
    BY Postponing
  <2>2. t.fw = s.fw
    <3>1. PICK r \in FollowupDelays : t = [s EXCEPT !.wait = MinRequestPeriod + r]
      BY DEF Postponed
    <3> QED
      BY <3>1, OtherFields
  <2> QED
    BY <2>1, <2>2
<1>2. CASE o = Outcome(s, d, <<>>)
  BY <1>2, NothingSent, QuietOutcome
<1>3. CASE \E t \in Postponed(s) : o = Fault(t, d)
  BY <1>1, <1>3, QuietFault
<1>4. ASSUME NEW t \in Postponed(s),
             o = Outcome(IF m.kind = "request ID" \/ ~Matches(n, m.uid) THEN [t EXCEPT !.offset = 0]
                         ELSE IF Len(m.uid) < 3
                         THEN [t EXCEPT !.offset = Len(m.uid), !.wait = @ - MinRequestPeriod]
                         ELSE canardSetLocalNodeID(t, m.id), d, <<>>)
      PROVE  Quietly(o, s, d)
  <2> DEFINE new == IF m.kind = "request ID" \/ ~Matches(n, m.uid) THEN [t EXCEPT !.offset = 0]
                    ELSE IF Len(m.uid) < 3
                    THEN [t EXCEPT !.offset = Len(m.uid), !.wait = @ - MinRequestPeriod]
                    ELSE canardSetLocalNodeID(t, m.id)
  <2>1. /\ [t EXCEPT !.offset = 0].fw = t.fw
        /\ [t EXCEPT !.offset = Len(m.uid), !.wait = @ - MinRequestPeriod].fw = t.fw
        /\ canardSetLocalNodeID(t, m.id).fw = t.fw
    BY <1>1, OtherFields
  <2>2. new.fw = s.fw
    BY <1>1, <2>1
  <2>3. o = Outcome(new, d, <<>>)
    BY <1>4
  <2> HIDE DEF new
  <2> QED
    BY <2>2, <2>3, NothingSent, QuietOutcome
<1> QED
  BY <1>2, <1>3, <1>4 DEF handle_DNA_Allocation

LEMMA RequestQuiet ==
    ASSUME NEW given, NEW own, NEW s, NodeOK(s, given, own), NEW n, NEW d, NEW o \in request_DNA(n, s, d)
    PROVE  Quietly(o, s, d)
<1> DEFINE m == [kind |-> "request ID", first |-> s.offset = 0,
                 part |-> scenario.uid[n][s.offset + 1], last |-> s.offset = 2]
<1>1. PICK t \in Postponed(s) : o = Outcome(AfterRequest(t), d, <<m>>)
  BY DEF request_DNA
<1>2. NodeOK(t, given, own)
  BY Postponing
<1>3. t.fw = s.fw
  <2>1. PICK r \in FollowupDelays : t = [s EXCEPT !.wait = MinRequestPeriod + r]
    BY DEF Postponed
  <2> QED
    BY <2>1, OtherFields
<1>4. AfterRequest(t).fw = s.fw
  BY <1>2, <1>3, OtherFields DEF AfterRequest
<1>5. m.kind # "read"
  OBVIOUS
<1> HIDE DEF m
<1> QED
  BY <1>1, <1>4, <1>5, OtherSent, QuietOutcome

LEMMA ReplyQuiet ==
    ASSUME NEW of, NEW value
    PROVE  NoReads(<<Reply(of, value)>>)
<1>1. Reply(of, value).kind # "read"
  BY DEF Reply
<1> QED
  BY <1>1, OtherSent

LEMMA GetSetQuiet ==
    ASSUME NEW given, NEW own, NEW s, NodeOK(s, given, own), NEW d, DiskOK(d, given), NEW n, NEW m,
           NEW o \in handle_param_GetSet(n, s, d, m)
    PROVE  Quietly(o, s, d)
<1> DEFINE found == m.name \in Parameters(Program(n))
           set == found /\ m.byName /\ m.value # Empty
           new == IF set THEN [s EXCEPT !.settings[m.name] = m.value] ELSE s
           disk2 == IF set /\ Saves(Program(n)) THEN [d EXCEPT !.settings = new.settings] ELSE d
           reply == <<Reply("getset", IF found THEN new.settings[m.name] ELSE Empty)>>
<1>1. \/ o = Outcome(new, disk2, reply)
      \/ o = [Outcome(new, d, reply) EXCEPT !.faults = 1]
      \/ o = Fault(s, d)
  BY DEF handle_param_GetSet
<1>2. NoReads(reply)
  BY ReplyQuiet
<1>3. new.fw = s.fw
  BY DEF NodeOK
<1>4. disk2.firmware = d.firmware
  <2> HIDE DEF new
  <2> QED
    BY DEF DiskOK
<1> HIDE DEF found, set, new, disk2, reply
<1>5. CASE o = Outcome(new, disk2, reply)
  BY <1>2, <1>3, <1>4, <1>5, QuietOutcome
<1>6. CASE o = [Outcome(new, d, reply) EXCEPT !.faults = 1]
  BY <1>2, <1>3, <1>6 DEF Quietly, Outcome
<1>7. CASE o = Fault(s, d)
  BY <1>7, QuietFault
<1> QED
  BY <1>1, <1>5, <1>6, <1>7

LEMMA StatusQuiet ==
    ASSUME NEW given, NEW own, NEW s, NodeOK(s, given, own), NEW d, NEW o \in process1HzTasks(s, d)
    PROVE  Quietly(o, s, d)
<1> DEFINE m == [kind |-> "status", updating |-> s.fw.node # 0,
                 progress |-> IF s.fw.node # 0 THEN s.fw.offset ELSE 0]
           new == [s EXCEPT !.late.status = @ - 1, !.updating = s.fw.node # 0]
<1>1. o = Outcome(s, d, <<>>) \/ o = Outcome(new, d, <<m>>)
  BY DEF process1HzTasks
<1>2. new.fw = s.fw
  BY DEF NodeOK
<1>3. m.kind # "read"
  OBVIOUS
<1> HIDE DEF new, m
<1> QED
  BY <1>1, <1>2, <1>3, NothingSent, OtherSent, QuietOutcome

LEMMA TelemetryQuiet ==
    ASSUME NEW given, NEW own, NEW s, NodeOK(s, given, own), NEW d, NEW n, Program(n) \in Programs,
           NEW o \in sendTelemetry(n, s, d)
    PROVE  Quietly(o, s, d)
<1> DEFINE new == [s EXCEPT !.late.telemetry = StillLate(Program(n), @)]
           out == Telemetry(Program(n), s.demand, s.settings)
<1>1. o = Outcome(s, d, <<>>) \/ o = Outcome(new, d, out)
  BY DEF sendTelemetry
<1>2. new.fw = s.fw
  BY DEF NodeOK
<1>3. NoReads(out)
  BY ReportsSent DEF Plain, NoReads
<1> HIDE DEF new, out
<1> QED
  BY <1>1, <1>2, <1>3, NothingSent, QuietOutcome

(* Two handlers one after the other. *)
LEMMA QuietJoined ==
    ASSUME NEW s, NEW d, NEW o, Quietly(o, s, d), NEW n, NEW given, NEW own, NEW x, OutcomeOK(n, x, given, own),
           Quietly(x, o.s, o.d), NEW faults
    PROVE  Quietly([x EXCEPT !.out = o.out \o x.out, !.faults = faults], s, d)
<1>1. NoReads(o.out \o x.out)
  BY BothSent DEF Quietly
<1> DEFINE y == [x EXCEPT !.out = o.out \o x.out, !.faults = faults]
<1>2. y.s = x.s /\ y.d = x.d /\ y.out = o.out \o x.out
  BY DEF OutcomeOK
<1> HIDE DEF y
<1>3. Quietly(y, s, d)
  BY <1>1, <1>2 DEF Quietly
<1> QED
  BY <1>3 DEF y

-----------------------------------------------------------------------------
(* A turn of the loop *)

LEMMA ReceivedUpdate ==
    ASSUME NEW n, NEW S, NEW in \in Seq(S), in # <<>>, NEW T, NEW srv \in Seq(T), NEW U, NEW out \in Seq(U),
           NEW images, NEW fw, FwType(fw), NEW firmware, NEW used \in Nat,
           UpdateOK(fw, firmware, Items(n, in, srv, out), images, used),
           ItemsType(Items(n, in, srv, out))
    PROVE  UpdateOK(fw, firmware, Items(n, Tail(in), srv, out), images, used)
<1> DEFINE P == Items(n, in, srv, out)
           Q == Items(n, Tail(in), srv, out)
<1>1. PICK f : Moves(f, Q, P, images)
  BY InboxMoves
<1>2. ItemsType(P) /\ UpdateOK(fw, firmware, P, images, used) /\ fw.tid \in Tid /\ used <= used
  BY DEF FwType
<1> HIDE DEF P, Q
<1>3. UpdateOK(fw, firmware, Q, images, used)
  BY <1>1, <1>2, MovesKeep
<1> QED
  BY <1>3 DEF Q

(* begin_firmware_update *)
LEMMA BeginUpdate ==
    ASSUME NEW given, NEW own, NEW s, NodeOK(s, given, own), NEW d, DiskOK(d, given),
           NEW images, ImagesType(images), NEW used \in Nat, NEW P, NEW Q, NEW m,
           UpdateOK(s.fw, d.firmware, P, images, used), UpdateOK(s.fw, d.firmware, Q, images, used),
           m.path \in Path, m.path # <<>>,
           s.fw.node # 0 => s.fw.fd = "open" /\ IsPrefix(m.path, s.fw.path),
           s.fw.node = 0 => OnlyOrders(Q, m.path),
           NEW o \in handle_begin_firmware_update(s, d, m)
    PROVE  NoReads(o.out) /\ UpdateOK(o.s.fw, o.d.firmware, Q, images, used)
<1> DEFINE fw == [s.fw EXCEPT !.fd = "open", !.offset = 0, !.node = ServerId,
                              !.path = Overlay(@, m.path), !.asked = m.path]
           new == [s EXCEPT !.fw.fd = "open", !.fw.offset = 0, !.fw.node = ServerId,
                            !.fw.path = Overlay(@, m.path), !.fw.asked = m.path]
           disk2 == [d EXCEPT !.firmware = <<>>]
           lost == [s EXCEPT !.fw.fd = "none"]
<1>1. FwType(s.fw) /\ s.fw.node \in {0, ServerId}
  BY DEF NodeOK, FwType
<1>2. CASE o = Outcome(s, d, <<>>) \/ o = Fault(s, d)
  <2>1. Quietly(o, s, d)
    BY <1>2, NothingSent, QuietOutcome, QuietFault
  <2> QED
    BY <2>1 DEF Quietly
<1>3. CASE ~Repeated(s, m) /\ o \in {Outcome(new, disk2, <<Reply("begin", TRUE)>>), Fault(lost, d)}
  <2>1. s.fw.node = 0
    BY <1>1, <1>3 DEF Repeated
  <2>2. OnlyOrders(Q, m.path)
    BY <2>1
  <2>3. /\ UpdateOK(fw, <<>>, Q, images, used)
        /\ UpdateOK([s.fw EXCEPT !.fd = "none"], d.firmware, Q, images, used)
    BY <1>1, <2>1, <2>2, OrderObeyed
  <2>4. new.fw = fw /\ disk2.firmware = <<>> /\ lost.fw = [s.fw EXCEPT !.fd = "none"]
    BY <1>1 DEF NodeOK, DiskOK, FwType
  <2> HIDE DEF fw, new, disk2, lost
  <2>5. CASE o = Outcome(new, disk2, <<Reply("begin", TRUE)>>)
    <3>1. o.s = new /\ o.d = disk2 /\ o.out = <<Reply("begin", TRUE)>>
      BY <2>5 DEF Outcome
    <3>2. NoReads(<<Reply("begin", TRUE)>>)
      BY ReplyQuiet
    <3> QED
      BY <2>3, <2>4, <3>1, <3>2
  <2>6. CASE o = Fault(lost, d)
    <3>1. o.s = lost /\ o.d = d /\ o.out = <<>>
      BY <2>6 DEF Fault, Outcome
    <3> QED
      BY <2>3, <2>4, <3>1, NothingSent
  <2> QED
    BY <1>3, <2>5, <2>6
<1> QED
  BY <1>2, <1>3 DEF handle_begin_firmware_update

(* file_read_response *)
LEMMA ChunkUpdate ==
    ASSUME NEW given, NEW own, NEW s, NodeOK(s, given, own), NEW d, DiskOK(d, given),
           NEW images, ImagesType(images), NEW used \in Nat, NEW P, NEW Q, NEW m,
           UpdateOK(s.fw, d.firmware, P, images, used), UpdateOK(s.fw, d.firmware, Q, images, used),
           NextReadTid(m.tid) = s.fw.tid /\ s.fw.node # 0 =>
              /\ OnlyOrders(Q, s.fw.asked)
              /\ m = AnswerTo(images, s.fw.path, s.fw.offset, m.tid),
           NEW o \in handle_file_read_response(s, d, m)
    PROVE  NoReads(o.out) /\ UpdateOK(o.s.fw, o.d.firmware, Q, images, used)
<1> DEFINE ended == [s EXCEPT !.fw.node = 0]
           closed == [s EXCEPT !.fw.fd = IF @ = "open" THEN "closed" ELSE @, !.fw.node = 0]
           disk2 == IF s.fw.fd = "open" THEN [d EXCEPT !.firmware = Append(@, m.chunk)] ELSE d
<1>1. FwType(s.fw)
  BY DEF NodeOK
<1>2. CASE o = Outcome(s, d, <<>>) \/ o = Fault(s, d)
  <2>1. Quietly(o, s, d)
    BY <1>2, NothingSent, QuietOutcome, QuietFault
  <2> QED
    BY <2>1 DEF Quietly
<1>3. CASE ForUs(s, m) /\ o = IF m.error THEN Outcome(ended, d, <<>>)
                              ELSE Outcome(IF m.whole THEN Progress(s) ELSE closed, disk2, <<>>)
  <2>1. s.fw.node # 0 /\ NextReadTid(m.tid) = s.fw.tid
    BY <1>3, EscAssumption DEF ForUs, NextReadTid
  <2>2. /\ OnlyOrders(Q, s.fw.asked)
        /\ m = AnswerTo(images, s.fw.path, s.fw.offset, m.tid)
    BY <2>1
  <2>3. /\ s.fw.fd = "open"
        /\ m.error => UpdateOK([s.fw EXCEPT !.node = 0], d.firmware, Q, images, used)
        /\ ~m.error /\ m.whole =>
              UpdateOK([s.fw EXCEPT !.offset = @ + 1, !.wait = 0], Append(d.firmware, m.chunk), Q, images, used)
        /\ ~m.error /\ ~m.whole =>
              UpdateOK([s.fw EXCEPT !.fd = "closed", !.node = 0], Append(d.firmware, m.chunk), Q, images, used)
    BY <1>1, <2>1, <2>2, AnswerTaken
  <2>4. /\ ended.fw = [s.fw EXCEPT !.node = 0]
        /\ Progress(s).fw = [s.fw EXCEPT !.offset = @ + 1, !.wait = 0]
        /\ closed.fw = [s.fw EXCEPT !.fd = "closed", !.node = 0]
        /\ disk2.firmware = Append(d.firmware, m.chunk)
    BY <1>1, <2>3 DEF NodeOK, DiskOK, FwType, Progress
  <2> HIDE DEF ended, closed, disk2
  <2>5. o.out = <<>>
    BY <1>3 DEF Outcome
  <2>6. CASE m.error
    <3>1. o.s = ended /\ o.d = d
      BY <1>3, <2>6 DEF Outcome
    <3> QED
      BY <2>3, <2>4, <2>5, <2>6, <3>1, NothingSent
  <2>7. CASE ~m.error /\ m.whole
    <3>1. o.s = Progress(s) /\ o.d = disk2
      BY <1>3, <2>7 DEF Outcome
    <3> QED
      BY <2>3, <2>4, <2>5, <2>7, <3>1, NothingSent
  <2>8. CASE ~m.error /\ ~m.whole
    <3>1. o.s = closed /\ o.d = disk2
      BY <1>3, <2>8 DEF Outcome
    <3> QED
      BY <2>3, <2>4, <2>5, <2>8, <3>1, NothingSent
  <2> QED
    BY <2>6, <2>7, <2>8
<1> QED
  BY <1>2, <1>3 DEF handle_file_read_response

(* What is received *)
LEMMA TransferUpdate ==
    ASSUME scenario \in Scenarios, NEW n \in Nodes, NEW given, NEW own, NEW table,
           NEW s, NodeOK(s, given, own), NEW d, DiskOK(d, given),
           NEW S, NEW in \in Seq(S), in # <<>>, NEW T, NEW srv \in Seq(T), NEW U, NEW out \in Seq(U),
           Received(Head(in), table, scenario.commands),
           NEW used \in Nat, ItemsType(Items(n, in, srv, out)),
           UpdateOK(s.fw, d.firmware, Items(n, in, srv, out), scenario.images, used),
           NEW o \in onTransferReceived(n, s, d, Head(in))
    PROVE  NoReads(o.out) /\ UpdateOK(o.s.fw, o.d.firmware, Items(n, Tail(in), srv, out), scenario.images, used)
<1> DEFINE m == Head(in)
           P == Items(n, in, srv, out)
           Q == Items(n, Tail(in), srv, out)
           images == scenario.images
<1>1. IsScenario(scenario)
  BY EscAssumption
<1>2. FwType(s.fw) /\ ImagesType(images)
  BY <1>1 DEF NodeOK, IsScenario, ImagesType
<1>3. UpdateOK(s.fw, d.firmware, Q, images, used)
  BY <1>2, ReceivedUpdate
<1> DEFINE Fine == NoReads(o.out) /\ UpdateOK(o.s.fw, o.d.firmware, Q, images, used)
<1>4. Quietly(o, s, d) => Fine
  BY <1>3 DEF Quietly
<1>5. m.kind = "begin" =>
         /\ m.path \in Path /\ m.path # <<>>
         /\ s.fw.node # 0 => s.fw.fd = "open" /\ IsPrefix(m.path, s.fw.path)
         /\ s.fw.node = 0 => OnlyOrders(Q, m.path)
  BY FirstOrder
<1>6. ASSUME m.kind = "chunk", NextReadTid(m.tid) = s.fw.tid, s.fw.node # 0
      PROVE  /\ OnlyOrders(Q, s.fw.asked)
             /\ m = AnswerTo(images, s.fw.path, s.fw.offset, m.tid)
  <2>1. /\ FwType(s.fw) /\ IsQueue(in) /\ IsQueue(srv) /\ IsQueue(out) /\ Head(in).kind = "chunk"
        /\ NextReadTid(Head(in).tid) = s.fw.tid /\ s.fw.node # 0
    BY <1>2, <1>6 DEF IsQueue
  <2>2. OnlyOrders(Q, s.fw.asked)
    BY <2>1, LastAnswer
  <2>3. Head(in) = AnswerTo(images, s.fw.path, s.fw.offset, Head(in).tid)
    BY <2>1, LastAnswer
  <2> QED
    BY <2>2, <2>3
<1>7. UpdateOK(s.fw, d.firmware, P, images, used) /\ Received(m, table, scenario.commands)
      /\ o \in onTransferReceived(n, s, d, m)
  OBVIOUS
<1> HIDE DEF m, P, Q, images, Fine
<1>8. ASSUME m.kind \notin Handles(Program(n))
      PROVE  Fine
  BY <1>4, <1>7, <1>8, NothingSent, QuietOutcome DEF onTransferReceived
<1>9. ASSUME m.kind \in Handles(Program(n))
      PROVE  Fine
  <2>1. \/ m.kind \in DNA /\ m \notin scenario.commands
        \/ m.kind = "chunk" /\ m \in ReadAnswer
        \/ m.kind \in Commands /\ m \in scenario.commands
    BY <1>1, <1>7 DEF Received, Request, Announcement, ReadAnswer, IsScenario, DNA
  <2>9. CommandOf(Program(n)) \in {"RawCommand", "ArrayCommand", "none"}
    BY <1>1 DEF IsScenario, CommandOf, Program, Programs
  <2>2. CASE m.kind \in DNA
    <3>1. o \in handle_DNA_Allocation(n, s, d, m)
      BY <1>7, <1>9, <2>2, <2>9 DEF onTransferReceived, DNA
    <3> QED
      BY <1>4, <3>1, AllocationQuiet
  <2>3. CASE m.kind = "chunk"
    <3>1. o \in handle_file_read_response(s, d, m)
      BY <1>7, <1>9, <2>3, <2>9 DEF onTransferReceived, DNA
    <3>2. NextReadTid(m.tid) = s.fw.tid /\ s.fw.node # 0 =>
             /\ OnlyOrders(Q, s.fw.asked)
             /\ m = AnswerTo(images, s.fw.path, s.fw.offset, m.tid)
      BY <1>6, <2>3
    <3>3. NoReads(o.out) /\ UpdateOK(o.s.fw, o.d.firmware, Q, images, used)
      BY <1>2, <1>3, <1>7, <3>1, <3>2, ChunkUpdate
    <3> QED
      BY <3>3 DEF Fine
  <2>4. CASE m.kind = "getset" /\ m \in scenario.commands
    <3>1. o \in handle_param_GetSet(n, s, d, m)
      BY <1>7, <1>9, <2>4, <2>9 DEF onTransferReceived, DNA
    <3> QED
      BY <1>4, <3>1, GetSetQuiet
  <2>5. CASE m.kind \in {"opcode", "info"}
    <3>1. o \in handle_param_ExecuteOpcode(s, d) \cup handle_GetNodeInfo(s, d)
      BY <1>7, <1>9, <2>5, <2>9 DEF onTransferReceived, DNA
    <3>2. Quietly(o, s, d)
      BY <3>1, ReplyQuiet, QuietOutcome, QuietFault DEF handle_param_ExecuteOpcode, handle_GetNodeInfo
    <3> QED
      BY <1>4, <3>2
  <2>6. CASE m.kind = "restart"
    <3>1. o = Outcome([s EXCEPT !.up = FALSE], d, <<>>)
      BY <1>7, <1>9, <2>6, <2>9 DEF onTransferReceived, DNA, handle_RestartNode
    <3>2. [s EXCEPT !.up = FALSE].fw = s.fw
      BY OtherFields
    <3> QED
      BY <1>4, <3>1, <3>2, NothingSent, QuietOutcome
  <2>7. CASE m.kind = "begin" /\ m \in scenario.commands
    <3>1. o \in handle_begin_firmware_update(s, d, m)
      BY <1>7, <1>9, <2>7, <2>9 DEF onTransferReceived, DNA
    <3>2. /\ m.path \in Path /\ m.path # <<>>
          /\ s.fw.node # 0 => s.fw.fd = "open" /\ IsPrefix(m.path, s.fw.path)
          /\ s.fw.node = 0 => OnlyOrders(Q, m.path)
      BY <1>5, <2>7
    <3>3. NoReads(o.out) /\ UpdateOK(o.s.fw, o.d.firmware, Q, images, used)
      BY <1>2, <1>3, <1>7, <3>1, <3>2, BeginUpdate
    <3> QED
      BY <3>3 DEF Fine
  <2>8. CASE m.kind \in {"RawCommand", "ArrayCommand"}
    <3>1. scenario.program[n] \in Programs
      BY <1>1 DEF IsScenario
    <3>2. m.kind = CommandOf(Program(n))
      BY <1>9, <2>8, <3>1 DEF Handles, CommandOf, Program, Programs, DNA, EscHandles, ServoHandles,
         BatteryHandles, RangefinderHandles, EscCppHandles
    <3>3. o \in {Outcome(t, d, <<>>) : t \in Commanded(n, s, m)}
      BY <1>7, <1>9, <2>8, <2>9, <3>2 DEF onTransferReceived, DNA
    <3>4. \E v : o = Outcome([s EXCEPT !.demand = v], d, <<>>)
      BY <3>3 DEF Commanded
    <3>5. \A v : [s EXCEPT !.demand = v].fw = s.fw
      BY OtherFields
    <3> QED
      BY <1>4, <3>4, <3>5, NothingSent, QuietOutcome
  <2> QED
    BY <2>1, <2>2, <2>3, <2>4, <2>5, <2>6, <2>7, <2>8 DEF Commands
<1> QED
  BY <1>8, <1>9 DEF Fine, Q, images

ReadOnly(out, r) ==
    /\ \E S : out \in Seq(S)
    /\ \E k \in DOMAIN out : out[k] = r /\ \A j \in DOMAIN out \ {k} : out[j].kind # "read"

LEMMA ReadJoined ==
    ASSUME NEW q, NEW p, NEW r, NoReads(q), ReadOnly(p, r)
    PROVE  ReadOnly(q \o p, r)
<1>1. PICK S : q \in Seq(S)
  BY DEF NoReads
<1>2. PICK T : p \in Seq(T)
  BY DEF ReadOnly
<1>3. PICK k \in DOMAIN p : p[k] = r /\ \A j \in DOMAIN p \ {k} : p[j].kind # "read"
  BY DEF ReadOnly
<1>4. q \in Seq(S \cup T) /\ p \in Seq(S \cup T)
  BY <1>1, <1>2
<1>5. /\ q \o p \in Seq(S \cup T) /\ Len(q \o p) = Len(q) + Len(p) /\ Len(q) \in Nat /\ Len(p) \in Nat
      /\ DOMAIN (q \o p) = 1 .. Len(q) + Len(p) /\ DOMAIN q = 1 .. Len(q) /\ DOMAIN p = 1 .. Len(p)
  BY <1>4
<1>6. \A i \in 1 .. Len(q) + Len(p) :
         (q \o p)[i] = IF i <= Len(q) THEN q[i] ELSE p[i - Len(q)]
  BY <1>4
<1> DEFINE both == q \o p
<1>7. \A i \in 1 .. Len(q) + Len(p) :
         /\ i <= Len(q) => i \in 1 .. Len(q)
         /\ ~(i <= Len(q)) => i - Len(q) \in 1 .. Len(p) /\ (i - Len(q) = k => i = Len(q) + k)
  BY <1>5
<1>8. Len(q) + k \in 1 .. Len(q) + Len(p) /\ ~(Len(q) + k <= Len(q)) /\ (Len(q) + k) - Len(q) = k
  BY <1>5
<1> HIDE DEF both
<1>9. both[Len(q) + k] = r
  BY <1>3, <1>6, <1>8 DEF both
<1>10. \A j \in DOMAIN both \ {Len(q) + k} : both[j].kind # "read"
  <2> TAKE j \in DOMAIN both \ {Len(q) + k}
  <2>1. j \in 1 .. Len(q) + Len(p)
    BY <1>5 DEF both
  <2>2. CASE j <= Len(q)
    <3>1. both[j] = q[j] /\ j \in DOMAIN q
      BY <1>5, <1>6, <1>7, <2>1, <2>2 DEF both
    <3> QED
      BY <3>1 DEF NoReads
  <2>3. CASE ~(j <= Len(q))
    <3>1. both[j] = p[j - Len(q)] /\ j - Len(q) \in DOMAIN p \ {k}
      BY <1>5, <1>6, <1>7, <2>1, <2>3 DEF both
    <3> QED
      BY <1>3, <3>1
  <2> QED
    BY <2>2, <2>3
<1>11. Len(q) + k \in DOMAIN both /\ both \in Seq(S \cup T)
  BY <1>5, <1>8 DEF both
<1>12. ReadOnly(both, r)
  BY <1>9, <1>10, <1>11 DEF ReadOnly
<1> QED
  BY <1>12 DEF both

LEMMA ReadAppended ==
    ASSUME NEW n, NEW S, NEW in \in Seq(S), NEW T, NEW srv \in Seq(T), NEW U, NEW out \in Seq(U),
           NEW more, NEW r, ReadOnly(more, r)
    PROVE  \E k \in Nat :
              /\ Items(n, in, srv, out \o more) \subseteq Items(n, in, srv, out) \cup {<<3, k, r>>}
              /\ \A a \in Items(n, in, srv, out) : Sooner(a, <<3, k, r>>)
<1>1. PICK V : more \in Seq(V)
  BY DEF ReadOnly
<1>2. PICK h \in DOMAIN more : more[h] = r /\ \A j \in DOMAIN more \ {h} : more[j].kind # "read"
  BY DEF ReadOnly
<1>3. out \in Seq(U \cup V) /\ more \in Seq(U \cup V)
  BY <1>1
<1>4. /\ Len(out) \in Nat /\ Len(more) \in Nat
      /\ DOMAIN (out \o more) = 1 .. Len(out) + Len(more) /\ DOMAIN out = 1 .. Len(out)
      /\ DOMAIN more = 1 .. Len(more)
  BY <1>3
<1>5. \A i \in 1 .. Len(out) + Len(more) :
         (out \o more)[i] = IF i <= Len(out) THEN out[i] ELSE more[i - Len(out)]
  BY <1>3
<1> DEFINE k == Len(out) + h
           both == out \o more
<1>6. \A i \in 1 .. Len(out) + Len(more) :
         /\ i <= Len(out) => i \in 1 .. Len(out)
         /\ ~(i <= Len(out)) => i - Len(out) \in 1 .. Len(more) /\ (i - Len(out) = h => i = k)
  BY <1>4
<1>7. k \in Nat /\ \A i \in 1 .. Len(out) : i < k
  BY <1>4
<1> HIDE DEF k, both
<1>8. \A i \in DOMAIN both : both[i].kind = "read" =>
         \/ i \in DOMAIN out /\ both[i] = out[i]
         \/ i = k /\ both[i] = r
  <2> TAKE i \in DOMAIN both
  <2> HAVE both[i].kind = "read"
  <2>1. i \in 1 .. Len(out) + Len(more)
    BY <1>4 DEF both
  <2>2. CASE i <= Len(out)
    BY <1>4, <1>5, <1>6, <2>1, <2>2 DEF both
  <2>3. CASE ~(i <= Len(out))
    <3>1. both[i] = more[i - Len(out)] /\ i - Len(out) \in DOMAIN more /\ (i - Len(out) = h => i = k)
      BY <1>4, <1>5, <1>6, <2>1, <2>3 DEF both
    <3>2. i - Len(out) = h
      BY <1>2, <3>1
    <3> QED
      BY <1>2, <3>1, <3>2
  <2> QED
    BY <2>2, <2>3
<1>9. Items(n, in, srv, both) \subseteq Items(n, in, srv, out) \cup {<<3, k, r>>}
  BY <1>8 DEF Items
<1>10. \A a \in Items(n, in, srv, out) : Sooner(a, <<3, k, r>>)
  <2> TAKE a \in Items(n, in, srv, out)
  <2>1. \/ a[1] = 1 \/ a[1] = 2 \/ (a[1] = 3 /\ a[2] \in DOMAIN out)
    BY DEF Items
  <2> QED
    BY <1>4, <1>7, <2>1 DEF Sooner
<1> QED
  BY <1>7, <1>9, <1>10 DEF both

ReadOf(n, fw) == [kind |-> "read", from |-> n, path |-> fw.path, offset |-> fw.offset, tid |-> fw.tid]

(* The outcome o sends a read, or fails to. *)
Sends(o, s, d, n) ==
    /\ s.fw.node # 0 /\ s.fw.wait = 0 /\ o.d.firmware = d.firmware
    /\ \/ NoReads(o.out) /\ o.s.fw = [s.fw EXCEPT !.wait = ReadTimeout]
       \/ /\ ReadOnly(o.out, ReadOf(n, s.fw))
          /\ o.s.fw = [s.fw EXCEPT !.wait = ReadTimeout, !.tid = NextReadTid(@)]

LEMMA ReadUpdate ==
    ASSUME NEW given, NEW own, NEW s, NodeOK(s, given, own), NEW d, NEW n, NEW o \in readWhenUpdating(n, s, d)
    PROVE  Quietly(o, s, d) \/ Sends(o, s, d, n)
<1> DEFINE asked == [s EXCEPT !.fw.wait = ReadTimeout]
           next == [asked EXCEPT !.fw.tid = NextReadTid(@)]
           m == ReadOf(n, s.fw)
<1>1. FwType(s.fw)
  BY DEF NodeOK
<1>2. CASE o = Outcome(s, d, <<>>)
  BY <1>2, NothingSent, QuietOutcome
<1>3. CASE s.fw.node # 0 /\ ~(s.fw.wait > 0) /\ (o = Outcome(next, d, <<m>>) \/ o = Fault(asked, d))
  <2>1. s.fw.wait = 0
    BY <1>1, <1>3, EscAssumption DEF FwType
  <2>2. asked.fw = [s.fw EXCEPT !.wait = ReadTimeout]
    BY <1>1 DEF NodeOK, FwType
  <2>3. next.fw = [s.fw EXCEPT !.wait = ReadTimeout, !.tid = NextReadTid(@)]
    BY <1>1 DEF NodeOK, FwType
  <2> HIDE DEF asked, next, m
  <2>4. CASE o = Fault(asked, d)
    <3>1. o.s = asked /\ o.d = d /\ o.out = <<>>
      BY <2>4 DEF Fault, Outcome
    <3> QED
      BY <1>3, <2>1, <2>2, <3>1, NothingSent DEF Sends
  <2>5. CASE o = Outcome(next, d, <<m>>)
    <3>1. o.s = next /\ o.d = d /\ o.out = <<m>>
      BY <2>5 DEF Outcome
    <3>2. <<m>> \in Seq({m}) /\ DOMAIN <<m>> = {1} /\ <<m>>[1] = m
      OBVIOUS
    <3>3. ReadOnly(<<m>>, m)
      BY <3>2 DEF ReadOnly
    <3> QED
      BY <1>3, <2>1, <2>3, <3>1, <3>3 DEF Sends, m
  <2> QED
    BY <1>3, <2>4, <2>5
<1>4. o = Outcome(s, d, <<>>) \/ (s.fw.node # 0 /\ ~(s.fw.wait > 0) /\ (o = Outcome(next, d, <<m>>) \/ o = Fault(asked, d)))
  BY DEF readWhenUpdating, send_firmware_read, ReadOf
<1> QED
  BY <1>2, <1>3, <1>4

LEMMA SendsJoined ==
    ASSUME NEW s, NEW d, NEW o, Quietly(o, s, d), NEW n, NEW given, NEW own, NEW x, OutcomeOK(n, x, given, own),
           Sends(x, o.s, o.d, n), NEW faults
    PROVE  Sends([x EXCEPT !.out = o.out \o x.out, !.faults = faults], s, d, n)
<1> DEFINE y == [x EXCEPT !.out = o.out \o x.out, !.faults = faults]
<1>1. y.s = x.s /\ y.d = x.d /\ y.out = o.out \o x.out
  BY DEF OutcomeOK
<1>2. NoReads(o.out) /\ o.s.fw = s.fw /\ o.d.firmware = d.firmware
  BY DEF Quietly
<1>3. NoReads(x.out) => NoReads(o.out \o x.out)
  BY <1>2, BothSent
<1>4. ReadOnly(x.out, ReadOf(n, s.fw)) => ReadOnly(o.out \o x.out, ReadOf(n, s.fw))
  BY <1>2, ReadJoined
<1> HIDE DEF y
<1>5. Sends(y, s, d, n)
  BY <1>1, <1>2, <1>3, <1>4 DEF Sends
<1> QED
  BY <1>5 DEF y

LEMMA TasksUpdate ==
    ASSUME scenario \in Scenarios, NEW n \in Nodes, NEW given, NEW own,
           NEW s, NodeOK(s, given, own), NEW d, DiskOK(d, given),
           NEW o \in Tasks(n, s, d)
    PROVE  Quietly(o, s, d) \/ Sends(o, s, d, n)
<1> DEFINE first == Then(process1HzTasks(s, d), LAMBDA t, e : sendTelemetry(n, t, e))
           both == Then(first, LAMBDA t, e : readWhenUpdating(n, t, e))
<1>1. Program(n) \in Programs
  BY EscAssumption DEF IsScenario, Program
<1>2. CASE ~s.up
  BY <1>2, NothingSent, QuietOutcome DEF Tasks
<1>3. CASE s.up /\ s.id = 0
  <2>1. CASE s.wait = 0
    BY <1>3, <2>1, RequestQuiet DEF Tasks
  <2>2. CASE s.wait # 0
    BY <1>3, <2>2, NothingSent, QuietOutcome DEF Tasks
  <2> QED
    BY <2>1, <2>2
<1>4. CASE s.up /\ s.id # 0
  <2>1. ASSUME NEW p \in first
        PROVE  OutcomeOK(n, p, given, own) /\ Quietly(p, s, d)
    <3>1. PICK q \in process1HzTasks(s, d) : \E x \in sendTelemetry(n, q.s, q.d) :
             p = [x EXCEPT !.out = q.out \o x.out, !.faults = q.faults + x.faults]
      BY <2>1 DEF Then
    <3>2. PICK x \in sendTelemetry(n, q.s, q.d) :
             p = [x EXCEPT !.out = q.out \o x.out, !.faults = q.faults + x.faults]
      BY <3>1
    <3>3. OutcomeOK(n, q, given, own) /\ Quietly(q, s, d)
      BY <3>1, StatusSent, StatusQuiet
    <3>4. OutcomeOK(n, x, given, own)
      BY <3>2, <3>3, TelemetrySent DEF OutcomeOK
    <3>5. NodeOK(q.s, given, own)
      BY <3>3 DEF OutcomeOK
    <3>6. Quietly(x, q.s, q.d)
      BY <1>1, <3>2, <3>5, TelemetryQuiet
    <3>7. OutcomeOK(n, p, given, own)
      BY <3>2, <3>3, <3>4, Joined
    <3>8. Quietly(p, s, d)
      BY <3>2, <3>3, <3>4, <3>6, QuietJoined
    <3> QED
      BY <3>7, <3>8
  <2>2. PICK p \in first : \E x \in readWhenUpdating(n, p.s, p.d) :
           o = [x EXCEPT !.out = p.out \o x.out, !.faults = p.faults + x.faults]
    <3>1. o \in both
      BY <1>4 DEF Tasks
    <3> HIDE DEF first
    <3> QED
      BY <3>1 DEF Then
  <2>3. PICK x \in readWhenUpdating(n, p.s, p.d) :
           o = [x EXCEPT !.out = p.out \o x.out, !.faults = p.faults + x.faults]
    BY <2>2
  <2>4. OutcomeOK(n, p, given, own) /\ Quietly(p, s, d)
    BY <2>1, <2>2
  <2>5. NodeOK(p.s, given, own) /\ DiskOK(p.d, given)
    BY <2>4 DEF OutcomeOK
  <2> HIDE DEF first
  <2>6. OutcomeOK(n, x, given, own)
    <3>1. CASE p.s.fw.node # 0
      BY <2>3, <2>5, <3>1, ReadSent DEF readWhenUpdating
    <3>2. CASE p.s.fw.node = 0
      <4>1. x = Outcome(p.s, p.d, <<>>)
        BY <2>3, <3>2 DEF readWhenUpdating
      <4> QED
        BY <2>5, <4>1, OutNothing, OutcomeIs
    <3> QED
      BY <3>1, <3>2
  <2>7. Quietly(x, p.s, p.d) \/ Sends(x, p.s, p.d, n)
    BY <2>3, <2>5, ReadUpdate
  <2>8. CASE Quietly(x, p.s, p.d)
    BY <2>3, <2>4, <2>6, <2>8, QuietJoined
  <2>9. CASE Sends(x, p.s, p.d, n)
    BY <2>3, <2>4, <2>6, <2>9, SendsJoined
  <2> QED
    BY <2>7, <2>8, <2>9
<1> QED
  BY <1>2, <1>3, <1>4

LEMMA FewerKeep ==
    ASSUME NEW P, NEW Q, Q \subseteq P, NEW images, NEW fw, NEW firmware, NEW used \in Nat, NEW more \in Nat,
           used <= more, UpdateOK(fw, firmware, P, images, used), fw.tid \in Tid, ItemsType(P)
    PROVE  UpdateOK(fw, firmware, Q, images, more)
<1>1. PICK f : Moves(f, Q, P, images)
  BY Fewer
<1> QED
  BY <1>1, MovesKeep

(* The tasks of a turn. *)
LEMMA SentUpdate ==
    ASSUME NEW n, NEW S, NEW in \in Seq(S), NEW T, NEW srv \in Seq(T), NEW U, NEW out \in Seq(U),
           NEW images, NEW used \in Nat, used < TidMod, NEW s, NEW d, FwType(s.fw),
           UpdateOK(s.fw, d.firmware, Items(n, in, srv, out), images, used), ItemsType(Items(n, in, srv, out)),
           NEW o, Quietly(o, s, d) \/ Sends(o, s, d, n)
    PROVE  UpdateOK(o.s.fw, o.d.firmware, Items(n, in, srv, out \o o.out), images, used)
<1> DEFINE P == Items(n, in, srv, out)
           Q == Items(n, in, srv, out \o o.out)
<1>1. UpdateOK(s.fw, d.firmware, P, images, used) /\ ItemsType(P) /\ s.fw.tid \in Tid /\ used <= used
  BY DEF FwType
<1>2. NoReads(o.out) => Q \subseteq P
  BY OthersSent
<1>3. CASE Quietly(o, s, d)
  <2>1. Q \subseteq P /\ o.s.fw = s.fw /\ o.d.firmware = d.firmware
    BY <1>2, <1>3 DEF Quietly
  <2> HIDE DEF P, Q
  <2>2. UpdateOK(s.fw, d.firmware, Q, images, used)
    BY <1>1, <2>1, FewerKeep
  <2> QED
    BY <2>1, <2>2 DEF Q
<1>4. CASE Sends(o, s, d, n) /\ NoReads(o.out) /\ o.s.fw = [s.fw EXCEPT !.wait = ReadTimeout]
  <2>1. Q \subseteq P /\ o.d.firmware = d.firmware
    BY <1>2, <1>4 DEF Sends
  <2>2. ~(ReadTimeout < ReadTimeout)
    BY EscAssumption
  <2>3. o.s.fw.tid = s.fw.tid
    BY <1>4 DEF FwType
  <2> HIDE DEF P, Q
  <2>4. UpdateOK([s.fw EXCEPT !.wait = ReadTimeout], d.firmware, P, images, used)
    BY <1>1, <2>2, TimerChanges
  <2>5. UpdateOK(o.s.fw, d.firmware, P, images, used) /\ o.s.fw.tid \in Tid
    BY <1>1, <1>4, <2>3, <2>4
  <2>6. UpdateOK(o.s.fw, d.firmware, Q, images, used)
    BY <1>1, <2>1, <2>5, FewerKeep
  <2> QED
    BY <2>1, <2>6 DEF Q
<1>5. CASE /\ Sends(o, s, d, n) /\ ReadOnly(o.out, ReadOf(n, s.fw))
           /\ o.s.fw = [s.fw EXCEPT !.wait = ReadTimeout, !.tid = NextReadTid(@)]
  <2>1. PICK k \in Nat : /\ Q \subseteq P \cup {<<3, k, ReadOf(n, s.fw)>>}
                         /\ \A a \in P : Sooner(a, <<3, k, ReadOf(n, s.fw)>>)
    BY <1>5, ReadAppended
  <2> DEFINE new == <<3, k, ReadOf(n, s.fw)>>
             fw == s.fw
  <2>2. /\ ~IsOrder(new) /\ new[1] = 3 /\ new[2] \in Nat
        /\ new[3].path = fw.path /\ new[3].offset = fw.offset /\ new[3].tid = fw.tid
    BY DEF IsOrder, ReadOf
  <2>3. Q \subseteq P \cup {new} /\ \A a \in P : Sooner(a, new)
    BY <2>1
  <2>4. fw.node # 0 /\ fw.wait = 0 /\ o.d.firmware = d.firmware /\ FwType(fw)
    BY <1>5 DEF Sends
  <2>7. UpdateOK(fw, d.firmware, P, images, used)
    BY <1>1
  <2>8. o.s.fw = [fw EXCEPT !.wait = ReadTimeout, !.tid = NextReadTid(@)]
    BY <1>5
  <2> HIDE DEF P, Q, new, fw
  <2>5. UpdateOK([fw EXCEPT !.wait = ReadTimeout, !.tid = NextReadTid(@)], d.firmware, Q, images, used)
    BY <1>1, <2>2, <2>3, <2>4, <2>7, ReadGoes
  <2>6. UpdateOK(o.s.fw, o.d.firmware, Q, images, used)
    BY <2>4, <2>5, <2>8
  <2> QED
    BY <2>6 DEF Q
<1> QED
  BY <1>3, <1>4, <1>5 DEF Sends

-----------------------------------------------------------------------------
(* The invariant of the files *)

(* How many delays there were. *)
Used == scenario.left.delays - left.delays

BudgetOK ==
    /\ left = [x \in DOMAIN left |-> left[x]] /\ "delays" \in DOMAIN left
    /\ left.delays \in 0 .. scenario.left.delays

FileOK(n) ==
    /\ node[n].up =>
          UpdateOK(node[n].fw, disk[n].firmware, Items(n, inbox[n], server, txq[n]), scenario.images, Used)
    /\ ~node[n].up => inbox[n] = <<>> /\ txq[n] = <<>>

FileInv == BudgetOK /\ \A n \in Nodes : FileOK(n)

LEMMA ItemsTyped ==
    ASSUME scenario \in Scenarios, NEW n, NEW in, NEW table, InOK(in, table, scenario.commands),
           NEW srv \in Seq(Read), NEW out, OutOK(n, out)
    PROVE  /\ ItemsType(Items(n, in, srv, out))
           /\ IsQueue(in) /\ IsQueue(out) /\ IsQueue(srv)
<1>1. IsScenario(scenario)
  BY EscAssumption
<1>2. IsQueue(in) /\ IsQueue(out) /\ IsQueue(srv)
  BY DEF InOK, OutOK, IsQueue
<1>3. DOMAIN in \subseteq Nat /\ DOMAIN out \subseteq Nat /\ DOMAIN srv \subseteq Nat
  BY <1>2 DEF IsQueue
<1>4. ASSUME NEW a \in Items(n, in, srv, out)
      PROVE  /\ a[1] \in 1 .. 3 /\ a[2] \in Nat
             /\ IF IsOrder(a) THEN a[3].path \in Path /\ a[3].path # <<>> ELSE a[3].tid \in Tid
  <2>1. CASE \E i \in DOMAIN in : in[i].kind \in {"chunk", "begin"} /\ a = <<1, i, in[i]>>
    <3>1. PICK i \in DOMAIN in : in[i].kind \in {"chunk", "begin"} /\ a = <<1, i, in[i]>>
      BY <2>1
    <3>2. Received(in[i], table, scenario.commands)
      BY DEF InOK
    <3>3. CASE in[i].kind = "begin"
      <4>1. in[i] \in scenario.commands
        BY <3>2, <3>3 DEF Received, Request, Announcement, ReadAnswer
      <4>2. in[i].path \in Path /\ in[i].path # <<>>
        BY <1>1, <3>3, <4>1 DEF IsScenario, Path
      <4> QED
        BY <1>3, <3>1, <3>3, <4>2 DEF IsOrder
    <3>4. CASE in[i].kind = "chunk"
      <4>1. in[i] \in ReadAnswer
        BY <1>1, <3>2, <3>4 DEF Received, Request, Announcement, IsScenario, Commands
      <4>2. in[i].tid \in Tid
        BY <4>1 DEF ReadAnswer
      <4> QED
        BY <1>3, <3>1, <3>4, <4>2 DEF IsOrder
    <3> QED
      BY <3>1, <3>3, <3>4
  <2>2. CASE \E i \in DOMAIN srv : srv[i].from = n /\ a = <<2, i, srv[i]>>
    <3>1. PICK i \in DOMAIN srv : srv[i].from = n /\ a = <<2, i, srv[i]>>
      BY <2>2
    <3>2. srv[i] \in Read
      OBVIOUS
    <3>3. srv[i].kind = "read" /\ srv[i].tid \in Tid
      BY <3>2 DEF Read
    <3> QED
      BY <1>3, <3>1, <3>3 DEF IsOrder
  <2>3. CASE \E i \in DOMAIN out : out[i].kind = "read" /\ a = <<3, i, out[i]>>
    <3>1. PICK i \in DOMAIN out : out[i].kind = "read" /\ a = <<3, i, out[i]>>
      BY <2>3
    <3>2. out[i] \in Read
      BY <3>1 DEF OutOK, SentOK
    <3>3. out[i].tid \in Tid
      BY <3>2 DEF Read
    <3> QED
      BY <1>3, <3>1, <3>3 DEF IsOrder
  <2> QED
    BY <2>1, <2>2, <2>3, ItemIs
<1>5. ItemsType(Items(n, in, srv, out))
  BY <1>4 DEF ItemsType
<1> QED
  BY <1>2, <1>5

LEMMA NodeFields ==
    ASSUME EscInv, NEW n \in Nodes
    PROVE  /\ node[n] = [x \in DOMAIN node[n] |-> node[n][x]]
           /\ {"up", "id", "wait", "late", "fw"} \subseteq DOMAIN node[n]
           /\ FwType(node[n].fw)
<1>1. NodeOK(node[n], Given(n), Owned(n))
  BY DEF EscInv
<1> QED
  BY <1>1 DEF NodeOK

LEMMA StateTypes ==
    ASSUME EscInv, FileInv, NEW n \in Nodes
    PROVE  /\ FwType(node[n].fw)
           /\ IsQueue(inbox[n]) /\ IsQueue(txq[n]) /\ IsQueue(server) /\ server \in Seq(Read)
           /\ ItemsType(Items(n, inbox[n], server, txq[n]))
           /\ ImagesType(scenario.images)
           /\ Used \in Nat
<1>1. IsScenario(scenario)
  BY EscAssumption DEF EscInv
<1>2. ItemsType(Items(n, inbox[n], server, txq[n])) /\ IsQueue(inbox[n]) /\ IsQueue(txq[n]) /\ IsQueue(server)
  BY ItemsTyped DEF EscInv
<1>3. Used \in Nat
  <2>1. scenario.left.delays \in Nat
    BY <1>1 DEF IsScenario
  <2> QED
    BY <2>1 DEF Used, FileInv, BudgetOK
<1> QED
  BY <1>1, <1>2, <1>3 DEF EscInv, NodeOK, IsScenario, ImagesType

LEMMA MovesFewer ==
    ASSUME NEW f, NEW P, NEW R, NEW images, Moves(f, R, P, images), NEW Q, Q \subseteq R
    PROVE  \E g : Moves(g, Q, P, images)
<1> DEFINE g == [a \in Q |-> f[a]]
<1>1. \A a \in Q : g[a] = f[a] /\ a \in R
  OBVIOUS
<1>2. g \in [Q -> P]
  BY DEF Moves
<1> HIDE DEF g
<1>3. Moves(g, Q, P, images)
  BY <1>1, <1>2 DEF Moves
<1> QED
  BY <1>3

(* Nothing changes for a node but that its messages go on. *)
LEMMA FileKept ==
    ASSUME EscInv, FileInv, scenario' = scenario, BudgetOK', left'.delays <= left.delays,
           NEW k \in Nodes, node'[k].fw = node[k].fw, node'[k].up = node[k].up,
           disk'[k].firmware = disk[k].firmware,
           NEW R, Items(k, inbox'[k], server', txq'[k]) \subseteq R,
           \E f : Moves(f, R, Items(k, inbox[k], server, txq[k]), scenario.images),
           ~node[k].up => inbox'[k] = inbox[k] /\ txq'[k] = txq[k]
    PROVE  FileOK(k)'
<1> DEFINE P == Items(k, inbox[k], server, txq[k])
           Q == Items(k, inbox'[k], server', txq'[k])
           fw == node[k].fw
           images == scenario.images
           firmware == disk[k].firmware
<1>1. PICK f : Moves(f, Q, P, images)
  BY MovesFewer
<1>2. FwType(fw) /\ ItemsType(P) /\ Used \in Nat
  BY StateTypes
<1>3. Used' \in Nat /\ Used <= Used'
  <2>1. scenario.left.delays \in Nat
    BY EscAssumption DEF EscInv, IsScenario
  <2> QED
    BY <2>1 DEF Used, FileInv, BudgetOK
<1>4. fw.tid \in Tid
  BY <1>2 DEF FwType
<1> DEFINE used == Used
           more == Used'
<1>5. /\ node[k].up => UpdateOK(fw, firmware, P, images, used)
      /\ ~node[k].up => inbox[k] = <<>> /\ txq[k] = <<>>
  BY DEF FileInv, FileOK
<1>6. used \in Nat /\ more \in Nat /\ used <= more /\ ItemsType(P) /\ fw.tid \in Tid
  BY <1>2, <1>3, <1>4
<1> HIDE DEF P, Q, fw, images, firmware, used, more
<1>7. node[k].up => UpdateOK(fw, firmware, Q, images, more)
  BY <1>1, <1>5, <1>6, MovesKeep
<1>8. node'[k].up => UpdateOK(node'[k].fw, disk'[k].firmware, Items(k, inbox'[k], server', txq'[k]), scenario'.images, Used')
  BY <1>7 DEF Q, fw, images, firmware, more
<1>9. ~node'[k].up => inbox'[k] = <<>> /\ txq'[k] = <<>>
  BY <1>5
<1> QED
  BY <1>8, <1>9 DEF FileOK

LEMMA BudgetKept ==
    ASSUME BudgetOK, scenario' = scenario,
           \/ left' = left
           \/ \E x, v : x # "delays" /\ left' = [left EXCEPT ![x] = v]
    PROVE  BudgetOK' /\ left'.delays = left.delays
<1>1. /\ left' = [x \in DOMAIN left' |-> left'[x]] /\ "delays" \in DOMAIN left' /\ left'.delays = left.delays
  BY DEF BudgetOK
<1> QED
  BY <1>1 DEF BudgetOK

(* A node that has started, or that is down. *)
LEMMA FileFresh ==
    ASSUME EscInv', NEW k \in Nodes, inbox'[k] = <<>>, txq'[k] = <<>>,
           node'[k].up => node'[k].fw.node = 0 /\ node'[k].fw.asked = <<>>
    PROVE  FileOK(k)'
<1> DEFINE Q == Items(k, inbox'[k], server', txq'[k])
<1>1. \A a \in Q : ~IsOrder(a) /\ a[1] # 3
  <2>1. DOMAIN <<>> = {}
    OBVIOUS
  <2>2. \A i \in DOMAIN server' : server'[i] \in Read
    <3>1. server' \in Seq(Read)
      BY DEF EscInv
    <3> QED
      BY <3>1
  <2>3. \A i \in DOMAIN server' : server'[i].kind # "begin"
    BY <2>2 DEF Read
  <2> QED
    BY <2>1, <2>3 DEF Items, IsOrder
<1> DEFINE fw == node'[k].fw
           firmware == disk'[k].firmware
           images == scenario'.images
           more == Used'
<1> HIDE DEF Q, firmware, images, more
<1>2. node'[k].up => UpdateOK(fw, firmware, Q, images, more)
  BY <1>1 DEF UpdateOK, Idle
<1> QED
  BY <1>2 DEF FileOK, Q, firmware, images, more
(* A whole turn of the loop: what is received, and then the tasks. *)
LEMMA TurnUpdate ==
    ASSUME scenario \in Scenarios, NEW n \in Nodes, NEW given, NEW own,
           NEW S, NEW in \in Seq(S), NEW T, NEW srv \in Seq(T), NEW U, NEW out \in Seq(U),
           NEW images, NEW used \in Nat, used < TidMod,
           NEW received,
           \A q \in received : /\ OutcomeOK(n, q, given, own) /\ NoReads(q.out)
                               /\ UpdateOK(q.s.fw, q.d.firmware, Items(n, in, srv, out), images, used),
           ItemsType(Items(n, in, srv, out)),
           NEW o \in Then(received, LAMBDA t, e : Tasks(n, t, e))
    PROVE  UpdateOK(o.s.fw, o.d.firmware, Items(n, in, srv, out \o o.out), images, used)
<1>1. PICK q \in received : \E x \in Tasks(n, q.s, q.d) :
         o = [x EXCEPT !.out = q.out \o x.out, !.faults = q.faults + x.faults]
  BY DEF Then
<1>2. PICK x \in Tasks(n, q.s, q.d) :
         o = [x EXCEPT !.out = q.out \o x.out, !.faults = q.faults + x.faults]
  BY <1>1
<1>3. /\ OutcomeOK(n, q, given, own) /\ NoReads(q.out)
      /\ UpdateOK(q.s.fw, q.d.firmware, Items(n, in, srv, out), images, used)
  BY <1>1
<1>4. NodeOK(q.s, given, own) /\ DiskOK(q.d, given) /\ FwType(q.s.fw)
  BY <1>3 DEF OutcomeOK, NodeOK
<1>5. OutcomeOK(n, x, given, own)
  BY <1>2, <1>4, TasksDone
<1>6. Quietly(x, q.s, q.d) \/ Sends(x, q.s, q.d, n)
  BY <1>2, <1>4, TasksUpdate
<1>7. Quietly(q, q.s, q.d)
  BY <1>3 DEF Quietly
<1>8. Quietly(o, q.s, q.d) \/ Sends(o, q.s, q.d, n)
  <2>1. CASE Quietly(x, q.s, q.d)
    BY <1>2, <1>5, <1>7, <2>1, QuietJoined
  <2>2. CASE Sends(x, q.s, q.d, n)
    BY <1>2, <1>5, <1>7, <2>2, SendsJoined
  <2> QED
    BY <1>6, <2>1, <2>2
<1> QED
  BY <1>3, <1>4, <1>8, SentUpdate

-----------------------------------------------------------------------------
(* The steps and the files *)

(* No more reads get late than there are transfer-IDs. *)
FewDelays == scenario.left.delays < TidMod

LEMMA UsedBounds ==
    ASSUME scenario \in Scenarios, FewDelays, BudgetOK
    PROVE  Used \in Nat /\ Used < TidMod
<1>1. scenario.left.delays \in Nat /\ TidMod \in Nat
  BY EscAssumption DEF IsScenario
<1> QED
  BY <1>1 DEF Used, FewDelays, BudgetOK

LEMMA OneLess ==
    ASSUME NEW m \in Nat, NEW x \in 0 .. m
    PROVE  x <= x /\ (x > 0 => x - 1 \in 0 .. m /\ x - 1 <= x)
OBVIOUS

LEMMA MoreUsed ==
    ASSUME NEW m \in Nat, NEW t \in Nat, m < t, NEW x \in 0 .. m, NEW y \in 0 .. m, y <= x
    PROVE  m - x \in Nat /\ m - y \in Nat /\ m - y < t /\ m - x <= m - y
OBVIOUS

LEMMA Rest ==
    ASSUME NEW S, NEW in \in Seq(S)
    PROVE  (IF in = <<>> THEN <<>> ELSE Tail(in)) \in Seq(S)
OBVIOUS

LEMMA PassFile ==
    ASSUME EscInv, FileInv, FewDelays, NEW n \in Nodes, Pass(n)
    PROVE  FileInv'
<1> DEFINE table == allocator.table
           commands == scenario.commands
           given == Given(n)
           own == Owned(n)
           in == inbox[n]
           in2 == IF in = <<>> THEN <<>> ELSE Tail(in)
           out == txq[n]
           images == scenario.images
           received == IF in = <<>> THEN {Outcome(node[n], disk[n], <<>>)}
                       ELSE onTransferReceived(n, node[n], disk[n], Head(in))
           P == Items(n, in, server, out)
           Q == Items(n, in2, server, out)
<1>1. /\ scenario \in Scenarios
      /\ NodeOK(node[n], given, own) /\ DiskOK(disk[n], given)
      /\ OutOK(n, out) /\ InOK(in, table, commands)
  BY DEF EscInv
<1>2. /\ \A e \in table : e.uid = scenario.uid[n] => e.id \in own
      /\ Assigned(scenario.commands) \subseteq given
  BY DEF Owned, Given
<1>3. UNCHANGED <<scenario, server>> /\ node[n].up /\ (out # <<>> => left.delays > 0)
  BY DEF Pass
<1>4. PICK o \in Then(received, LAMBDA t, e : Tasks(n, t, e)) :
         /\ node' = [node EXCEPT ![n] = o.s]
         /\ disk' = [disk EXCEPT ![n] = o.d]
         /\ txq' = [txq EXCEPT ![n] = IF o.s.up THEN @ \o o.out ELSE <<>>]
         /\ inbox' = [inbox EXCEPT ![n] = IF @ = <<>> \/ ~o.s.up THEN <<>> ELSE Tail(@)]
         /\ left' = [left EXCEPT !.faults = @ - o.faults,
                                 !.delays = IF txq[n] = <<>> THEN @ ELSE @ - 1]
  BY DEF Pass
<1>5. BudgetOK' /\ left'.delays <= left.delays
  <2>0. scenario.left.delays \in Nat
    BY <1>1, EscAssumption DEF IsScenario
  <2>1. left.delays \in 0 .. scenario.left.delays /\ scenario.left.delays \in Nat
    BY <2>0 DEF FileInv, BudgetOK
  <2>2. left'.delays = IF out = <<>> THEN left.delays ELSE left.delays - 1
    BY <1>4 DEF FileInv, BudgetOK
  <2>3. left'.delays \in 0 .. scenario.left.delays /\ left'.delays <= left.delays
    BY <1>3, <2>1, <2>2, OneLess
  <2>4. left' = [x \in DOMAIN left' |-> left'[x]] /\ "delays" \in DOMAIN left'
    BY <1>4 DEF FileInv, BudgetOK
  <2> QED
    BY <1>3, <2>3, <2>4 DEF BudgetOK
<1>6. /\ UpdateOK(node[n].fw, disk[n].firmware, P, images, Used)
      /\ ItemsType(P) /\ Used \in Nat /\ Used < TidMod
      /\ Used' \in Nat /\ Used' < TidMod /\ Used <= Used'
  <2>1. UpdateOK(node[n].fw, disk[n].firmware, P, images, Used)
    BY <1>3 DEF FileInv, FileOK
  <2>2. ItemsType(P)
    BY StateTypes
  <2>3. Used \in Nat /\ Used < TidMod
    BY <1>1, UsedBounds DEF FileInv
  <2>4. Used' \in Nat /\ Used' < TidMod /\ Used <= Used'
    <3>1. scenario.left.delays \in Nat /\ TidMod \in Nat
      BY <1>1, EscAssumption DEF IsScenario
    <3>2. /\ left.delays \in 0 .. scenario.left.delays /\ left'.delays \in 0 .. scenario.left.delays
          /\ scenario.left.delays < TidMod /\ left'.delays <= left.delays
      BY <1>3, <1>5 DEF BudgetOK, FewDelays, FileInv
    <3>4. Used = scenario.left.delays - left.delays /\ Used' = scenario.left.delays - left'.delays
      BY <1>3 DEF Used
    <3> QED
      BY <3>1, <3>2, <3>4, MoreUsed
  <2> QED
    BY <2>1, <2>2, <2>3, <2>4
<1>7. PICK S, T, U : in \in Seq(S) /\ server \in Seq(T) /\ out \in Seq(U)
  BY <1>1 DEF InOK, OutOK, EscInv
<1>8. in2 \in Seq(S)
  <2> HIDE DEF in
  <2> QED
    BY <1>7, Rest DEF in2
<1>9. Q = P \/ in # <<>>
  OBVIOUS
<1>10. in # <<>> => Received(Head(in), table, commands)
  BY <1>1, InTail
<1> DEFINE used == Used
           more == Used'
<1>11. \A q \in received : /\ OutcomeOK(n, q, given, own) /\ NoReads(q.out)
                           /\ UpdateOK(q.s.fw, q.d.firmware, Q, images, used)
  <2>1. CASE in = <<>>
    <3>1. OutcomeOK(n, Outcome(node[n], disk[n], <<>>), given, own)
      BY <1>1, OutNothing, OutcomeIs
    <3>2. NoReads(<<>>)
      BY NothingSent
    <3>3. received = {Outcome(node[n], disk[n], <<>>)} /\ Q = P
      BY <2>1
    <3> DEFINE o0 == Outcome(node[n], disk[n], <<>>)
    <3>4. o0.s = node[n] /\ o0.d = disk[n] /\ o0.out = <<>>
      BY DEF Outcome
    <3> HIDE DEF received, Q, P, given, own, used, images, o0
    <3>5. UpdateOK(o0.s.fw, o0.d.firmware, Q, images, used)
      BY <1>6, <3>3, <3>4 DEF used
    <3> QED
      BY <3>1, <3>2, <3>3, <3>4, <3>5 DEF o0
  <2>2. CASE in # <<>>
    <3>1. Q = Items(n, Tail(in), server, out) /\ received = onTransferReceived(n, node[n], disk[n], Head(in))
      BY <2>2
    <3> SUFFICES ASSUME NEW q \in received
                 PROVE  /\ OutcomeOK(n, q, given, own) /\ NoReads(q.out)
                        /\ UpdateOK(q.s.fw, q.d.firmware, Q, images, used)
      OBVIOUS
    <3> HIDE DEF own, given, table, received, Q, in, out
    <3>2. OutcomeOK(n, q, given, own)
      BY <1>1, <1>2, <1>10, <2>2, <3>1, TransferHandled DEF commands
    <3>3. NoReads(q.out)
      BY <1>1, <1>6, <1>7, <1>10, <2>2, <3>1, TransferUpdate DEF commands
    <3>4. UpdateOK(q.s.fw, q.d.firmware, Items(n, Tail(in), server, out), scenario.images, Used)
      BY <1>1, <1>6, <1>7, <1>10, <2>2, <3>1, TransferUpdate DEF commands
    <3> QED
      BY <3>1, <3>2, <3>3, <3>4
  <2> QED
    BY <2>1, <2>2
<1>12. ItemsType(Q)
  <2>1. InOK(in2, table, commands)
    BY <1>1, InTail, InNothing
  <2> HIDE DEF in2
  <2> QED
    BY <1>1, <2>1, ItemsTyped DEF EscInv
<1> DEFINE sent == out \o o.out
<1>13. UpdateOK(o.s.fw, o.d.firmware, Items(n, in2, server, sent), images, used) /\ FwType(o.s.fw)
  <2> HIDE DEF own, given, received, in2, out, images, used
  <2>1. UpdateOK(o.s.fw, o.d.firmware, Items(n, in2, server, sent), images, used)
    <3>1. used \in Nat /\ used < TidMod
      BY <1>6 DEF used
    <3> QED
      BY <1>1, <1>4, <1>7, <1>8, <1>11, <1>12, <3>1, TurnUpdate
  <2>2. OutcomeOK(n, o, given, own)
    BY <1>1, <1>4, <1>11, TurnDone
  <2> QED
    BY <2>1, <2>2 DEF OutcomeOK, NodeOK
<1>14. ItemsType(Items(n, in2, server, sent))
  <2>1. InOK(in2, table, commands)
    BY <1>1, InTail, InNothing
  <2>2. OutOK(n, sent)
    <3> HIDE DEF own, given, received, out
    <3>1. OutcomeOK(n, o, given, own)
      BY <1>1, <1>4, <1>11, TurnDone
    <3> QED
      BY <1>1, <3>1, OutConcat DEF OutcomeOK
  <2> HIDE DEF in2, sent
  <2> QED
    BY <1>1, <2>1, <2>2, ItemsTyped DEF EscInv
<1>15. UpdateOK(o.s.fw, o.d.firmware, Items(n, in2, server, sent), images, more)
  <2> HIDE DEF in2, sent, out, images, used, more
  <2> DEFINE R == Items(n, in2, server, sent)
  <2> HIDE DEF R
  <2>1. UpdateOK(o.s.fw, o.d.firmware, R, images, used) /\ ItemsType(R) /\ o.s.fw.tid \in Tid
        /\ R \subseteq R
    BY <1>13, <1>14 DEF R, FwType
  <2>2. UpdateOK(o.s.fw, o.d.firmware, R, images, more)
    BY <1>6, <2>1, FewerKeep DEF used, more
  <2> QED
    BY <2>2 DEF R
<1>16. /\ node'[n] = o.s /\ disk'[n] = o.d
       /\ txq'[n] = IF o.s.up THEN sent ELSE <<>>
       /\ inbox'[n] = IF in = <<>> \/ ~o.s.up THEN <<>> ELSE Tail(in)
       /\ \A k \in Nodes \ {n} : /\ node'[k] = node[k] /\ disk'[k] = disk[k]
                                 /\ txq'[k] = txq[k] /\ inbox'[k] = inbox[k]
  BY <1>4 DEF EscInv
<1>17. FileOK(n)'
  <2>1. o.s.up => txq'[n] = sent /\ inbox'[n] = in2
    BY <1>16
  <2>2. ~o.s.up => txq'[n] = <<>> /\ inbox'[n] = <<>>
    BY <1>16
  <2> HIDE DEF in, in2, sent
  <2> QED
    BY <1>3, <1>15, <1>16, <2>1, <2>2 DEF FileOK
<1>18. ASSUME NEW k \in Nodes \ {n}
       PROVE  FileOK(k)'
  <2> DEFINE R == Items(k, inbox[k], server, txq[k])
  <2>1. \E f : Moves(f, R, R, scenario.images)
    BY Fewer
  <2>2. Items(k, inbox'[k], server', txq'[k]) \subseteq R
    BY <1>3, <1>16
  <2> HIDE DEF R
  <2> QED
    BY <1>3, <1>5, <1>16, <2>1, <2>2, FileKept DEF R
<1> QED
  BY <1>5, <1>17, <1>18 DEF FileInv
LEMMA Same ==
    ASSUME NEW P, NEW images
    PROVE  \E f : Moves(f, P, P, images)
BY Fewer

LEMMA TransmitFile ==
    ASSUME EscInv, FileInv, NEW n \in Nodes, Transmit(n)
    PROVE  FileInv'
<1> DEFINE m == Head(txq[n])
<1>1. /\ txq[n] # <<>> /\ txq' = [txq EXCEPT ![n] = Tail(@)]
      /\ UNCHANGED <<scenario, node, disk>>
      /\ \/ Sent(n, m) /\ UNCHANGED left
         \/ /\ left' = [left EXCEPT !.losses = @ - 1]
            /\ UNCHANGED <<inbox, server>>
  BY DEF Transmit
<1>2. SentOK(n, m)
  BY <1>1, OutTail DEF EscInv
<1>3. BudgetOK' /\ left'.delays = left.delays
  BY <1>1, BudgetKept DEF FileInv
<1>4. /\ txq'[n] = Tail(txq[n]) /\ node[n].up
      /\ \A k \in Nodes \ {n} : txq'[k] = txq[k]
  BY <1>1 DEF EscInv, FileInv, FileOK
<1>5. \A k \in Nodes : \/ inbox'[k] = inbox[k]
                       \/ m.kind = "request ID" /\ node[k].up /\ inbox'[k] = Append(inbox[k], m)
  BY <1>1 DEF Sent, Hears, EscInv
<1>6. server' = server \/ (m \in Read /\ m.from = n /\ server' = Append(server, m))
  BY <1>1, <1>2 DEF Sent, SentOK
<1>7. ASSUME NEW k \in Nodes
      PROVE  FileOK(k)'
  <2>1. PICK S, U : inbox[k] \in Seq(S) /\ txq[k] \in Seq(U)
    BY DEF EscInv, InOK, OutOK
  <2>2. server \in Seq(Read)
    BY DEF EscInv
  <2> DEFINE P == Items(k, inbox[k], server, txq[k])
             images == scenario.images
             R == Items(k, inbox[k], server', txq'[k])
  <2>3. Items(k, inbox'[k], server', txq'[k]) \subseteq R
    <3>1. CASE inbox'[k] = inbox[k]
      BY <3>1
    <3>2. CASE m.kind = "request ID" /\ inbox'[k] = Append(inbox[k], m)
      <4>1. m.kind \notin {"chunk", "begin"}
        BY <3>2
      <4> HIDE DEF m
      <4> QED
        BY <2>1, <3>2, <4>1, OthersInbox
    <3> QED
      BY <1>5, <3>1, <3>2
  <2>4. \E f : Moves(f, R, P, images)
    <3> HIDE DEF images
    <3>1. CASE k = n /\ server' = server
      <4>1. txq[k] # <<>> /\ R = Items(k, inbox[k], server, Tail(txq[k]))
        BY <1>1, <1>4, <3>1
      <4> HIDE DEF R
      <4> QED
        BY <2>1, <2>2, <4>1, QueueMoves
    <3>2. CASE k = n /\ m \in Read /\ m.from = n /\ server' = Append(server, m)
      <4>1. txq[k] # <<>> /\ R = Items(k, inbox[k], Append(server, Head(txq[k])), Tail(txq[k]))
            /\ Head(txq[k]) \in Read
        BY <1>1, <1>4, <3>2
      <4> HIDE DEF R
      <4> QED
        BY <2>1, <2>2, <4>1, ReadMoves
    <3>3. CASE k # n
      <4>1. R \subseteq P
        <5>1. txq'[k] = txq[k]
          BY <1>4, <3>3
        <5>2. CASE server' = server
          BY <5>1, <5>2
        <5>3. CASE m.from = n /\ server' = Append(server, m)
          <6>1. m.from # k
            BY <3>3, <5>3
          <6> HIDE DEF m
          <6> QED
            BY <2>2, <5>1, <5>3, <6>1, OthersReads
        <5> QED
          BY <1>6, <5>2, <5>3
      <4> HIDE DEF R, P
      <4> QED
        BY <4>1, Fewer
    <3> QED
      BY <1>6, <3>1, <3>2, <3>3
  <2>5. ~node[k].up => inbox'[k] = inbox[k] /\ txq'[k] = txq[k]
    BY <1>4, <1>5
  <2>6. node' = node /\ disk' = disk /\ scenario' = scenario /\ left'.delays <= left.delays
    <3>1. left.delays \in Nat
      BY DEF FileInv, BudgetOK
    <3> QED
      BY <1>1, <1>3, <3>1
  <2> HIDE DEF R
  <2> QED
    BY <1>3, <2>3, <2>4, <2>5, <2>6, FileKept
<1> QED
  BY <1>3, <1>7 DEF FileInv
LEMMA BootFile ==
    ASSUME EscInv, FileInv, NEW n \in Nodes, Boot(n)
    PROVE  FileInv'
<1>1. /\ ~node[n].up /\ node' = [node EXCEPT ![n] = Started(disk[n])]
      /\ UNCHANGED <<scenario, left, disk, txq, inbox, allocator, server>>
  BY DEF Boot
<1>2. BudgetOK' /\ left'.delays = left.delays
  BY <1>1, BudgetKept DEF FileInv
<1>3. FileOK(n)'
  <2>1. inbox'[n] = <<>> /\ txq'[n] = <<>>
    BY <1>1 DEF FileInv, FileOK
  <2>2. node'[n] = Started(disk[n])
    BY <1>1 DEF EscInv
  <2>3. Started(disk[n]).fw = Fresh(disk[n]).fw
    BY DEF Started, canardSetLocalNodeID, Fresh
  <2>4. node'[n].fw.node = 0 /\ node'[n].fw.asked = <<>>
    BY <2>2, <2>3 DEF Fresh
  <2> QED
    BY <2>1, <2>4, BootStep, FileFresh
<1>4. ASSUME NEW k \in Nodes \ {n}
      PROVE  FileOK(k)'
  <2>1. /\ node'[k] = node[k] /\ disk' = disk /\ inbox' = inbox /\ txq' = txq /\ server' = server
        /\ scenario' = scenario /\ left'.delays <= left.delays
    <3>1. left.delays \in Nat
      BY DEF FileInv, BudgetOK
    <3> QED
      BY <1>1, <1>2, <3>1 DEF EscInv
  <2> QED
    BY <1>2, <2>1, Same, FileKept
<1> QED
  BY <1>2, <1>3, <1>4 DEF FileInv

LEMMA CrashFile ==
    ASSUME EscInv, FileInv, NEW n \in Nodes, Crash(n)
    PROVE  FileInv'
<1>1. /\ node' = [node EXCEPT ![n].up = FALSE]
      /\ txq' = [txq EXCEPT ![n] = <<>>] /\ inbox' = [inbox EXCEPT ![n] = <<>>]
      /\ left' = [left EXCEPT !.faults = @ - 1]
      /\ UNCHANGED <<scenario, disk, server>>
  BY DEF Crash
<1>2. BudgetOK' /\ left'.delays = left.delays
  BY <1>1, BudgetKept DEF FileInv
<1>3. FileOK(n)'
  <2>1. inbox'[n] = <<>> /\ txq'[n] = <<>> /\ ~node'[n].up
    BY <1>1 DEF EscInv, NodeOK
  <2> QED
    BY <2>1, CrashStep, FileFresh
<1>4. ASSUME NEW k \in Nodes \ {n}
      PROVE  FileOK(k)'
  <2>1. /\ node'[k] = node[k] /\ disk' = disk /\ inbox'[k] = inbox[k] /\ txq'[k] = txq[k] /\ server' = server
        /\ scenario' = scenario /\ left'.delays <= left.delays
    <3>1. left.delays \in Nat
      BY DEF FileInv, BudgetOK
    <3> QED
      BY <1>1, <1>2, <3>1 DEF EscInv
  <2> QED
    BY <1>2, <2>1, Same, FileKept
<1> QED
  BY <1>2, <1>3, <1>4 DEF FileInv

LEMMA LoseFile ==
    ASSUME EscInv, FileInv, NEW n \in Nodes, Lose(n)
    PROVE  FileInv'
<1>1. /\ inbox[n] # <<>> /\ inbox' = [inbox EXCEPT ![n] = Tail(@)]
      /\ left' = [left EXCEPT !.losses = @ - 1]
      /\ UNCHANGED <<scenario, node, disk, txq, server>>
  BY DEF Lose
<1>2. BudgetOK' /\ left'.delays = left.delays
  BY <1>1, BudgetKept DEF FileInv
<1>3. ASSUME NEW k \in Nodes
      PROVE  FileOK(k)'
  <2> DEFINE P == Items(k, inbox[k], server, txq[k])
             R == Items(k, inbox'[k], server, txq[k])
             images == scenario.images
  <2>1. PICK S, U : inbox[k] \in Seq(S) /\ txq[k] \in Seq(U)
    BY DEF EscInv, InOK, OutOK
  <2>2. server \in Seq(Read)
    BY DEF EscInv
  <2>3. \E f : Moves(f, R, P, images)
    <3>1. CASE k = n
      <4>1. inbox'[k] = Tail(inbox[k]) /\ inbox[k] # <<>>
        BY <1>1, <3>1 DEF EscInv
      <4>2. R = Items(k, Tail(inbox[k]), server, txq[k])
        BY <4>1
      <4> HIDE DEF R, images
      <4> QED
        BY <2>1, <2>2, <4>1, <4>2, InboxMoves
    <3>2. CASE k # n
      <4>1. R = P
        BY <1>1, <3>2 DEF EscInv
      <4> QED
        BY <4>1, Same
    <3> QED
      BY <3>1, <3>2
  <2>4. ~node[k].up => inbox'[k] = inbox[k] /\ txq'[k] = txq[k]
    BY <1>1 DEF EscInv, FileInv, FileOK
  <2>5. /\ node' = node /\ disk' = disk /\ txq' = txq /\ server' = server
        /\ scenario' = scenario /\ left'.delays <= left.delays
    <3>1. left.delays \in Nat
      BY DEF FileInv, BudgetOK
    <3> QED
      BY <1>1, <1>2, <3>1
  <2>6. Items(k, inbox'[k], server', txq'[k]) \subseteq R
    BY <2>5
  <2> HIDE DEF R
  <2> QED
    BY <1>2, <2>3, <2>4, <2>5, <2>6, FileKept
<1> QED
  BY <1>2, <1>3 DEF FileInv

LEMMA AllocateFile ==
    ASSUME EscInv, FileInv, Allocate
    PROVE  FileInv'
<1>1. /\ UNCHANGED <<scenario, left, node, disk, txq, server>>
      /\ \/ inbox' = inbox
         \/ \E m : m.kind = "allocation" /\ inbox' = ToAll(m)
  BY DEF Allocate
<1>2. BudgetOK' /\ left'.delays = left.delays
  BY <1>1, BudgetKept DEF FileInv
<1>3. \A k \in Nodes :
         \/ inbox'[k] = inbox[k]
         \/ \E m : m.kind = "allocation" /\ node[k].up /\ inbox'[k] = Append(inbox[k], m)
  BY <1>1 DEF ToAll
<1>4. ASSUME NEW k \in Nodes
      PROVE  FileOK(k)'
  <2> DEFINE P == Items(k, inbox[k], server, txq[k])
  <2>1. Items(k, inbox'[k], server, txq[k]) \subseteq P
    <3>1. CASE inbox'[k] = inbox[k]
      BY <3>1
    <3>2. CASE \E m : m.kind = "allocation" /\ inbox'[k] = Append(inbox[k], m)
      <4>1. PICK m : m.kind = "allocation" /\ inbox'[k] = Append(inbox[k], m)
        BY <3>2
      <4>2. PICK S : inbox[k] \in Seq(S)
        BY DEF EscInv, InOK
      <4>3. m.kind \notin {"chunk", "begin"}
        BY <4>1
      <4> QED
        BY <4>1, <4>2, <4>3, OthersInbox
    <3> QED
      BY <1>3, <3>1, <3>2
  <2>2. /\ node' = node /\ disk' = disk /\ txq' = txq /\ server' = server
        /\ scenario' = scenario /\ left'.delays <= left.delays
    <3>1. left.delays \in Nat
      BY DEF FileInv, BudgetOK
    <3> QED
      BY <1>1, <1>2, <3>1
  <2>3. \E f : Moves(f, P, P, scenario.images)
    BY Same
  <2>4. Items(k, inbox'[k], server', txq'[k]) \subseteq P
    BY <2>1, <2>2
  <2>5. ~node[k].up => inbox'[k] = inbox[k] /\ txq'[k] = txq[k]
    BY <1>3, <2>2
  <2> HIDE DEF P
  <2> QED
    BY <1>2, <2>2, <2>3, <2>4, <2>5, FileKept DEF P
<1> QED
  BY <1>2, <1>4 DEF FileInv
LEMMA ServeFile ==
    ASSUME EscInv, FileInv, Serve
    PROVE  FileInv'
<1> DEFINE m == Head(server)
           images == scenario.images
           answer == AnswerTo(images, m.path, m.offset, m.tid)
<1>1. /\ server # <<>> /\ server' = Tail(server)
      /\ inbox' = IF node[m.from].up THEN [inbox EXCEPT ![m.from] = Append(@, answer)] ELSE inbox
      /\ UNCHANGED <<scenario, left, node, disk, txq>>
  BY DEF Serve, AnswerTo
<1>2. BudgetOK' /\ left'.delays = left.delays
  BY <1>1, BudgetKept DEF FileInv
<1>3. server \in Seq(Read)
  BY DEF EscInv
<1>5. /\ node' = node /\ disk' = disk /\ txq' = txq
      /\ scenario' = scenario /\ left'.delays <= left.delays
  <2>1. left.delays \in Nat
    BY DEF FileInv, BudgetOK
  <2> QED
    BY <1>1, <1>2, <2>1
<1>6. \A k \in Nodes : inbox'[k] = IF node[k].up /\ k = m.from THEN Append(inbox[k], answer) ELSE inbox[k]
  BY <1>1 DEF EscInv
<1> HIDE DEF answer
<1>4. ASSUME NEW k \in Nodes, node[k].up
      PROVE  FileOK(k)'
  <2> DEFINE P == Items(k, inbox[k], server, txq[k])
             R == Items(k, inbox'[k], server', txq'[k])
  <2>1. PICK S, U : inbox[k] \in Seq(S) /\ txq[k] \in Seq(U)
    BY DEF EscInv, InOK, OutOK
  <2>2. \E f : Moves(f, R, P, images)
    <3>1. CASE m.from = k
      <4>1. R = Items(k, Append(inbox[k], answer), Tail(server), txq[k])
        BY <1>1, <1>4, <1>6, <3>1
      <4>2. answer = AnswerTo(images, Head(server).path, Head(server).offset, Head(server).tid)
            /\ Head(server).from = k
        BY <3>1 DEF answer
      <4> HIDE DEF R, images, m
      <4> QED
        BY <1>1, <1>3, <2>1, <4>1, <4>2, AnswerMoves
    <3>2. CASE m.from # k
      <4>1. R = Items(k, inbox[k], Tail(server), txq[k])
        BY <1>1, <1>6, <3>2
      <4> HIDE DEF R, images
      <4> QED
        BY <1>1, <1>3, <2>1, <3>2, <4>1, ServerMoves
    <3> QED
      BY <3>1, <3>2
  <2>3. R \subseteq R
    OBVIOUS
  <2> HIDE DEF R
  <2> QED
    BY <1>2, <1>4, <1>5, <2>2, <2>3, FileKept DEF R
<1>7. ASSUME NEW k \in Nodes, ~node[k].up
      PROVE  FileOK(k)'
  <2>1. inbox'[k] = <<>> /\ txq'[k] = <<>> /\ ~node'[k].up
    BY <1>5, <1>6, <1>7 DEF FileInv, FileOK
  <2> QED
    BY <2>1, ServeStep, FileFresh
<1> QED
  BY <1>2, <1>4, <1>7 DEF FileInv

LEMMA OperateFile ==
    ASSUME EscInv, FileInv, NEW n \in Nodes, Operate(n)
    PROVE  FileInv'
<1>1. PICK m \in scenario.commands : Allowed(n, m) /\ inbox' = [inbox EXCEPT ![n] = Append(@, m)]
  BY DEF Operate
<1>2. /\ node[n].up /\ left' = [left EXCEPT !.commands = @ - 1]
      /\ UNCHANGED <<scenario, node, disk, txq, server>>
  BY DEF Operate
<1>3. BudgetOK' /\ left'.delays = left.delays
  BY <1>2, BudgetKept DEF FileInv
<1>4. /\ node' = node /\ disk' = disk /\ txq' = txq /\ server' = server
      /\ scenario' = scenario /\ left'.delays <= left.delays
  <2>1. left.delays \in Nat
    BY DEF FileInv, BudgetOK
  <2> QED
    BY <1>2, <1>3, <2>1
<1>5. inbox'[n] = Append(inbox[n], m) /\ \A k \in Nodes \ {n} : inbox'[k] = inbox[k]
  BY <1>1 DEF EscInv
<1>6. m.kind \in Commands /\ (m.kind = "begin" => m.path # <<>>)
  <2>1. IsScenario(scenario)
    BY EscAssumption DEF EscInv
  <2> QED
    BY <2>1 DEF IsScenario
<1>7. PICK S : inbox[n] \in Seq(S)
  BY DEF EscInv, InOK
<1>8. CASE m.kind # "begin"
  <2>1. m.kind \notin {"chunk", "begin"}
    BY <1>6, <1>8 DEF Commands
  <2>2. ASSUME NEW k \in Nodes
        PROVE  FileOK(k)'
    <3> DEFINE P == Items(k, inbox[k], server, txq[k])
    <3>1. Items(k, inbox'[k], server', txq'[k]) \subseteq P
      <4>1. CASE k = n
        BY <1>4, <1>5, <1>7, <2>1, <4>1, OthersInbox
      <4>2. CASE k # n
        BY <1>4, <1>5, <4>2
      <4> QED
        BY <4>1, <4>2
    <3>2. \E f : Moves(f, P, P, scenario.images)
      BY Same
    <3>3. ~node[k].up => inbox'[k] = inbox[k] /\ txq'[k] = txq[k]
      BY <1>2, <1>5
    <3> HIDE DEF P
    <3> QED
      BY <1>3, <1>4, <3>1, <3>2, <3>3, FileKept DEF P
  <2> QED
    BY <1>3, <2>2 DEF FileInv
<1>9. CASE m.kind = "begin"
  <2>1. Begins(n) \subseteq {m.path} /\ (m.path = node[n].fw.asked \/ (node[n].fw.node = 0 /\ server = <<>>))
    BY <1>1, <1>9 DEF Allowed
  <2> DEFINE P == Items(n, inbox[n], server, txq[n])
             Q == Items(n, inbox'[n], server, txq[n])
             L == Len(inbox[n])
             new == <<1, L + 1, m>>
             fw == node[n].fw
  <2>2. /\ L \in Nat /\ DOMAIN inbox[n] = 1 .. L /\ DOMAIN inbox'[n] = 1 .. L + 1
        /\ \A i \in 1 .. L : inbox'[n][i] = inbox[n][i]
        /\ inbox'[n][L + 1] = m
    <3> DEFINE q == inbox[n]
    <3> HIDE DEF q
    <3>1. q \in Seq(S \cup {m})
      BY <1>7 DEF q
    <3>2. /\ Len(q) \in Nat /\ DOMAIN q = 1 .. Len(q) /\ DOMAIN Append(q, m) = 1 .. Len(q) + 1
          /\ \A i \in 1 .. Len(q) : Append(q, m)[i] = q[i]
          /\ Append(q, m)[Len(q) + 1] = m
      BY <3>1
    <3> QED
      BY <1>5, <3>2 DEF q
  <2>3. Q \subseteq P \cup {new}
    <3> HIDE DEF L
    <3>1. \A i \in 1 .. L + 1 : i \in 1 .. L \/ i = L + 1
      BY <2>2
    <3>2. \A i \in DOMAIN inbox'[n] :
             inbox'[n][i].kind \in {"chunk", "begin"} => <<1, i, inbox'[n][i]>> \in P \cup {new}
      BY <2>2, <3>1 DEF Items
    <3> QED
      BY <3>2 DEF Items
  <2>4. /\ IsOrder(new) /\ new[3].path = m.path /\ new[1] = 1 /\ new[2] = L + 1
    BY <1>9 DEF IsOrder
  <2>5. server \in Seq(Read) /\ OutOK(n, txq[n])
    BY DEF EscInv
  <2>6. \A b \in P : IsOrder(b) => b[3].path = m.path
    <3> TAKE b \in P
    <3> HAVE IsOrder(b)
    <3>1. CASE \E i \in DOMAIN inbox[n] : inbox[n][i].kind \in {"chunk", "begin"} /\ b = <<1, i, inbox[n][i]>>
      <4>1. PICK i \in DOMAIN inbox[n] : b = <<1, i, inbox[n][i]>>
        BY <3>1
      <4>2. inbox[n][i].kind = "begin" /\ b[3].path = inbox[n][i].path
        BY <4>1 DEF IsOrder
      <4>3. inbox[n][i].path \in Begins(n)
        BY <4>2 DEF Begins
      <4> QED
        BY <2>1, <4>2, <4>3
    <3>2. CASE \E i \in DOMAIN server : server[i].from = n /\ b = <<2, i, server[i]>>
      <4>1. PICK i \in DOMAIN server : b = <<2, i, server[i]>>
        BY <3>2
      <4>2. \A j \in DOMAIN server : server[j] \in Read
        BY <2>5
      <4>3. server[i].kind = "read" /\ b[3] = server[i]
        BY <4>1, <4>2 DEF Read
      <4> QED
        BY <4>3 DEF IsOrder
    <3>3. CASE \E i \in DOMAIN txq[n] : txq[n][i].kind = "read" /\ b = <<3, i, txq[n][i]>>
      BY <3>3 DEF IsOrder
    <3> QED
      BY <3>1, <3>2, <3>3, ItemIs
  <2>7. server = <<>> => \A a \in P : a[1] # 3 => Sooner(a, new)
    <3> SUFFICES ASSUME server = <<>>, NEW a \in P, a[1] # 3
                 PROVE  Sooner(a, new)
      OBVIOUS
    <3>1. DOMAIN server = {}
      OBVIOUS
    <3>2. a[1] = 1 /\ a[2] \in 1 .. L
      BY <2>2, <3>1, ItemIs
    <3>3. a[2] < L + 1
      BY <2>2, <3>2
    <3> QED
      BY <2>4, <3>2, <3>3 DEF Sooner
  <2>8. UpdateOK(fw, disk[n].firmware, P, scenario.images, Used)
    BY <1>2 DEF FileInv, FileOK
  <2>9. UpdateOK(fw, disk[n].firmware, Q, scenario.images, Used)
    <3> HIDE DEF P, Q, new, fw
    <3>1. new[3].path # <<>>
      BY <1>6, <1>9, <2>4
    <3>2. \/ new[3].path = fw.asked
          \/ fw.node = 0 /\ \A a \in P : ~IsOrder(a) /\ a[1] # 3 => Sooner(a, new)
      BY <2>1, <2>4, <2>7 DEF fw
    <3> QED
      BY <2>3, <2>4, <2>6, <2>8, <3>1, <3>2, OrderComes
  <2>10. FileOK(n)'
    <3>1. Used' = Used
      BY <1>3, <1>4 DEF Used
    <3> HIDE DEF P
    <3> QED
      BY <1>2, <1>4, <2>9, <3>1 DEF FileOK
  <2>11. ASSUME NEW k \in Nodes \ {n}
         PROVE  FileOK(k)'
    <3>1. inbox'[k] = inbox[k]
      BY <1>5
    <3> QED
      BY <1>3, <1>4, <3>1, Same, FileKept
  <2> QED
    BY <1>3, <2>10, <2>11 DEF FileInv
<1> QED
  BY <1>8, <1>9

LEMMA TickFile ==
    ASSUME EscInv, FileInv, FewDelays, Tick
    PROVE  FileInv'
<1>1. /\ Quiet /\ (server # <<>> => left.delays > 0)
      /\ left' = IF server # <<>> THEN [left EXCEPT !.delays = @ - 1] ELSE left
      /\ node' = [n \in Nodes |-> [node[n] EXCEPT !.wait = IF node[n].id = 0 THEN Down(@) ELSE 0,
                                                  !.fw.wait = Down(@)]]
      /\ UNCHANGED <<scenario, disk, txq, inbox, server>>
  BY DEF Tick
<1>2. scenario.left.delays \in Nat /\ TidMod \in Nat
  BY EscAssumption DEF EscInv, IsScenario
<1>3. left.delays \in 0 .. scenario.left.delays
  BY DEF FileInv, BudgetOK
<1>4. left'.delays = IF server # <<>> THEN left.delays - 1 ELSE left.delays
  BY <1>1 DEF FileInv, BudgetOK
<1>5. left'.delays \in 0 .. scenario.left.delays /\ left'.delays <= left.delays
  BY <1>1, <1>2, <1>3, <1>4, OneLess
<1>6. BudgetOK'
  <2>1. left' = [x \in DOMAIN left' |-> left'[x]] /\ "delays" \in DOMAIN left'
    BY <1>1 DEF FileInv, BudgetOK
  <2> QED
    BY <1>1, <1>5, <2>1 DEF BudgetOK
<1>7. Used \in Nat /\ Used' \in Nat /\ Used <= Used' /\ (server # <<>> => Used + 1 <= Used')
  <2>1. Used = scenario.left.delays - left.delays /\ Used' = scenario.left.delays - left'.delays
    BY <1>1 DEF Used
  <2> QED
    BY <1>2, <1>3, <1>4, <1>5, <2>1
<1>8. ASSUME NEW n \in Nodes
      PROVE  FileOK(n)'
  <2> DEFINE P == Items(n, inbox[n], server, txq[n])
             fw == node[n].fw
             wait == Down(fw.wait)
             used == Used
             more == Used'
             firmware == disk[n].firmware
             images == scenario.images
  <2>1. node[n].up /\ inbox[n] = <<>> /\ txq[n] = <<>>
    BY <1>1 DEF Quiet
  <2>2. P = {} \/ used + 1 <= more
    <3>1. CASE server = <<>>
      <4>1. DOMAIN <<>> = {}
        OBVIOUS
      <4> QED
        BY <2>1, <3>1, <4>1 DEF Items
    <3>2. CASE server # <<>>
      BY <1>7, <3>2
    <3> QED
      BY <3>1, <3>2
  <2>3. UpdateOK(fw, firmware, P, images, used)
    BY <2>1 DEF FileInv, FileOK
  <2>4. FwType(fw) /\ ItemsType(P)
    BY StateTypes
  <2>5. used \in Nat /\ more \in Nat /\ used <= more
    BY <1>7
  <2>6. node'[n].fw = [fw EXCEPT !.wait = wait] /\ node'[n].up
    <3>1. node'[n] = [node[n] EXCEPT !.wait = IF node[n].id = 0 THEN Down(@) ELSE 0, !.fw.wait = Down(@)]
      BY <1>1
    <3> QED
      BY <2>1, <3>1, NodeFields
  <2> HIDE DEF P, fw, wait, used, more, firmware, images
  <2>7. UpdateOK([fw EXCEPT !.wait = wait], firmware, P, images, more)
    BY <2>2, <2>3, <2>4, <2>5, TimerChanges
  <2> QED
    BY <1>1, <2>6, <2>7 DEF FileOK, P, more, firmware, images
<1> QED
  BY <1>6, <1>8 DEF FileInv

LEMMA SecondFile ==
    ASSUME EscInv, FileInv, Second
    PROVE  FileInv'
<1>1. /\ node' = [n \in Nodes |-> [node[n] EXCEPT !.late.status = @ + 1, !.late.telemetry = @ + 1]]
  BY DEF Second
<1>4. /\ left' = [left EXCEPT !.seconds = @ - 1]
      /\ UNCHANGED <<scenario, disk, txq, inbox, server>>
  BY DEF Second
<1>2. BudgetOK' /\ left'.delays = left.delays
  BY <1>4, BudgetKept DEF FileInv
<1>3. ASSUME NEW k \in Nodes
      PROVE  FileOK(k)'
  <2>1. node'[k].fw = node[k].fw /\ node'[k].up = node[k].up
    <3>1. node'[k] = [node[k] EXCEPT !.late.status = @ + 1, !.late.telemetry = @ + 1]
      BY <1>1
    <3> QED
      BY <3>1, NodeFields
  <2>2. /\ disk' = disk /\ inbox' = inbox /\ txq' = txq /\ server' = server
        /\ scenario' = scenario /\ left'.delays <= left.delays
    <3>1. left.delays \in Nat
      BY DEF FileInv, BudgetOK
    <3> QED
      BY <1>2, <1>4, <3>1
  <2> QED
    BY <1>2, <2>1, <2>2, Same, FileKept
<1> QED
  BY <1>2, <1>3 DEF FileInv
LEMMA InitFile ==
    ASSUME EscInit
    PROVE  FileInv
<1>1. scenario \in Scenarios /\ IsScenario(scenario) /\ left = scenario.left
  BY EscAssumption DEF EscInit
<1>2. BudgetOK
  <2>1. left \in [{"losses", "delays", "commands", "seconds", "faults"} -> Nat]
    BY <1>1 DEF IsScenario
  <2>2. \A x \in Nat : x \in 0 .. x
    OBVIOUS
  <2> QED
    BY <1>1, <2>1, <2>2 DEF BudgetOK
<1>3. ASSUME NEW n \in Nodes
      PROVE  FileOK(n)
  <2> DEFINE Q == Items(n, inbox[n], server, txq[n])
  <2>1. inbox[n] = <<>> /\ txq[n] = <<>> /\ server = <<>> /\ node[n] = Started(disk[n])
    BY DEF EscInit
  <2>2. Q = {}
    <3>1. DOMAIN <<>> = {}
      OBVIOUS
    <3> QED
      BY <2>1, <3>1 DEF Items
  <2>3. node[n].fw.node = 0 /\ node[n].fw.asked = <<>>
    <3>1. Started(disk[n]).fw = Fresh(disk[n]).fw
      BY DEF Started, canardSetLocalNodeID, Fresh
    <3> QED
      BY <2>1, <3>1 DEF Fresh
  <2> HIDE DEF Q
  <2>4. UpdateOK(node[n].fw, disk[n].firmware, Q, scenario.images, Used)
    BY <2>2, <2>3 DEF UpdateOK, Idle
  <2> QED
    BY <2>1, <2>4 DEF FileOK, Q
<1> QED
  BY <1>2, <1>3 DEF FileInv

LEMMA NextFile ==
    ASSUME EscInv, FileInv, FewDelays, [EscNext]_escVars
    PROVE  FileInv'
<1>1. CASE UNCHANGED escVars
  <2>1. /\ UNCHANGED <<scenario, left, node, disk, txq, inbox, server>>
    BY <1>1 DEF escVars
  <2> QED
    BY <2>1 DEF FileInv, BudgetOK, FileOK, Used
<1>2. CASE EscNext
  <2>1. ASSUME NEW n \in Nodes, Pass(n)
        PROVE  FileInv'
    BY <2>1, PassFile
  <2>2. ASSUME NEW n \in Nodes, Transmit(n)
        PROVE  FileInv'
    BY <2>2, TransmitFile
  <2>3. ASSUME NEW n \in Nodes, Boot(n)
        PROVE  FileInv'
    BY <2>3, BootFile
  <2>4. ASSUME NEW n \in Nodes, Crash(n)
        PROVE  FileInv'
    BY <2>4, CrashFile
  <2>5. ASSUME NEW n \in Nodes, Lose(n)
        PROVE  FileInv'
    BY <2>5, LoseFile
  <2>6. ASSUME NEW n \in Nodes, Operate(n)
        PROVE  FileInv'
    BY <2>6, OperateFile
  <2> QED
    BY <1>2, <2>1, <2>2, <2>3, <2>4, <2>5, <2>6, AllocateFile, ServeFile, TickFile, SecondFile DEF EscNext
<1> QED
  BY <1>1, <1>2

(* No image has a name that another one's starts with. *)
Apart(s) == \A p, q \in DOMAIN s.images : IsPrefix(p, q) => p = q

LEMMA ChunksStart ==
    ASSUME NEW path, NEW m \in Nat, NEW k \in 0 .. m
    PROVE  IsPrefix(Chunks(path, k), Chunks(path, m))
<1> DEFINE s == Chunks(path, k)
           t == Chunks(path, m)
           C == {Chunk(path, i - 1) : i \in 1 .. m}
<1>1. s = [i \in 1 .. k |-> Chunk(path, i - 1)] /\ t = [i \in 1 .. m |-> Chunk(path, i - 1)]
  BY DEF Chunks
<1>2. k \in Nat /\ k <= m /\ \A i \in 1 .. k : i \in 1 .. m
  OBVIOUS
<1>3. s \in [1 .. k -> C] /\ t \in [1 .. m -> C]
  BY <1>1, <1>2
<1>4. \A i \in 1 .. k : s[i] = t[i]
  BY <1>1, <1>2
<1> HIDE DEF s, t, C
<1>5. s \in Seq(C) /\ t \in Seq(C) /\ Len(s) = k /\ Len(t) = m
  BY <1>2, <1>3, FunctionIsQueue
<1>6. SubSeq(s, 1, k) = [i \in 1 .. k |-> s[i]] /\ SubSeq(t, 1, k) = [i \in 1 .. k |-> t[i]]
  BY <1>2, <1>5
<1>7. SubSeq(s, 1, k) = SubSeq(t, 1, k)
  BY <1>4, <1>6
<1>8. IsPrefix(s, t)
  BY <1>2, <1>5, <1>7 DEF IsPrefix
<1> QED
  BY <1>8 DEF s, t

LEMMA FileIsPart ==
    ASSUME EscInv, FileInv, Apart(scenario)
    PROVE  FileIsImage
<1>1. IsScenario(scenario)
  BY EscAssumption DEF EscInv
<1>2. ASSUME NEW n \in Nodes, node[n].up, node[n].fw.asked # <<>>, node[n].fw.asked \in DOMAIN scenario.images
      PROVE  /\ IsPrefix(disk[n].firmware, Image(node[n].fw.asked))
             /\ node[n].fw.fd = "closed" => disk[n].firmware = Image(node[n].fw.asked)
  <2> DEFINE fw == node[n].fw
             images == scenario.images
             firmware == disk[n].firmware
             items == Items(n, inbox[n], server, txq[n])
             last == images[fw.asked] + 1
             image == Image(fw.asked)
  <2>1. /\ images[fw.asked] \in Nat /\ last \in Nat
        /\ \A x \in 0 .. images[fw.asked] : x \in 0 .. last
        /\ 0 \in 0 .. last /\ image = Chunks(fw.asked, last)
    <3>1. images[fw.asked] \in Nat
      BY <1>1, <1>2 DEF IsScenario
    <3> QED
      BY <3>1 DEF Image, Chunks
  <2>2. \A x \in 0 .. last : IsPrefix(Chunks(fw.asked, x), image)
    <3> HIDE DEF last, image
    <3> QED
      BY <2>1, ChunksStart
  <2>3. <<>> = Chunks(fw.asked, 0)
    BY NoChunks
  <2>4. UpdateOK(fw, firmware, items, images, Used) /\ FwType(fw)
    BY <1>2, StateTypes DEF FileInv, FileOK
  <2>5. fw.path \in DOMAIN images => fw.path = fw.asked
    BY <1>2, <2>4 DEF UpdateOK, Apart
  <2> DEFINE Right == IsPrefix(firmware, image) /\ (fw.fd = "closed" => firmware = image)
  <2>8. fw.asked # <<>>
    BY <1>2
  <2> HIDE DEF fw, images, firmware, items, last, image, Right
  <2>6. ASSUME fw.node # 0
        PROVE  Right
    <3>1. fw.fd = "open" /\ fw.offset <= Size(images, fw.path) /\ firmware = Chunks(fw.path, fw.offset)
          /\ fw.offset \in Nat
      BY <2>4, <2>6 DEF UpdateOK, Busy, FwType
    <3>2. CASE fw.path \in DOMAIN images
      <4>1. fw.path = fw.asked /\ fw.offset <= images[fw.asked]
        BY <2>5, <3>1, <3>2 DEF Size
      <4>2. fw.offset \in 0 .. images[fw.asked]
        BY <2>1, <3>1, <4>1
      <4> QED
        BY <2>1, <2>2, <3>1, <4>1, <4>2 DEF Right
    <3>3. CASE fw.path \notin DOMAIN images
      <4>1. fw.offset = 0
        BY <3>1, <3>3 DEF Size
      <4>2. firmware = Chunks(fw.asked, 0)
        BY <2>3, <3>1, <4>1, NoChunks
      <4> QED
        BY <2>1, <2>2, <3>1, <4>2 DEF Right
    <3> QED
      BY <3>2, <3>3
  <2>7. ASSUME fw.node = 0
        PROVE  Right
    <3>1. Stored(fw, firmware, images)
      BY <2>4, <2>7, <2>8 DEF UpdateOK, Idle
    <3>2. CASE fw.path \in DOMAIN images
      <4>1. PICK k \in 0 .. images[fw.path] + 1 :
               firmware = Chunks(fw.path, k) /\ (fw.fd = "closed" => k = images[fw.path] + 1)
        BY <3>1, <3>2 DEF Stored
      <4>2. k \in 0 .. last /\ firmware = Chunks(fw.asked, k) /\ (fw.fd = "closed" => k = last)
        BY <2>5, <3>2, <4>1 DEF last
      <4> QED
        BY <2>1, <2>2, <4>2 DEF Right
    <3>3. CASE fw.path \notin DOMAIN images
      <4>1. firmware = Chunks(fw.asked, 0) /\ fw.fd # "closed"
        BY <2>3, <3>1, <3>3 DEF Stored
      <4> QED
        BY <2>1, <2>2, <4>1 DEF Right
    <3> QED
      BY <3>2, <3>3
  <2> QED
    BY <2>6, <2>7 DEF Right, fw, firmware, image
<1> QED
  BY <1>2 DEF FileIsImage

(* FileIsImage: whatever gets lost or is late, newfirmware.bin is the beginning of the image, and    *)
(* all of it when it is closed: an answer counts only for the last read that was sent        *)
(* (handle_file_read_response, esc_node.c:624).  So that an older one is never taken for it, there  *)
(* are fewer delays than transfer-IDs; and strncpy mixes no two names of images.              *)
THEOREM FileFollowsImage ==
    ASSUME \A s \in Scenarios : s.left.delays < TidMod /\ Apart(s)
    PROVE  FairEscSpec => []FileIsImage
<1>1. EscInit => EscInv /\ FileInv
  BY InitStep, InitFile
<1>2. EscInv => FewDelays /\ Apart(scenario)
  BY DEF EscInv, FewDelays
<1>3. EscInv /\ FileInv /\ [EscNext]_escVars => EscInv' /\ FileInv'
  BY <1>2, NextStep, NextFile
<1>4. EscInv /\ FileInv => FileIsImage
  BY <1>2, FileIsPart
<1> QED
  BY <1>1, <1>3, <1>4, PTL DEF FairEscSpec
=============================================================================
