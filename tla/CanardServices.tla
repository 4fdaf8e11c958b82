---------------------------- MODULE CanardServices ----------------------------
(***************************************************************************)
(* The C++ wrappers in src/canard: handler lists, transfer-ID counters, clients,  *)
(* servers, subscribers and publishers.  The lists are pointers; a callback may     *)
(* create and destroy handlers and send while handle_message walks a list.        *)
(* canard.c and the remote nodes are external: a transfer is enqueued whole or      *)
(* refused, and received whole.                                                *)
(***************************************************************************)
EXTENDS Integers, Sequences, FiniteSets

CONSTANTS
    Scenarios,      \* see IsScenario
    Handlers,       \* objects that are or will be handlers
    Nil,            \* nullptr
    NumHandlers,    \* CANARD_NUM_HANDLERS
    NumBuckets,     \* CANARD_NUM_RX_BUCKETS
    TidMod          \* 32 in the code

Kinds == {"broadcast", "request", "response"}

(* What is handled, or sent: a kind of transfer and its type on an interface. *)
IsAddressed(x) == x.kind \in Kinds /\ x.type \in Nat /\ x.index \in 0 .. NumHandlers - 1

(* handler: what each object handles; created: the handlers there are at first, in that   *)
(* order; transfers: what remote nodes send on their own; servers, publishers: whom the    *)
(* program asks and what it publishes; left: bounds on how often things happen.          *)
IsScenario(s) ==
    /\ DOMAIN s.handler \subseteq Handlers
    /\ \A h \in DOMAIN s.handler : IsAddressed(s.handler[h])
    /\ \A m \in s.transfers : IsAddressed(m)
    /\ s.created \in Seq(DOMAIN s.handler)
    /\ \A j, k \in DOMAIN s.created : s.created[j] = s.created[k] => j = k
    /\ DOMAIN s.left = {"creations", "destructions", "sends", "failures", "transfers", "losses"}

ASSUME ServicesAssumption ==
    /\ \A s \in Scenarios : IsScenario(s)
    /\ IsFiniteSet(Handlers) /\ Nil \notin Handlers
    /\ NumHandlers \in Nat /\ NumBuckets \in Nat \ {0} /\ TidMod \in Nat \ {0}

VARIABLES
    scenario, left,
    head,       \* [index, bucket] -> the first handler of the list
    next,       \* of each handler; it keeps its value when the handler is unlinked
    client,     \* server_node_id and transfer_id of the clients
    server,     \* transfer_id of the servers
    tids,       \* the TransferObjects: descriptor -> tid
    pending,    \* requests at the remote servers
    inbox,      \* transfers that canard.c has accepted
    walk,       \* handle_message: the transfer, the handler that is being called, ...
    sent,       \* the latest request of each client and whether it was enqueued
    made        \* descriptor -> how many requests were enqueued

servicesVars ==
    <<scenario, left, head, next, client, server, tids, pending, inbox, walk, sent, made>>

Handler(h) == scenario.handler[h]
Known == DOMAIN scenario.handler
List(h) == <<Handler(h).index, Handler(h).type % NumBuckets>>
ListOf(m) == <<m.index, m.type % NumBuckets>>
Walking == walk.m # Nil

-----------------------------------------------------------------------------
(* The lists *)

(* What the pointers lead to, from a handler on. *)
From(first) ==
    LET at[k \in 0 .. Cardinality(Handlers)] ==
            IF k = 0 THEN first ELSE IF at[k - 1] = Nil THEN Nil ELSE next[at[k - 1]]
    IN  at

InList(l) == {From(head[l])[k] : k \in 0 .. Cardinality(Handlers)} \ {Nil}
Linked == UNION {InList(l) : l \in DOMAIN head}

Handles(h, m) == Handler(h).kind = m.kind /\ Handler(h).type = m.type

accept_message(m) == \E h \in InList(ListOf(m)) : Handles(h, m)

link(h) ==
    /\ next' = [next EXCEPT ![h] = head[List(h)]]
    /\ head' = [head EXCEPT ![List(h)] = h]

(* Seeded defect: the rest of the list goes with a handler that is not the first. *)
unlink_Truncates(h) ==
    IF head[List(h)] = h THEN head' = [head EXCEPT ![List(h)] = next[h]] /\ UNCHANGED next
    ELSE /\ next' = [e \in DOMAIN next |->
                        IF e \in InList(List(h)) /\ next[e] = h THEN Nil ELSE next[e]]
         /\ UNCHANGED head

unlink(h) ==
    IF head[List(h)] = h THEN head' = [head EXCEPT ![List(h)] = next[h]] /\ UNCHANGED next
    ELSE /\ next' = [e \in DOMAIN next |->
                        IF e \in InList(List(h)) /\ next[e] = h THEN next[h] ELSE next[e]]
         /\ UNCHANGED head

-----------------------------------------------------------------------------
(* Creation and destruction, also in a callback.  A handler that a callback destroys    *)
(* is not created again before the walk ends, and its memory stays.                  *)

Create(h) ==
    /\ left.creations > 0 /\ h \in Known \ Linked /\ h \notin walk.gone
    /\ left' = [left EXCEPT !.creations = @ - 1]
    /\ link(h)
    /\ client' = [client EXCEPT ![h].server = 255]
    /\ sent' = [sent EXCEPT ![h].ok = FALSE]
    /\ UNCHANGED <<scenario, server, tids, pending, inbox, walk, made>>

Destroy(h) ==
    /\ left.destructions > 0 /\ h \in Linked
    /\ left' = [left EXCEPT !.destructions = @ - 1]
    /\ unlink(h)
    /\ walk' = IF Walking THEN [walk EXCEPT !.steady = @ \ {h}, !.gone = @ \cup {h}] ELSE walk
    /\ UNCHANGED <<scenario, client, server, tids, pending, inbox, sent, made>>

-----------------------------------------------------------------------------
(* Sending *)

Descriptor(index, type, kind, dst) == [index |-> index, type |-> type, kind |-> kind, dst |-> dst]

Put(table, d, value) ==
    [e \in DOMAIN table \cup {d} |-> IF e = d THEN value ELSE table[e]]

(* The counter, made when it is not there yet.  Without memory for it a broadcast is     *)
(* refused (NoCounter); Client::request dereferences the null pointer then              *)
(* (service_client.h:110), so a request is one that has got its counter.             *)
get_tid(d) == IF d \in DOMAIN tids THEN tids[d] ELSE 0

(* canard.c advances the counter of what it enqueues. *)
Counted(d, enqueued) ==
    Put(tids, d, IF enqueued THEN (get_tid(d) + 1) % TidMod ELSE get_tid(d))

Sending(enqueued) ==
    /\ left.sends > 0 /\ (~enqueued => left.failures > 0)
    /\ left' = [left EXCEPT !.sends = @ - 1, !.failures = IF enqueued THEN @ ELSE @ - 1]

(* Seeded defect: the client reads the counter after the request has advanced it. *)
Recorded_AfterSend(d) == (get_tid(d) + 1) % TidMod

(* "transfer_id = *TransferObject::get_tid_ptr(...)", before the request is sent. *)
Recorded(d) == get_tid(d)

Request(c, dst, enqueued) ==
    LET d == Descriptor(Handler(c).index, Handler(c).type, "request", dst)
        serial == IF d \in DOMAIN made THEN made[d] ELSE 0
    IN  /\ Handler(c).kind = "response" /\ c \in Linked
        /\ Sending(enqueued)
        /\ client' = [client EXCEPT ![c] = [server |-> dst, tid |-> Recorded(d)]]
        /\ tids' = Counted(d, enqueued)
        /\ sent' = [sent EXCEPT ![c] = [d |-> d, serial |-> serial, ok |-> enqueued]]
        /\ IF enqueued
           THEN /\ made' = Put(made, d, serial + 1)
                /\ pending' = pending \cup {[d |-> d, tid |-> get_tid(d), serial |-> serial]}
           ELSE UNCHANGED <<made, pending>>
        /\ UNCHANGED <<scenario, head, next, server, inbox, walk>>

NoCounter(d, enqueued) == ~enqueued /\ d \notin DOMAIN tids /\ tids' = tids

Publish(p, enqueued) ==
    /\ Sending(enqueued)
    /\ LET d == Descriptor(p.index, p.type, "broadcast", 0)
       IN  tids' = Counted(d, enqueued) \/ NoCounter(d, enqueued)
    /\ UNCHANGED <<scenario, head, next, client, server, pending, inbox, walk, sent, made>>

(* free_tid_ptr: all counters begin again; no answer is under way then. *)
FreeTids ==
    /\ left.failures > 0 /\ tids # <<>> /\ pending = {} /\ inbox = <<>> /\ ~Walking
    /\ left' = [left EXCEPT !.failures = @ - 1]
    /\ tids' = <<>>
    /\ sent' = [c \in DOMAIN sent |-> [sent[c] EXCEPT !.ok = FALSE]]
    /\ UNCHANGED <<scenario, head, next, client, server, pending, inbox, walk, made>>

-----------------------------------------------------------------------------
(* Receiving *)

(* Client::handle_message, Server::handle_message and Subscriber::handle_message: is    *)
(* it for this one?  What does not decode is for none.                              *)
ForThis(h, m) ==
    /\ Handles(h, m) /\ ~m.bad
    /\ m.kind = "response" => client[h].server = m.source /\ client[h].tid = m.tid

(* From here on, the first handler that the transfer is for. *)
Consumer(first, m) ==
    LET at == From(first)
        for == {k \in DOMAIN at : at[k] # Nil /\ ForThis(at[k], m)}
    IN  IF for = {} THEN Nil ELSE at[CHOOSE k \in for : \A j \in for : k <= j]

(* The walk goes on at h, whose callback runs now. *)
Call(w, h) ==
    /\ walk' = [w EXCEPT !.at = h,
                         !.called = IF h = Nil THEN @ ELSE Append(@, h),
                         !.asked = IF h # Nil /\ w.m.kind = "response" THEN sent[h] ELSE Nil]
    /\ server' = IF h # Nil /\ w.m.kind = "request" THEN [server EXCEPT ![h] = w.m.tid] ELSE server

NoWalk == [m |-> Nil, at |-> Nil, called |-> <<>>, steady |-> {}, gone |-> {}, asked |-> Nil,
           askers |-> {}]

(* The clients whose latest request this answers. *)
Askers(m) ==
    {c \in InList(ListOf(m)) :
        /\ Handles(c, m) /\ ~m.bad
        /\ sent[c].ok /\ sent[c].serial = m.serial
        /\ sent[c].d = Descriptor(m.index, m.type, "request", m.source)}

HandleMessage ==
    /\ ~Walking /\ inbox # <<>>
    /\ inbox' = Tail(inbox)
    /\ LET m == Head(inbox)
       IN  Call([NoWalk EXCEPT !.m = m, !.steady = {h \in InList(ListOf(m)) : ForThis(h, m)},
                               !.askers = Askers(m)],
                Consumer(head[ListOf(m)], m))
    /\ UNCHANGED <<scenario, left, head, next, client, tids, pending, sent, made>>

(* "we only allow one request or response for non-broadcast" *)
After(w) == IF w.m.kind = "broadcast" THEN Consumer(next[w.at], w.m) ELSE Nil

CallbackReturns ==
    /\ Walking /\ walk.at # Nil
    /\ Call(walk, After(walk))
    /\ UNCHANGED <<scenario, left, head, next, client, tids, pending, inbox, sent, made>>

WalkEnds ==
    /\ Walking /\ walk.at = Nil
    /\ walk' = NoWalk
    /\ UNCHANGED <<scenario, left, head, next, client, server, tids, pending, inbox, sent, made>>

(* Server::respond, in the callback. *)
Respond ==
    /\ Walking /\ walk.m.kind = "request" /\ walk.at # Nil /\ walk.asked = Nil
    /\ walk' = [walk EXCEPT !.asked = [to |-> walk.m.source, tid |-> server[walk.at]]]
    /\ UNCHANGED <<scenario, left, head, next, client, server, tids, pending, inbox, sent, made>>

-----------------------------------------------------------------------------
(* The remote nodes: they answer in any order, or not at all. *)

Accepted(m) == inbox' = IF accept_message(m) THEN Append(inbox, m) ELSE inbox

Answer(p) ==
    /\ pending' = pending \ {p}
    /\ \E bad \in {FALSE} \cup {b \in BOOLEAN : left.losses > 0} :
        /\ left' = IF bad THEN [left EXCEPT !.losses = @ - 1] ELSE left
        /\ Accepted([kind |-> "response", index |-> p.d.index, type |-> p.d.type,
                     source |-> p.d.dst, tid |-> p.tid, serial |-> p.serial, bad |-> bad])
    /\ UNCHANGED <<scenario, head, next, client, server, tids, walk, sent, made>>

Lost(p) ==
    /\ left.losses > 0
    /\ left' = [left EXCEPT !.losses = @ - 1]
    /\ pending' = pending \ {p}
    /\ UNCHANGED <<scenario, head, next, client, server, tids, inbox, walk, sent, made>>

Arrive(m) ==
    /\ left.transfers > 0
    /\ left' = [left EXCEPT !.transfers = @ - 1]
    /\ Accepted(m)
    /\ UNCHANGED <<scenario, head, next, client, server, tids, pending, walk, sent, made>>

-----------------------------------------------------------------------------
(* The handlers that a scenario starts with are created one after the other. *)
Started(s) ==
    LET list(h) == <<s.handler[h].index, s.handler[h].type % NumBuckets>>
        Latest(l, n) ==
            LET of == {k \in 1 .. n : list(s.created[k]) = l}
            IN  IF of = {} THEN Nil ELSE s.created[CHOOSE k \in of : \A j \in of : j <= k]
    IN  [head |-> [l \in (0 .. NumHandlers - 1) \X (0 .. NumBuckets - 1) |->
                    Latest(l, Len(s.created))],
         next |-> [h \in Handlers |->
                    IF \E k \in DOMAIN s.created : s.created[k] = h
                    THEN Latest(list(h), (CHOOSE k \in DOMAIN s.created : s.created[k] = h) - 1)
                    ELSE Nil]]

ServicesInit ==
    /\ scenario \in Scenarios
    /\ left = scenario.left
    /\ head = Started(scenario).head /\ next = Started(scenario).next
    /\ client = [h \in Handlers |-> [server |-> 255, tid |-> 0]]
    /\ server = [h \in Handlers |-> 0]
    /\ tids = <<>>
    /\ pending = {}
    /\ inbox = <<>>
    /\ walk = NoWalk
    /\ sent = [h \in Handlers |-> [d |-> Nil, serial |-> 0, ok |-> FALSE]]
    /\ made = <<>>

(* The program runs between transfers and in callbacks; canard.c calls back in between. *)
ServicesNext ==
    \/ \E h \in Known : Create(h)
    \/ \E h \in Known : Destroy(h)
    \/ \E c \in Known, dst \in scenario.servers, enqueued \in BOOLEAN : Request(c, dst, enqueued)
    \/ \E p \in scenario.publishers, enqueued \in BOOLEAN : Publish(p, enqueued)
    \/ FreeTids
    \/ HandleMessage
    \/ CallbackReturns
    \/ WalkEnds
    \/ Respond
    \/ \E p \in pending : Answer(p)
    \/ \E p \in pending : Lost(p)
    \/ \E m \in scenario.transfers : Arrive(m)

ServicesSpec == ServicesInit /\ [][ServicesNext]_servicesVars

-----------------------------------------------------------------------------
(* Properties *)

(* handler_list.h:86: whatever its callbacks create and destroy, a broadcast reaches     *)
(* every subscriber that was there all the time exactly once, and a request or response *)
(* exactly one of those that it is for.                                            *)
Times(h) == Cardinality({k \in DOMAIN walk.called : walk.called[k] = h})
EachOnce ==
    Walking /\ walk.at = Nil =>
        /\ walk.m.kind = "broadcast" => \A h \in walk.steady : Times(h) = 1
        /\ walk.m.kind # "broadcast" =>
               Len(walk.called) <= 1 /\ (walk.steady # {} => Len(walk.called) = 1)

(* service_client.h:59: an answer is handed to a client if one waits for it, and then to  *)
(* the one that asked, though clients share the counter and answers get lost or overtake *)
(* each other.  One other may take it, and the one that asked is not called then: a      *)
(* client whose own latest request was refused, for that has recorded the server and the *)
(* transfer-ID all the same (service_client.h:110).  An answer or a request that is 32   *)
(* requests old has its transfer-ID used again.  A server's response carries its         *)
(* request's transfer-ID.                                                      *)
Recent(d, serial) == made[d] - serial <= TidMod
AnswersFindAskers ==
    Walking =>
        /\ walk.m.kind = "response" =>
            /\ walk.askers # {} => walk.called # <<>>
            /\ walk.at # Nil =>
                \/ walk.at \in walk.askers
                \/ ~walk.asked.ok
                \/ ~Recent(walk.asked.d, walk.asked.serial)
                \/ ~Recent(walk.asked.d, walk.m.serial)
        /\ walk.m.kind = "request" /\ walk.at # Nil /\ walk.asked # Nil =>
            walk.asked = [to |-> walk.m.source, tid |-> walk.m.tid]
=============================================================================
