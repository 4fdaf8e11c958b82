--------------------------- MODULE MCCanardServices ---------------------------
(***************************************************************************)
(* Instances of CanardServices: two buckets, transfer-IDs modulo 3.             *)
(***************************************************************************)
EXTENDS CanardServices, TLC

Budget(creations, destructions, sends, failures, transfers, losses) ==
    [creations |-> creations, destructions |-> destructions, sends |-> sends,
     failures |-> failures, transfers |-> transfers, losses |-> losses]

Object(kind, type, index) == [kind |-> kind, type |-> type, index |-> index]
Transfer(kind, type, index, source, tid) ==
    [kind |-> kind, index |-> index, type |-> type, source |-> source, tid |-> tid, serial |-> 0,
     bad |-> FALSE]

(* Subscribers of one type, one of another type in the same bucket and a server of the  *)
(* same number; two of them may go and one may come while a broadcast is handled.       *)
Subscribing ==
    [handler |-> "h1" :> Object("broadcast", 1, 0) @@ "h2" :> Object("broadcast", 1, 0)
              @@ "h3" :> Object("broadcast", 3, 0) @@ "h4" :> Object("broadcast", 1, 0)
              @@ "h5" :> Object("request", 1, 0) @@ "h6" :> Object("broadcast", 1, 0),
     created |-> <<"h1", "h3", "h2", "h5", "h4">>,
     servers |-> {}, publishers |-> {[index |-> 0, type |-> 2]},
     transfers |-> {Transfer("broadcast", 1, 0, 9, 0), Transfer("broadcast", 3, 0, 9, 0),
                    Transfer("request", 1, 0, 9, 1), Transfer("response", 1, 0, 9, 1)},
     left |-> Budget(1, 2, 1, 1, 2, 0)]

(* Two clients of one service: more requests than transfer-IDs to one server, one of    *)
(* them refused; and requests to two servers, a client destroyed and created again.     *)
Asking ==
    [handler |-> "h1" :> Object("response", 1, 0) @@ "h2" :> Object("response", 1, 0),
     created |-> <<"h1", "h2">>,
     servers |-> {10}, publishers |-> {}, transfers |-> {},
     left |-> Budget(0, 0, 4, 1, 0, 1)]
AskingTwo ==
    [Asking EXCEPT !.servers = {10, 20}, !.left = Budget(1, 1, 3, 0, 0, 0)]

(* Two servers of one service on one interface, a third on another. *)
Serving ==
    [handler |-> "h1" :> Object("request", 1, 0) @@ "h2" :> Object("request", 1, 0)
              @@ "h3" :> Object("request", 1, 1),
     created |-> <<"h1", "h3", "h2">>,
     servers |-> {}, publishers |-> {},
     transfers |-> {Transfer("request", 1, i, src, tid) : i \in 0 .. 1, src \in {8, 9}, tid \in {0, 1}},
     left |-> Budget(1, 1, 0, 0, 3, 0)]

MCServicesScenarios == {Subscribing, Asking, AskingTwo, Serving}
=============================================================================
