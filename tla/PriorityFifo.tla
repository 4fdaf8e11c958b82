---------------------------- MODULE PriorityFifo ----------------------------
(***************************************************************************)
(* What the TX queue promises: frames leave in the order in which they would   *)
(* win arbitration, and frames of equal identifier in the order in which they  *)
(* came.  A frame is [id, n, k]: frame k of the n-th transfer that was         *)
(* accepted, so that <<n, k>> is its place in the order of arrival.            *)
(***************************************************************************)
EXTENDS CanardPriority, Sequences

VARIABLES
    pending,    \* the set of frames waiting
    taken       \* the frame handed to the driver last, as a sequence of at most one

vars == <<pending, taken>>

CameFirst(x, y) == x.n < y.n \/ (x.n = y.n /\ x.k < y.k)

Before(x, y) ==
    \/ isPriorityHigher(y.id, x.id)
    \/ x.id = y.id /\ CameFirst(x, y)

First(x) == x \in pending /\ \A y \in pending \ {x} : Before(x, y)

Init == pending = {} /\ taken = <<>>

(* A transfer comes after every transfer that waits. *)
Arrive(S) ==
    /\ \A x \in pending, y \in S : CameFirst(x, y)
    /\ pending' = pending \cup S
    /\ UNCHANGED taken

Take(x) ==
    /\ First(x)
    /\ pending' = pending \ {x}
    /\ taken' = <<x>>

(* The driver failed and the frame is given up. *)
GiveUp(x) ==
    /\ First(x)
    /\ pending' = pending \ {x}
    /\ UNCHANGED taken

Expire ==
    /\ pending' \subseteq pending
    /\ UNCHANGED taken

Next ==
    \/ \E S \in {pending' \ pending} : Arrive(S)
    \/ \E x \in pending : Take(x) \/ GiveUp(x)
    \/ Expire

Spec == Init /\ [][Next]_vars
=============================================================================
