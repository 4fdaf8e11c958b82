--------------------------- MODULE TransferChannel ---------------------------
(***************************************************************************)
(* What one subscriber is promised about one publisher: a channel that may   *)
(* lose transfers, but delivers each of the others once, whole, and in the    *)
(* order of publication.  Transfers are numbered from 1.                    *)
(***************************************************************************)
EXTENDS Naturals

VARIABLES
    published,  \* how many transfers the publisher has sent
    last,       \* the number of the last transfer delivered, 0 before the first
    intact      \* whether every payload delivered was the payload published

vars == <<published, last, intact>>

Init == published = 0 /\ last = 0 /\ intact = TRUE

Publish == published' = published + 1 /\ UNCHANGED <<last, intact>>

Deliver ==
    /\ last' \in last + 1 .. published
    /\ UNCHANGED <<published, intact>>

Next == Publish \/ Deliver

Spec == Init /\ [][Next]_vars
=============================================================================
