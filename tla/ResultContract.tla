---------------------------- MODULE ResultContract ----------------------------
(***************************************************************************)
(* What delivery promises about the result of one local request, whatever  *)
(* workers, connections, claims and deadlines it takes: the result is      *)
(* offered to clients by one claim at a time, a client may read it whole   *)
(* once it has been offered, and it counts as delivered only after some    *)
(* client that has read it whole said so; then it is never offered again,  *)
(* only replayed (at-least-once, since an acknowledgement may be lost).    *)
(***************************************************************************)
CONSTANT Clients

VARIABLES
    result,   \* "none", "stored", "offered", "withdrawn" or "delivered"
    readers   \* the clients that have read the whole result

vars == <<result, readers>>

Init == result = "none" /\ readers = {}

Store == result = "none" /\ result' = "stored" /\ UNCHANGED readers

Offer == result \in {"stored", "withdrawn"} /\ result' = "offered" /\ UNCHANGED readers

Withdraw == result = "offered" /\ result' = "withdrawn" /\ UNCHANGED readers

Read(c) ==
    /\ result \in {"offered", "withdrawn", "delivered"}
    /\ readers' = readers \cup {c}
    /\ UNCHANGED result

Acknowledge ==
    /\ result \in {"offered", "withdrawn"} /\ readers # {}
    /\ result' = "delivered"
    /\ UNCHANGED readers

Next == Store \/ Offer \/ Withdraw \/ Acknowledge \/ \E c \in Clients : Read(c)

Spec == Init /\ [][Next]_vars

=============================================================================
