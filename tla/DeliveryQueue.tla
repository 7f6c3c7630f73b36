--------------------------- MODULE DeliveryQueue ---------------------------
(***************************************************************************)
(* What the notification outbox promises: a durable queue that delivers    *)
(* at least once.  An item that was accepted stays owed, whatever fails,   *)
(* until a copy of it was delivered; an item that is settled is never      *)
(* delivered again.  Nothing is promised about how often in between.       *)
(***************************************************************************)
EXTENDS Naturals

CONSTANT Items

VARIABLES
    status,     \* status[o]: "none", "owed", "settled"
    copies      \* copies[o]: how often o was delivered

vars == <<status, copies>>

Init ==
    /\ status = [o \in Items |-> "none"]
    /\ copies = [o \in Items |-> 0]

\* One transaction may accept several items.
Accept ==
    /\ \E S \in SUBSET {o \in Items : status[o] = "none"} :
          status' = [o \in Items |-> IF o \in S THEN "owed" ELSE status[o]]
    /\ UNCHANGED copies

Deliver(o) ==
    /\ status[o] = "owed"
    /\ copies' = [copies EXCEPT ![o] = @ + 1]
    /\ UNCHANGED status

Settle(o) ==
    /\ status[o] = "owed" /\ copies[o] > 0
    /\ status' = [status EXCEPT ![o] = "settled"]
    /\ UNCHANGED copies

Next == Accept \/ \E o \in Items : Deliver(o) \/ Settle(o)

Spec == Init /\ [][Next]_vars
=============================================================================
