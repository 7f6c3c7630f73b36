--------------------------- MODULE TerminalFeed ---------------------------
(***************************************************************************)
(* What the gateway promises to its terminals: one feed of the app-server's*)
(* messages.  A terminal gets them in the order in which they came, none   *)
(* twice, and the next terminal goes on where the last one stopped.  A     *)
(* message may be lost only with the terminal that was being sent it.      *)
(***************************************************************************)
EXTENDS Sequences

CONSTANTS Terminals, Messages

VARIABLES
    waiting,    \* accepted and not delivered, in the order of arrival
    link        \* link[t]: "idle", then "on", then "off"

vars == <<waiting, link>>

Init == waiting = <<>> /\ link = [t \in Terminals |-> "idle"]

Accept(m) == waiting' = Append(waiting, m) /\ UNCHANGED link

\* One terminal at a time.
Attach(t) ==
    /\ link[t] = "idle" /\ \A u \in Terminals : link[u] # "on"
    /\ link' = [link EXCEPT ![t] = "on"]
    /\ UNCHANGED waiting

Refuse(t) == link[t] = "idle" /\ link' = [link EXCEPT ![t] = "off"] /\ UNCHANGED waiting

Deliver(t) ==
    /\ link[t] = "on" /\ waiting # <<>>
    /\ waiting' = Tail(waiting)
    /\ UNCHANGED link

\* With the message it was being sent, if there was one.
Leave(t) ==
    /\ link[t] = "on"
    /\ link' = [link EXCEPT ![t] = "off"]
    /\ waiting' = waiting \/ (waiting # <<>> /\ waiting' = Tail(waiting))

Next ==
    \/ \E m \in Messages : Accept(m)
    \/ \E t \in Terminals : Attach(t) \/ Refuse(t) \/ Deliver(t) \/ Leave(t)

Spec == Init /\ [][Next]_vars
=============================================================================
