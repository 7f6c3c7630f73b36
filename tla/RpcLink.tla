----------------------------- MODULE RpcLink -----------------------------
(***************************************************************************)
(* What CodexAppServerClient promises to the coroutines that call it.  A   *)
(* link goes one way, from new to closed.  Calls are taken while it is up  *)
(* and each is settled once; the moment the link starts to close, whatever *)
(* the reason, everybody who waits is released, and nobody waits again.    *)
(***************************************************************************)

CONSTANTS
    Callers,    \* calls, each made at most once
    Handshake   \* the call that brings the link up, made while it is starting

VARIABLES
    phase,      \* "new", "starting", "up", "closing", "closed"
    calls       \* calls[c]: "idle", "open" while c waits, "settled"

vars == <<phase, calls>>

Init ==
    /\ phase = "new"
    /\ calls = [c \in Callers |-> "idle"]

Start == phase = "new" /\ phase' = "starting" /\ UNCHANGED calls

Ready == phase = "starting" /\ phase' = "up" /\ UNCHANGED calls

Open(c) ==
    /\ calls[c] = "idle"
    /\ phase = (IF c = Handshake THEN "starting" ELSE "up")
    /\ calls' = [calls EXCEPT ![c] = "open"]
    /\ UNCHANGED phase

\* An answer, a timeout, a cancellation, a failure to send or a refusal.
Settle(c) ==
    /\ calls[c] \in {"idle", "open"}
    /\ calls' = [calls EXCEPT ![c] = "settled"]
    /\ UNCHANGED phase

\* The link starts to close; a call refused because of it may be what noticed.
Shut ==
    /\ phase \in {"new", "starting", "up"}
    /\ phase' = "closing"
    /\ \E R \in SUBSET {c \in Callers : calls[c] = "idle"} :
          calls' = [c \in Callers |->
              IF calls[c] = "open" \/ c \in R THEN "settled" ELSE calls[c]]

Closed == phase = "closing" /\ phase' = "closed" /\ UNCHANGED calls

Next ==
    \/ Start \/ Ready \/ Shut \/ Closed
    \/ \E c \in Callers : Open(c) \/ Settle(c)

Spec == Init /\ [][Next]_vars
=============================================================================
