------------------------ MODULE InteractionLedger ------------------------
(***************************************************************************)
(* What the interaction table promises to its callers: a write-once ledger *)
(* of verdicts.  An entry is opened once, it is closed once, and whoever   *)
(* closes it first decides its verdict for good ("first response wins").   *)
(* Several entries may be closed by one transaction, when their session    *)
(* ends.  How entries relate to sessions is not part of the promise.       *)
(***************************************************************************)

CONSTANTS
    Entries,    \* identifiers of interactions, never used twice
    Verdicts,   \* what an entry can be closed with
    NoVerdict   \* shown as long as the entry is not closed

VARIABLES
    phase,      \* phase[e]: "none" before e is opened, then "open", then "closed"
    verdict     \* verdict[e]: what e was closed with

vars == <<phase, verdict>>

Init ==
    /\ phase = [e \in Entries |-> "none"]
    /\ verdict = [e \in Entries |-> NoVerdict]

\* A new entry waits for its first response.
Open(e) ==
    /\ phase[e] = "none"
    /\ phase' = [phase EXCEPT ![e] = "open"]
    /\ UNCHANGED verdict

\* One transaction closes the open entries of E, each with a verdict.
Close(E) ==
    /\ \A e \in E : phase[e] = "open"
    /\ phase' = [e \in Entries |-> IF e \in E THEN "closed" ELSE phase[e]]
    /\ verdict' = [e \in Entries |-> verdict'[e]]
    /\ \A e \in Entries : IF e \in E THEN verdict'[e] \in Verdicts
                                     ELSE verdict'[e] = verdict[e]

Next == (\E e \in Entries : Open(e)) \/ (\E E \in SUBSET Entries : Close(E))

Spec == Init /\ [][Next]_vars
=============================================================================
