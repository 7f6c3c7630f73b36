-------------------------- MODULE ProbeResources --------------------------
(***************************************************************************)
(* run_local_probe: a coroutine that acquires an app-server and two        *)
(* connections to it, one after the other, and gives them back in its      *)
(* finally, while it may be cancelled at each of its awaits.  An           *)
(* acquisition is a task of its own, which a cancellation does not stop    *)
(* (_acquire_resource); what the probe says to the app-server is left out. *)
(***************************************************************************)
EXTENDS Naturals, FiniteSetsExt

CONSTANTS
    Last,       \* the resources are acquired as 1 (the process), 2 .. Last (the connections)
    MaxCancels  \* bound on how often the coroutine is cancelled

ASSUME ProbeAssumption == Last \in Nat \ {0} /\ MaxCancels \in Nat

VARIABLES
    at,         \* the resource it is concerned with
    point,      \* the await it is at, see Points
    resource,   \* resource[r]: "none", "pending", "open", "failed", "closed"
    owned,      \* process and sockets
    late,       \* resources whose task has a late cleanup
    cancels,    \* how often it was cancelled
    hurried     \* whether that was once while it gave something back

probeVars == <<at, point, resource, owned, late, cancels, hurried>>

Resources == 1..Last

(* After a cancellation, "recovering": the task has some time to finish; "cancelling": it *)
(* was cancelled itself; "cleaning": what it came up with is given back.  "closing": the  *)
(* finally of run_local_probe.                                                            *)
Points == {"idle", "acquiring", "listening", "probing",
           "recovering", "cancelling", "cleaning", "closing", "over"}

ProbeTypeOK ==
    /\ at \in Resources /\ point \in Points
    /\ resource \in [Resources -> {"none", "pending", "open", "failed", "closed"}]
    /\ owned \subseteq Resources /\ late \subseteq Resources
    /\ cancels \in Nat /\ hurried \in BOOLEAN

ProbeInit ==
    /\ at = 1 /\ point = "idle"
    /\ resource = [r \in Resources |-> "none"]
    /\ owned = {} /\ late = {} /\ cancels = 0 /\ hurried = FALSE

-----------------------------------------------------------------------------
(* the coroutine *)

Acquire(r) ==
    /\ at' = r /\ point' = "acquiring"
    /\ resource' = [resource EXCEPT ![r] = "pending"]

ProbeStart ==
    /\ point = "idle"
    /\ Acquire(1)
    /\ UNCHANGED <<owned, late, cancels, hurried>>

\* The resource is there, and the next await is for the listener, the next connection or
\* the probe; or it cannot be had.
Acquired ==
    /\ point = "acquiring"
    /\ \/ /\ resource[at] = "open"
          /\ owned' = owned \cup {at}
          /\ IF at = 1 THEN point' = "listening" /\ UNCHANGED <<at, resource>>
             ELSE IF at < Last THEN Acquire(at + 1)
             ELSE point' = "probing" /\ UNCHANGED <<at, resource>>
       \/ resource[at] = "failed" /\ point' = "closing" /\ UNCHANGED <<at, resource, owned>>
    /\ UNCHANGED <<late, cancels, hurried>>

\* The app-server listens, or not in time.
Listened ==
    /\ point = "listening"
    /\ \/ IF Last > 1 THEN Acquire(2) ELSE point' = "probing" /\ UNCHANGED <<at, resource>>
       \/ point' = "closing" /\ UNCHANGED <<at, resource>>
    /\ UNCHANGED <<owned, late, cancels, hurried>>

Probed ==
    /\ point = "probing" /\ point' = "closing"
    /\ UNCHANGED <<at, resource, owned, late, cancels, hurried>>

\* After a cancellation: what the task has come up with is given back.
Recovered ==
    /\ point \in {"recovering", "cancelling"} /\ resource[at] \in {"open", "failed"}
    /\ point' = IF resource[at] = "open" THEN "cleaning" ELSE "closing"
    /\ UNCHANGED <<at, resource, owned, late, cancels, hurried>>

\* Mutant of Expired: the task is left alone when it does not stop.
ExpiredForGood ==
    /\ point \in {"recovering", "cancelling"} /\ resource[at] = "pending"
    /\ point' = IF point = "recovering" THEN "cancelling" ELSE "closing"
    /\ UNCHANGED <<at, resource, owned, late, cancels, hurried>>

\* It takes too long: the task is cancelled, and if it does not stop either, what it may
\* still come up with is left to a callback.
Expired ==
    /\ point \in {"recovering", "cancelling"} /\ resource[at] = "pending"
    /\ IF point = "recovering"
       THEN point' = "cancelling" /\ UNCHANGED late
       ELSE point' = "closing" /\ late' = late \cup {at}
    /\ UNCHANGED <<at, resource, owned, cancels, hurried>>

Cleaned ==
    /\ point = "cleaning" /\ point' = "closing"
    /\ resource' = [resource EXCEPT ![at] = "closed"]
    /\ UNCHANGED <<at, owned, late, cancels, hurried>>

\* The connections are closed, the last first, then the process is stopped.
Released ==
    /\ point = "closing" /\ owned # {}
    /\ resource' = [resource EXCEPT ![Max(owned)] = "closed"]
    /\ owned' = owned \ {Max(owned)}
    /\ UNCHANGED <<at, point, late, cancels, hurried>>

Returned ==
    /\ point = "closing" /\ owned = {} /\ point' = "over"
    /\ UNCHANGED <<at, resource, owned, late, cancels, hurried>>

-----------------------------------------------------------------------------
(* its environment *)

\* An acquisition ends, also one that was cancelled, one way or the other.
Settled(r) ==
    /\ resource[r] = "pending"
    /\ \E outcome \in {"open", "failed"} : resource' = [resource EXCEPT ![r] = outcome]
    /\ UNCHANGED <<at, point, owned, late, cancels, hurried>>

LateCleanup(r) ==
    /\ r \in late /\ resource[r] = "open"
    /\ resource' = [resource EXCEPT ![r] = "closed"]
    /\ UNCHANGED <<at, point, owned, late, cancels, hurried>>

\* A cancellation at an await.  While it recovers, cleans or closes, it gives up what it was
\* about to do there; the finally is still run, unless it is itself what is interrupted.
Cancelled ==
    /\ cancels < MaxCancels /\ cancels' = cancels + 1
    /\ \/ point = "acquiring" /\ point' = "recovering" /\ UNCHANGED hurried
       \/ point \in {"listening", "probing"} /\ point' = "closing" /\ UNCHANGED hurried
       \/ point \in {"recovering", "cancelling", "cleaning"} /\ point' = "closing" /\ hurried' = TRUE
       \/ point = "closing" /\ owned # {} /\ point' = "over" /\ hurried' = TRUE
    /\ UNCHANGED <<at, resource, owned, late>>

-----------------------------------------------------------------------------

Probe ==
    \/ ProbeStart \/ Acquired \/ Listened \/ Probed
    \/ Recovered \/ Expired \/ Cleaned \/ Released \/ Returned

ProbeNext == Probe \/ Cancelled \/ \E r \in Resources : Settled(r) \/ LateCleanup(r)

ProbeSpec == ProbeInit /\ [][ProbeNext]_probeVars

-----------------------------------------------------------------------------

\* A probe that is over has given back every process and connection, including those that
\* came after it was cancelled, or a callback waits for them; unless it was cancelled while
\* it was giving back (_acquire_resource, run_local_probe).
NothingLeaks ==
    point = "over" /\ ~hurried =>
        \A r \in Resources : resource[r] \in {"pending", "open"} => r \in late
=============================================================================
