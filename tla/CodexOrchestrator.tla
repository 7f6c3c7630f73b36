------------------------ MODULE CodexOrchestrator ------------------------
(***************************************************************************)
(* CodexOrchestrator: what its handlers do to the store, to the dict of    *)
(* live interactions and to the outbox.  Each operator below is one run of *)
(* a handler from its start, or from an await, up to its next await: the   *)
(* event loop runs nothing else in between (_emit never suspends).  What   *)
(* the handlers wait for, and who calls them, is in CodexSystem.           *)
(***************************************************************************)
EXTENDS CodexStore

CONSTANT Interactive    \* the sessions hosted by a native TUI (_interactive_sessions)

VARIABLES
    live,       \* keys of _live, the interactions this process can answer
    notices     \* notices[s]: "session ended" notifications put in the outbox

orchVars == <<sessions, interactions, live, notices>>

\* Rows are compared by the order in which they were inserted.
ASSUME KeysAssumption == Sessions \subseteq Nat /\ Interactions \subseteq Nat
ASSUME InteractiveAssumption == Interactive \subseteq Sessions

OrchInit ==
    /\ StoreInit
    /\ live = {}
    /\ notices = [s \in Sessions |-> 0]

-----------------------------------------------------------------------------
(* Lookups.  Each yields the set of what it finds, empty for None.          *)

\* get_session_by_thread: thread_id is not unique, the first row is returned.
SessionOfThread(t) ==
    {s \in Sessions : sessions[s].thread = t
                        /\ \A q \in Sessions : sessions[q].thread = t => s <= q}

\* _find_live_by_request_id: the first entry, in insertion order, of any session.
LiveByRequest(r) ==
    {i \in live : interactions[i].request = r
                    /\ \A j \in live : interactions[j].request = r => i <= j}

LiveOf(S) == {i \in live : interactions[i].session \in S}

\* The next uuid; naturals stand for the order of insertion.
NextInteraction(i) ==
    /\ interactions[i].status = "absent"
    /\ \A j \in Interactions : j < i => interactions[j].status # "absent"

-----------------------------------------------------------------------------
(* Ends of sessions. *)

\* Mutant of EndSessions: the live interactions of other sessions go too.
EndAndDropAll(S, status) ==
    /\ ClaimTerminal(S, status, "cancelled")
    /\ notices' = [s \in Sessions |-> IF s \in S THEN notices[s] + 1 ELSE notices[s]]
    /\ live' = {}

\* A claim that wins drops the live interactions and emits; _interrupt_session,
\* cancel_session, close_interactive_session and the end of a managed turn.
EndSessions(S, status) ==
    /\ ClaimTerminal(S, status, "cancelled")
    /\ live' = live \ LiveOf(S)
    /\ notices' = [s \in Sessions |-> IF s \in S THEN notices[s] + 1 ELSE notices[s]]

EndIfActive(s, status) ==
    IF Active(s) THEN EndSessions({s}, status) ELSE UNCHANGED orchVars

\* Mutant of InterruptAll: sessions that wait for an answer are left alone.
InterruptRunning ==
    LET S == {s \in Sessions : sessions[s].status \in {"starting", "running"}} IN
    IF S # {} THEN EndSessions(S, "interrupted") ELSE UNCHANGED orchVars

\* The monitor and a failing consumer interrupt every active session, whatever
\* process hosts it.
InterruptAll ==
    LET S == {s \in Sessions : Active(s)} IN
    IF S # {} THEN EndSessions(S, "interrupted") ELSE UNCHANGED orchVars

\* create_session after an exception: the claim, but no _drop_live_for_session.
FailStartup(s) ==
    IF Active(s)
    THEN /\ ClaimTerminal({s}, "failed", "cancelled")
         /\ notices' = [notices EXCEPT ![s] = @ + 1]
         /\ UNCHANGED live
    ELSE UNCHANGED orchVars

\* Mutant of Reconcile: pending interactions survive the restart.
ReconcileSessionsOnly ==
    /\ sessions' = [s \in Sessions |->
           IF Active(s) THEN [sessions[s] EXCEPT !.status = "interrupted"] ELSE sessions[s]]
    /\ UNCHANGED interactions
    /\ live' = {}
    /\ notices' = [s \in Sessions |-> IF Active(s) THEN notices[s] + 1 ELSE notices[s]]

\* Mutant of Reconcile: sessions that had ended are reported again.
ReconcileReportsAll ==
    /\ ReconcileStartup
    /\ live' = {}
    /\ notices' = [s \in Sessions |->
           IF sessions[s].status # "absent" THEN notices[s] + 1 ELSE notices[s]]

\* start: reconcile_startup on a new process, whose _live is empty.
Reconcile ==
    /\ ReconcileStartup
    /\ live' = {}
    /\ notices' = [s \in Sessions |-> IF Active(s) THEN notices[s] + 1 ELSE notices[s]]

-----------------------------------------------------------------------------
(* Server requests. *)

\* Mutant of Accepts: a request of an earlier turn is let through.
AcceptsAnyTurn(s, u, r) == Active(s) /\ RequestFree(r)

\* Mutant of Accepts: a session that waits already takes no other request.
AcceptsOne(s, u, r) == sessions[s].status = "running" /\ RequestFree(r)

\* process_server_request takes the request r of turn u for session s.
Accepts(s, u, r) ==
    /\ Active(s)
    /\ s \in Interactive => sessions[s].turn = u
    /\ RequestFree(r)

OpenLive(i, s, r, k) ==
    /\ NextInteraction(i)
    /\ OpenInteraction(i, s, r, k)
    /\ live' = live \cup {i}
    /\ UNCHANGED notices

\* The claim of resolve_interaction, resolve_terminal_request and
\* expire_due_interactions, up to the await of the responder.
Decide(i, d, a, status) ==
    /\ i \in live
    /\ Resolve(i, d, a, status)
    /\ live' = live \ {i}
    /\ UNCHANGED notices

-----------------------------------------------------------------------------
(* process_notification *)

\* Mutant of RequestResolved: every entry of the session goes.
ResolvedDropsSession(r) ==
    IF LiveByRequest(r) = {} THEN UNCHANGED orchVars
    ELSE \E i \in LiveByRequest(r) :
            /\ IF Pending(i) THEN CancelInteraction(i) ELSE UNCHANGED storeVars
            /\ live' = live \ LiveOf({interactions[i].session})
            /\ UNCHANGED notices

\* serverRequest/resolved; the row may have been closed under a leaked entry.
RequestResolved(r) ==
    IF LiveByRequest(r) = {} THEN UNCHANGED orchVars
    ELSE \E i \in LiveByRequest(r) :
            /\ IF Pending(i) THEN CancelInteraction(i) ELSE UNCHANGED storeVars
            /\ live' = live \ {i}
            /\ UNCHANGED notices

TurnStarted(t, u) ==
    IF \E s \in SessionOfThread(t) : Active(s)
    THEN (\E s \in SessionOfThread(t) : BindTurn(s, u)) /\ UNCHANGED <<live, notices>>
    ELSE UNCHANGED orchVars

FinishInteractive(s, u) ==
    /\ FinishTurn(s, u)
    /\ live' = live \ LiveOf({s})
    /\ UNCHANGED notices

\* turn/completed: an interactive session goes on if it was its turn, a managed
\* session ends with the outcome of any turn.
TurnCompleted(t, u, outcome) ==
    IF \E s \in SessionOfThread(t) :
          Active(s) /\ (s \in Interactive => sessions[s].turn = u)
    THEN \E s \in SessionOfThread(t) :
            IF s \in Interactive THEN FinishInteractive(s, u) ELSE EndSessions({s}, outcome)
    ELSE UNCHANGED orchVars

-----------------------------------------------------------------------------
(* The orchestrator serving any tasks that run its handlers.                *)

SessionHandler ==
    \E s \in Sessions :
        \/ CreateSession(s) /\ UNCHANGED <<live, notices>>
        \/ (\E t \in Threads : BindThread(s, t)) /\ UNCHANGED <<live, notices>>
        \/ (\E u \in Turns : BindTurn(s, u)) /\ UNCHANGED <<live, notices>>
        \/ \E u \in Turns : FinishInteractive(s, u)
        \/ FailStartup(s)

InteractionHandler ==
    \/ \E i \in Interactions, s \in Sessions, r \in Requests, k \in Kinds : OpenLive(i, s, r, k)
    \/ \E i \in Interactions, d \in Decisions, a \in Actors, st \in {"resolved", "expired"} :
          Decide(i, d, a, st)
    \/ \E r \in Requests : RequestResolved(r)

EndHandler ==
    \/ \E S \in SUBSET Sessions, status \in TerminalStatus : EndSessions(S, status)
    \/ Reconcile

OrchNext == SessionHandler \/ InteractionHandler \/ EndHandler

OrchSpec == OrchInit /\ [][OrchNext]_orchVars

-----------------------------------------------------------------------------
(* Invariants.                                                              *)

OrchTypeOK ==
    /\ TypeOK
    /\ live \subseteq Interactions
    /\ notices \in [Sessions -> Nat]

\* A pending interaction can be answered: the process still holds the request and
\* its responder.  Rows outlive the process and are closed by many hands, _live is
\* a dict beside them; a row without its entry would wait for ever.
PendingIsAnswerable == \A i \in Interactions : Pending(i) => i \in live

\* "Session ended" is put in the outbox once for every session that ended and for
\* no other, however many of cancel, close, turn end, monitor, consumers, failed
\* sends and restart race to end it.
EndedOnce ==
    \A s \in Sessions :
        notices[s] = (IF sessions[s].status \in TerminalStatus THEN 1 ELSE 0)
=============================================================================
