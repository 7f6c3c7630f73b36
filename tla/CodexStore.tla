---------------------------- MODULE CodexStore ----------------------------
(***************************************************************************)
(* SQLiteCodexStore: the sessions and interactions tables, and one action  *)
(* per transaction that the program runs on them.  Every transaction takes *)
(* the write lock (BEGIN IMMEDIATE, or a single UPDATE), so it is atomic;  *)
(* a compare-and-swap that loses, a row that is missing or an index that   *)
(* refuses a row changes nothing and is a step the action does not take.   *)
(* Timestamps, names, models and summaries are left out.                   *)
(***************************************************************************)
EXTENDS Naturals, FiniteSets

CONSTANTS
    Sessions,       \* primary keys of codex_sessions
    Interactions,   \* primary keys of codex_interactions (uuid4, never reused)
    Requests,       \* canonical JSON-RPC request ids
    Kinds,          \* the kinds of interaction the instance exercises
    Threads, Turns, \* identifiers chosen by the app-server
    Actors,         \* who may close an interaction
    Messages,       \* Lark message ids
    NoValue         \* SQL NULL

VARIABLES
    sessions,       \* sessions[s] is a row of codex_sessions
    interactions    \* interactions[i] is a row of codex_interactions

storeVars == <<sessions, interactions>>

AllKinds ==
    {"exec_approval", "file_change_approval", "permission_request", "user_input"}

ActiveStatus == {"starting", "running", "waiting_for_approval", "waiting_for_input"}
TerminalStatus == {"succeeded", "failed", "interrupted", "cancelled"}
ClosedStatus == {"resolved", "expired", "cancelled"}
Decisions == {"approved", "denied", "accept", "decline", "granted", "submitted"}

ASSUME KindsAssumption == Kinds \subseteq AllKinds
ASSUME NoValueAssumption ==
    /\ NoValue \notin Sessions /\ NoValue \notin Requests /\ NoValue \notin Kinds
    /\ NoValue \notin Threads /\ NoValue \notin Turns /\ NoValue \notin Actors
    /\ NoValue \notin Messages /\ NoValue \notin Decisions

\* _ALLOWED_DECISIONS; an answer to a user input is always recorded as submitted.
AllowedDecisions(k) ==
    CASE k = "exec_approval"        -> {"approved", "denied"}
      [] k = "file_change_approval" -> {"accept", "decline"}
      [] k = "permission_request"   -> {"granted", "denied"}
      [] k = "user_input"           -> {"submitted"}

\* "absent" is the status of a primary key that no row has yet.
SessionRow ==
    [status : ActiveStatus \cup TerminalStatus \cup {"absent"},
     thread : Threads \cup {NoValue},
     turn   : Turns \cup {NoValue}]

InteractionRow ==
    [status   : ClosedStatus \cup {"pending", "absent"},
     session  : Sessions \cup {NoValue},
     request  : Requests \cup {NoValue},
     kind     : Kinds \cup {NoValue},
     decision : Decisions \cup {NoValue},
     actor    : Actors \cup {NoValue},
     message  : Messages \cup {NoValue}]

NoSession == [status |-> "absent", thread |-> NoValue, turn |-> NoValue]

NoInteraction ==
    [status |-> "absent", session |-> NoValue, request |-> NoValue, kind |-> NoValue,
     decision |-> NoValue, actor |-> NoValue, message |-> NoValue]

StoreInit ==
    /\ sessions = [s \in Sessions |-> NoSession]
    /\ interactions = [i \in Interactions |-> NoInteraction]

-----------------------------------------------------------------------------
(* What the queries see. *)

Active(s) == sessions[s].status \in ActiveStatus
Pending(i) == interactions[i].status = "pending"
PendingOf(s) == {i \in Interactions : Pending(i) /\ interactions[i].session = s}

\* The partial unique index on request_id ... WHERE status = 'pending' has no
\* row for r: it spans all sessions.
RequestFree(r) == ~ \E i \in Interactions : Pending(i) /\ interactions[i].request = r

\* The status a session is given when only the interactions I remain pending.
RefreshedStatus(I) ==
    IF \E i \in I : interactions[i].kind = "user_input" THEN "waiting_for_input"
    ELSE IF I # {} THEN "waiting_for_approval" ELSE "running"

-----------------------------------------------------------------------------
(* Transactions on the sessions table. *)

CreateSession(s) ==
    /\ sessions[s].status = "absent"
    /\ sessions' = [sessions EXCEPT ![s] = [@ EXCEPT !.status = "starting"]]
    /\ UNCHANGED interactions

\* update_session_if_status: compare-and-swap on the status.
UpdateSessionIfStatus(s, expected, row) ==
    /\ sessions[s].status \in expected
    /\ sessions' = [sessions EXCEPT ![s] = row]
    /\ UNCHANGED interactions

BindThread(s, t) ==
    UpdateSessionIfStatus(s, {"starting"},
        [status |-> "running", thread |-> t, turn |-> NoValue])

BindTurn(s, u) ==
    UpdateSessionIfStatus(s, ActiveStatus,
        [sessions[s] EXCEPT !.status = "running", !.turn = u])

-----------------------------------------------------------------------------
(* Transactions on both tables. *)

\* create_interaction_and_mark_waiting
OpenInteraction(i, s, r, k) ==
    /\ interactions[i].status = "absent"
    /\ Active(s)
    /\ RequestFree(r)
    /\ sessions' = [sessions EXCEPT ![s] = [@ EXCEPT !.status =
           IF k = "user_input" THEN "waiting_for_input" ELSE "waiting_for_approval"]]
    /\ interactions' = [interactions EXCEPT ![i] =
           [NoInteraction EXCEPT !.status = "pending", !.session = s, !.request = r,
                                 !.kind = k]]

\* Mutant of CloseAndRefresh: the UPDATE has no condition "status = 'pending'".
CloseAnyRow(i, row) ==
    /\ interactions' = [interactions EXCEPT ![i] = row]
    /\ UNCHANGED sessions

\* Mutant of CloseAndRefresh: the session is refreshed before the row is closed.
RefreshThenClose(i, row) ==
    LET s == interactions[i].session IN
    /\ Pending(i)
    /\ interactions' = [interactions EXCEPT ![i] = row]
    /\ sessions' = IF Active(s)
                   THEN [sessions EXCEPT ![s] = [@ EXCEPT !.status = RefreshedStatus(PendingOf(s))]]
                   ELSE sessions

\* Closes a pending interaction and refreshes the status of its session.
CloseAndRefresh(i, row) ==
    LET s == interactions[i].session IN
    /\ Pending(i)
    /\ interactions' = [interactions EXCEPT ![i] = row]
    /\ sessions' = IF Active(s)
                   THEN [sessions EXCEPT ![s] =
                             [@ EXCEPT !.status = RefreshedStatus(PendingOf(s) \ {i})]]
                   ELSE sessions

\* resolve_interaction_and_refresh_session
Resolve(i, d, a, status) ==
    /\ interactions[i].status # "absent"
    /\ status \in {"resolved", "expired"}
    /\ d \in AllowedDecisions(interactions[i].kind)
    /\ CloseAndRefresh(i, [interactions[i] EXCEPT !.status = status, !.decision = d,
                                                  !.actor = a])

\* cancel_interaction_and_refresh_session
CancelInteraction(i) ==
    CloseAndRefresh(i, [interactions[i] EXCEPT !.status = "cancelled"])

\* Closes, without a decision, every pending interaction of the sessions S.
ClosePendingOf(S, status) ==
    interactions' = [i \in Interactions |->
        IF Pending(i) /\ interactions[i].session \in S
        THEN [interactions[i] EXCEPT !.status = status] ELSE interactions[i]]

\* claim_session_terminal, for every session of S: the monitor and the consumers
\* claim all active sessions in one uninterrupted run of the event loop.
ClaimTerminal(S, status, pendingStatus) ==
    /\ S # {}
    /\ \A s \in S : Active(s)
    /\ status \in TerminalStatus
    /\ pendingStatus \in {"expired", "cancelled"}
    /\ sessions' = [s \in Sessions |->
           IF s \in S THEN [sessions[s] EXCEPT !.status = status] ELSE sessions[s]]
    /\ ClosePendingOf(S, pendingStatus)

\* finish_interactive_turn
FinishTurn(s, u) ==
    /\ u # NoValue
    /\ Active(s)
    /\ sessions[s].turn = u
    /\ sessions' = [sessions EXCEPT ![s] = [@ EXCEPT !.status = "running", !.turn = NoValue]]
    /\ ClosePendingOf({s}, "cancelled")

\* reconcile_startup
ReconcileStartup ==
    /\ sessions' = [s \in Sessions |->
           IF Active(s) THEN [sessions[s] EXCEPT !.status = "interrupted"] ELSE sessions[s]]
    /\ interactions' = [i \in Interactions |->
           IF Pending(i) THEN [interactions[i] EXCEPT !.status = "expired"]
           ELSE interactions[i]]

\* attach_lark_message_id
AttachMessage(i, m) ==
    /\ Pending(i)
    /\ interactions[i].message = NoValue
    /\ interactions' = [interactions EXCEPT ![i] = [@ EXCEPT !.message = m]]
    /\ UNCHANGED sessions

-----------------------------------------------------------------------------
(* The store serving any client that calls it. *)

SessionStep ==
    \E s \in Sessions :
        \/ CreateSession(s)
        \/ \E t \in Threads : BindThread(s, t)
        \/ \E u \in Turns : BindTurn(s, u)
        \/ \E u \in Turns : FinishTurn(s, u)

InteractionStep ==
    \E i \in Interactions :
        \/ \E s \in Sessions, r \in Requests, k \in Kinds : OpenInteraction(i, s, r, k)
        \/ \E d \in Decisions, a \in Actors, st \in {"resolved", "expired"} :
               Resolve(i, d, a, st)
        \/ CancelInteraction(i)
        \/ \E m \in Messages : AttachMessage(i, m)

ClaimStep ==
    \E S \in SUBSET Sessions, st \in TerminalStatus, ps \in {"expired", "cancelled"} :
        ClaimTerminal(S, st, ps)

StoreNext == SessionStep \/ InteractionStep \/ ClaimStep \/ ReconcileStartup

StoreSpec == StoreInit /\ [][StoreNext]_storeVars

-----------------------------------------------------------------------------
(* Invariants. *)

\* Rows keep to their columns; a row that was inserted has its foreign keys.
TypeOK ==
    /\ sessions \in [Sessions -> SessionRow]
    /\ interactions \in [Interactions -> InteractionRow]
    /\ \A i \in Interactions : interactions[i].status # "absent" =>
           /\ interactions[i].session \in Sessions
           /\ interactions[i].request \in Requests
           /\ interactions[i].kind \in Kinds

\* No interaction waits for an answer once its session ended: whoever ends a
\* session (claim_session_terminal, reconcile_startup) closes them with it, and
\* no request is accepted afterwards.
PendingHasActiveSession ==
    \A i \in Interactions : Pending(i) => Active(interactions[i].session)

\* At most one interaction is pending per request id, across all sessions (the
\* partial unique index of schema version 2).
PendingRequestUnique ==
    \A i, j \in Interactions :
        Pending(i) /\ Pending(j) /\ interactions[i].request = interactions[j].request => i = j

\* A session that says it waits has something to wait for, of that sort: the
\* status column is recomputed by every transaction that closes an interaction.
\* (The converse fails: turn/started sets "running" over a pending interaction.)
WaitingHasPending ==
    \A s \in Sessions :
        /\ sessions[s].status \in {"waiting_for_approval", "waiting_for_input"}
               => PendingOf(s) # {}
        /\ sessions[s].status = "waiting_for_input"
               => \E i \in PendingOf(s) : interactions[i].kind = "user_input"

\* A decision is on record exactly for the interactions somebody decided, with
\* its author, and it is one that the kind of the interaction allows.
DecisionOnRecord ==
    \A i \in Interactions : LET row == interactions[i] IN
        /\ (row.decision = NoValue) = (row.actor = NoValue)
        /\ row.status = "resolved" => row.decision # NoValue
        /\ row.decision # NoValue =>
               /\ row.status \in {"resolved", "expired"}
               /\ row.decision \in AllowedDecisions(row.kind)

\* The tables stay consistent, whoever writes to them: typed rows, no interaction
\* that waits in a session that ended, one pending per request id, statuses that
\* agree with what is pending, and decisions with their authors.
TablesOK ==
    /\ TypeOK
    /\ PendingHasActiveSession
    /\ PendingRequestUnique
    /\ WaitingHasPending
    /\ DecisionOnRecord

-----------------------------------------------------------------------------
(* Action properties and the promise. *)

\* A session that ended never changes again: neither a late turn notification
\* nor a racing cancel, failure or restart rewrites its status or its turn.
TerminalIsFinal ==
    [][\A s \in Sessions :
          sessions[s].status \in TerminalStatus => sessions'[s] = sessions[s]]_sessions

\* How the rows show in the ledger of interactions.
LedgerPhase(i) ==
    CASE interactions[i].status = "absent"  -> "none"
      [] interactions[i].status = "pending" -> "open"
      [] OTHER -> "closed"

NoVerdict == <<"none", NoValue, NoValue>>
Verdicts == ClosedStatus \X (Decisions \cup {NoValue}) \X (Actors \cup {NoValue})

LedgerVerdict(i) ==
    IF interactions[i].status \in ClosedStatus
    THEN <<interactions[i].status, interactions[i].decision, interactions[i].actor>>
    ELSE NoVerdict

Ledger == INSTANCE InteractionLedger
              WITH Entries <- Interactions,
                   phase   <- [i \in Interactions |-> LedgerPhase(i)],
                   verdict <- [i \in Interactions |-> LedgerVerdict(i)]

\* The table implements the write-once ledger: the first response that commits
\* decides an interaction, and nothing that comes later changes it.
FirstResponseWins == Ledger!Spec
=============================================================================
