------------------------- MODULE CodexStoreProofs -------------------------
(***************************************************************************)
(* Proofs about CodexStore, for any number of sessions, interactions,      *)
(* request ids, threads and turns.  A first group of lemmas says what each *)
(* transaction does to the rows; the invariants are then proved from those *)
(* facts alone, without looking into the records again.                    *)
(***************************************************************************)
EXTENDS CodexStore, TLAPS

-----------------------------------------------------------------------------
(* Rows. *)

\* The columns that identify an interaction, and its decision and author.
SameRequest(x, y) == x.session = y.session /\ x.request = y.request /\ x.kind = y.kind
SameDecision(x, y) == x.decision = y.decision /\ x.actor = y.actor

\* Overwriting the status or the turn of a session row yields a session row.
LEMMA SessionRowType ==
    ASSUME NEW x \in SessionRow, NEW st \in ActiveStatus \cup TerminalStatus
    PROVE  /\ [x EXCEPT !.status = st] \in SessionRow
           /\ [x EXCEPT !.status = st].status = st
  BY DEF SessionRow

LEMMA TurnRowType ==
    ASSUME NEW x \in SessionRow, NEW st \in ActiveStatus \cup TerminalStatus,
           NEW u \in Turns \cup {NoValue}
    PROVE  /\ [x EXCEPT !.status = st, !.turn = u] \in SessionRow
           /\ [x EXCEPT !.status = st, !.turn = u].status = st
  BY DEF SessionRow

\* Closing an interaction without a decision changes its status only.
LEMMA ClosedRowType ==
    ASSUME NEW x \in InteractionRow, NEW st \in ClosedStatus
    PROVE  /\ [x EXCEPT !.status = st] \in InteractionRow
           /\ [x EXCEPT !.status = st].status = st
           /\ SameRequest([x EXCEPT !.status = st], x)
           /\ SameDecision([x EXCEPT !.status = st], x)
  BY DEF InteractionRow, SameRequest, SameDecision

\* Deciding an interaction keeps the columns that identify it.
LEMMA DecidedRowType ==
    ASSUME NEW x \in InteractionRow, NEW st \in ClosedStatus,
           NEW d \in Decisions, NEW a \in Actors
    PROVE  LET y == [x EXCEPT !.status = st, !.decision = d, !.actor = a] IN
           /\ y \in InteractionRow
           /\ y.status = st /\ y.decision = d /\ y.actor = a
           /\ SameRequest(y, x)
  BY DEF InteractionRow, SameRequest

\* Attaching a message keeps all the columns the invariants are about.
LEMMA MessageRowType ==
    ASSUME NEW x \in InteractionRow, NEW m \in Messages
    PROVE  /\ [x EXCEPT !.message = m] \in InteractionRow
           /\ [x EXCEPT !.message = m].status = x.status
           /\ SameRequest([x EXCEPT !.message = m], x)
           /\ SameDecision([x EXCEPT !.message = m], x)
  BY DEF InteractionRow, SameRequest, SameDecision

-----------------------------------------------------------------------------
(* What the transactions do. *)

\* The rows I are closed with one status, the others are untouched.
Closed(I, st) ==
    /\ interactions' \in [Interactions -> InteractionRow]
    /\ \A i \in Interactions :
         /\ SameRequest(interactions'[i], interactions[i])
         /\ i \in I => interactions'[i].status = st
         /\ i \notin I => interactions'[i] = interactions[i]

\* The sessions S get a status, the others are untouched.
Moved(S, st) ==
    /\ sessions' \in [Sessions -> SessionRow]
    /\ \A s \in Sessions :
         /\ s \in S => sessions'[s].status = st
         /\ s \notin S => sessions'[s] = sessions[s]

\* Row i is the new pending request r of session s, the others are untouched.
Opened(i, s, r, k) ==
    /\ interactions' \in [Interactions -> InteractionRow]
    /\ interactions'[i].status = "pending"
    /\ interactions'[i].session = s /\ interactions'[i].request = r
    /\ interactions'[i].kind = k
    /\ interactions'[i].decision = NoValue /\ interactions'[i].actor = NoValue
    /\ \A j \in Interactions \ {i} : interactions'[j] = interactions[j]

\* The session of i, if it is active, gets the status that the other pending
\* interactions call for.
Refreshed(i) ==
    LET s == interactions[i].session IN
    /\ Active(s) => Moved({s}, RefreshedStatus(PendingOf(s) \ {i}))
    /\ ~ Active(s) => sessions' = sessions

\* The row of i records a decision its kind allows, or none.
Decided(i, st) ==
    \/ st = "cancelled" /\ SameDecision(interactions'[i], interactions[i])
    \/ /\ st \in {"resolved", "expired"}
       /\ interactions'[i].decision \in AllowedDecisions(interactions[i].kind) \cap Decisions
       /\ interactions'[i].actor \in Actors

LEMMA RowsType ==
    ASSUME TypeOK
    PROVE  /\ \A s \in Sessions : sessions[s] \in SessionRow
           /\ \A i \in Interactions : interactions[i] \in InteractionRow
  BY DEF TypeOK

\* Updating one entry of a table.
LEMMA SessionUpdate ==
    ASSUME TypeOK, NEW s \in Sessions, NEW y \in SessionRow,
           sessions' = [sessions EXCEPT ![s] = y]
    PROVE  Moved({s}, y.status) /\ sessions'[s] = y
  BY DEF TypeOK, Moved

LEMMA InteractionUpdate ==
    ASSUME TypeOK, NEW i \in Interactions, NEW y \in InteractionRow,
           interactions' = [interactions EXCEPT ![i] = y]
    PROVE  /\ interactions' \in [Interactions -> InteractionRow]
           /\ interactions'[i] = y
           /\ \A j \in Interactions \ {i} : interactions'[j] = interactions[j]
  BY DEF TypeOK

\* ClosePendingOf closes the pending rows of the sessions S, without a decision.
LEMMA ClosePendingFacts ==
    ASSUME TypeOK, NEW S, NEW st \in ClosedStatus, ClosePendingOf(S, st)
    PROVE  /\ Closed({i \in Interactions : Pending(i) /\ interactions[i].session \in S}, st)
           /\ \A i \in Interactions : SameDecision(interactions'[i], interactions[i])
<1>1. \A i \in Interactions : interactions[i] \in InteractionRow
  BY RowsType
<1>2. ASSUME NEW i \in Interactions
      PROVE  /\ interactions'[i] \in InteractionRow
             /\ SameRequest(interactions'[i], interactions[i])
             /\ SameDecision(interactions'[i], interactions[i])
             /\ IF Pending(i) /\ interactions[i].session \in S
                THEN interactions'[i].status = st
                ELSE interactions'[i] = interactions[i]
  <2>1. CASE Pending(i) /\ interactions[i].session \in S
    <3>1. interactions'[i] = [interactions[i] EXCEPT !.status = st]
      BY <2>1 DEF ClosePendingOf
    <3> QED BY <1>1, <2>1, <3>1, ClosedRowType
  <2>2. CASE ~ (Pending(i) /\ interactions[i].session \in S)
    <3>1. interactions'[i] = interactions[i]
      BY <2>2 DEF ClosePendingOf
    <3> QED BY <1>1, <2>2, <3>1 DEF SameRequest, SameDecision
  <2> QED BY <2>1, <2>2
<1>3. interactions' = [i \in Interactions |-> interactions'[i]]
  BY DEF ClosePendingOf
<1>4. interactions' \in [Interactions -> InteractionRow]
  BY <1>2, <1>3
<1> QED
  BY <1>2, <1>4 DEF Closed

LEMMA RefreshedStatusType ==
    ASSUME NEW I PROVE RefreshedStatus(I) \in ActiveStatus
  BY DEF RefreshedStatus, ActiveStatus

\* create_session, the two bindings and the end of a turn.
LEMMA SessionFacts ==
    ASSUME TypeOK, NEW s \in Sessions
    PROVE  /\ CreateSession(s) =>
                 sessions[s].status = "absent" /\ Moved({s}, "starting")
                   /\ UNCHANGED interactions
           /\ \A t \in Threads : BindThread(s, t) =>
                 sessions[s].status = "starting" /\ Moved({s}, "running")
                   /\ UNCHANGED interactions
           /\ \A u \in Turns : BindTurn(s, u) =>
                 Active(s) /\ Moved({s}, "running") /\ UNCHANGED interactions
           /\ \A u \in Turns : FinishTurn(s, u) =>
                 /\ Active(s) /\ Moved({s}, "running")
                 /\ ClosePendingOf({s}, "cancelled")
<1>0. sessions[s] \in SessionRow
  BY RowsType
<1>s. {"starting", "running"} \subseteq ActiveStatus
  BY DEF ActiveStatus
<1>1. ASSUME CreateSession(s)
      PROVE  /\ sessions[s].status = "absent" /\ Moved({s}, "starting")
             /\ UNCHANGED interactions
  <2> DEFINE y == [sessions[s] EXCEPT !.status = "starting"]
  <2>1. y \in SessionRow /\ y.status = "starting"
    BY <1>0, <1>s, SessionRowType
  <2>2. /\ sessions[s].status = "absent"
        /\ sessions' = [sessions EXCEPT ![s] = y]
        /\ UNCHANGED interactions
    BY <1>1 DEF CreateSession
  <2> HIDE DEF y
  <2> QED BY <2>1, <2>2, SessionUpdate
<1>2. ASSUME NEW t \in Threads, BindThread(s, t)
      PROVE  /\ sessions[s].status = "starting" /\ Moved({s}, "running")
             /\ UNCHANGED interactions
  <2> DEFINE y == [status |-> "running", thread |-> t, turn |-> NoValue]
  <2>1. y \in SessionRow /\ y.status = "running"
    BY DEF SessionRow, ActiveStatus
  <2>2. /\ sessions[s].status = "starting"
        /\ sessions' = [sessions EXCEPT ![s] = y]
        /\ UNCHANGED interactions
    BY <1>2 DEF BindThread, UpdateSessionIfStatus
  <2> HIDE DEF y
  <2> QED BY <2>1, <2>2, SessionUpdate
<1>3. ASSUME NEW u \in Turns, BindTurn(s, u)
      PROVE  Active(s) /\ Moved({s}, "running") /\ UNCHANGED interactions
  <2> DEFINE y == [sessions[s] EXCEPT !.status = "running", !.turn = u]
  <2>1. y \in SessionRow /\ y.status = "running"
    BY <1>0, <1>s, TurnRowType
  <2>2. /\ Active(s)
        /\ sessions' = [sessions EXCEPT ![s] = y]
        /\ UNCHANGED interactions
    BY <1>3 DEF BindTurn, UpdateSessionIfStatus, Active
  <2> HIDE DEF y
  <2> QED BY <2>1, <2>2, SessionUpdate
<1>4. ASSUME NEW u \in Turns, FinishTurn(s, u)
      PROVE  Active(s) /\ Moved({s}, "running") /\ ClosePendingOf({s}, "cancelled")
  <2> DEFINE y == [sessions[s] EXCEPT !.status = "running", !.turn = NoValue]
  <2>1. y \in SessionRow /\ y.status = "running"
    BY <1>0, <1>s, TurnRowType
  <2>2. /\ Active(s) /\ ClosePendingOf({s}, "cancelled")
        /\ sessions' = [sessions EXCEPT ![s] = y]
    BY <1>4 DEF FinishTurn
  <2> HIDE DEF y
  <2> QED BY <2>1, <2>2, SessionUpdate
<1> QED BY <1>1, <1>2, <1>3, <1>4

\* create_interaction_and_mark_waiting
LEMMA OpenFacts ==
    ASSUME TypeOK, NEW i \in Interactions, NEW s \in Sessions, NEW r \in Requests,
           NEW k \in Kinds, OpenInteraction(i, s, r, k)
    PROVE  /\ interactions[i].status = "absent" /\ Active(s) /\ RequestFree(r)
           /\ Opened(i, s, r, k)
           /\ Moved({s}, IF k = "user_input" THEN "waiting_for_input"
                                             ELSE "waiting_for_approval")
<1> DEFINE st == IF k = "user_input" THEN "waiting_for_input" ELSE "waiting_for_approval"
           x == [sessions[s] EXCEPT !.status = st]
           y == [NoInteraction EXCEPT !.status = "pending", !.session = s, !.request = r,
                                      !.kind = k]
<1>1. sessions[s] \in SessionRow
  BY RowsType
<1>2. st \in ActiveStatus
  BY DEF ActiveStatus
<1>3. x \in SessionRow /\ x.status = st
  <2> HIDE DEF st
  <2> QED BY <1>1, <1>2, SessionRowType
<1>4. /\ sessions' = [sessions EXCEPT ![s] = x]
      /\ interactions' = [interactions EXCEPT ![i] = y]
      /\ interactions[i].status = "absent" /\ Active(s) /\ RequestFree(r)
  BY DEF OpenInteraction
<1>5. y \in InteractionRow
  BY DEF InteractionRow, NoInteraction
<1>6. /\ y.status = "pending" /\ y.session = s /\ y.request = r /\ y.kind = k
      /\ y.decision = NoValue /\ y.actor = NoValue
  BY DEF NoInteraction
<1> HIDE DEF x, y
<1>7. Opened(i, s, r, k)
  BY <1>4, <1>5, <1>6, InteractionUpdate DEF Opened
<1>8. Moved({s}, st)
  <2> HIDE DEF st
  <2> QED BY <1>3, <1>4, SessionUpdate, ZenonT(60)
<1> QED BY <1>4, <1>7, <1>8

\* Closing one pending interaction and refreshing its session.  The new status of
\* the session follows from the interactions that remain pending.
LEMMA CloseFacts ==
    ASSUME TypeOK, NEW i \in Interactions, NEW y \in InteractionRow, CloseAndRefresh(i, y),
           SameRequest(y, interactions[i])
    PROVE  Pending(i) /\ Closed({i}, y.status) /\ interactions'[i] = y /\ Refreshed(i)
<1> DEFINE s == interactions[i].session
           st == RefreshedStatus(PendingOf(s) \ {i})
           x == [sessions[s] EXCEPT !.status = st]
<1>1. /\ Pending(i)
      /\ interactions' = [interactions EXCEPT ![i] = y]
      /\ Active(s) => sessions' = [sessions EXCEPT ![s] = x]
      /\ ~ Active(s) => sessions' = sessions
  BY DEF CloseAndRefresh
<1>2. s \in Sessions
  BY <1>1 DEF Pending, TypeOK
<1>3. x \in SessionRow /\ x.status = st
  <2>1. sessions[s] \in SessionRow
    BY <1>2, RowsType
  <2>2. st \in ActiveStatus
    BY RefreshedStatusType
  <2> HIDE DEF s, st
  <2> QED BY <2>1, <2>2, SessionRowType
<1>4. Closed({i}, y.status) /\ interactions'[i] = y
  BY <1>1, InteractionUpdate DEF Closed, SameRequest
<1> HIDE DEF s, st, x
<1>5. Active(s) => Moved({s}, st)
  BY <1>1, <1>2, <1>3, SessionUpdate
<1>6. Refreshed(i)
  BY <1>1, <1>5 DEF Refreshed, s, st
<1> QED BY <1>1, <1>4, <1>6

\* resolve_interaction_and_refresh_session
LEMMA ResolveFacts ==
    ASSUME TypeOK, NEW i \in Interactions, NEW d \in Decisions, NEW a \in Actors,
           NEW st \in {"resolved", "expired"}, Resolve(i, d, a, st)
    PROVE  Pending(i) /\ Closed({i}, st) /\ Decided(i, st) /\ Refreshed(i)
<1> DEFINE y == [interactions[i] EXCEPT !.status = st, !.decision = d, !.actor = a]
<1>1. CloseAndRefresh(i, y) /\ d \in AllowedDecisions(interactions[i].kind)
  BY DEF Resolve
<1>2. interactions[i] \in InteractionRow
  BY RowsType
<1>3. st \in ClosedStatus
  BY DEF ClosedStatus
<1>4. /\ y \in InteractionRow
      /\ y.status = st /\ y.decision = d /\ y.actor = a
      /\ SameRequest(y, interactions[i])
  BY <1>2, <1>3, DecidedRowType
<1> HIDE DEF y
<1>5. Pending(i) /\ Closed({i}, st) /\ interactions'[i] = y /\ Refreshed(i)
  BY <1>1, <1>4, CloseFacts
<1>6. Decided(i, st)
  BY <1>1, <1>4, <1>5 DEF Decided
<1> QED BY <1>5, <1>6

\* cancel_interaction_and_refresh_session
LEMMA CancelFacts ==
    ASSUME TypeOK, NEW i \in Interactions, CancelInteraction(i)
    PROVE  Pending(i) /\ Closed({i}, "cancelled") /\ Decided(i, "cancelled") /\ Refreshed(i)
<1> DEFINE y == [interactions[i] EXCEPT !.status = "cancelled"]
<1>1. CloseAndRefresh(i, y)
  BY DEF CancelInteraction
<1>2. interactions[i] \in InteractionRow
  BY RowsType
<1>3. "cancelled" \in ClosedStatus
  BY DEF ClosedStatus
<1>4. /\ y \in InteractionRow
      /\ y.status = "cancelled"
      /\ SameRequest(y, interactions[i]) /\ SameDecision(y, interactions[i])
  BY <1>2, <1>3, ClosedRowType
<1> HIDE DEF y
<1>5. Pending(i) /\ Closed({i}, "cancelled") /\ interactions'[i] = y /\ Refreshed(i)
  BY <1>1, <1>4, CloseFacts
<1>6. Decided(i, "cancelled")
  BY <1>4, <1>5 DEF Decided
<1> QED BY <1>5, <1>6

\* claim_session_terminal
LEMMA ClaimFacts ==
    ASSUME TypeOK, NEW S \in SUBSET Sessions, NEW st \in TerminalStatus,
           NEW ps \in {"expired", "cancelled"}, ClaimTerminal(S, st, ps)
    PROVE  /\ \A s \in S : Active(s)
           /\ Moved(S, st)
           /\ ClosePendingOf(S, ps)
<1>1. /\ \A s \in S : Active(s)
      /\ ClosePendingOf(S, ps)
      /\ sessions' = [s \in Sessions |->
             IF s \in S THEN [sessions[s] EXCEPT !.status = st] ELSE sessions[s]]
  BY DEF ClaimTerminal
<1>2. ASSUME NEW s \in Sessions
      PROVE  /\ sessions'[s] \in SessionRow
             /\ s \in S => sessions'[s].status = st
             /\ s \notin S => sessions'[s] = sessions[s]
  <2>1. sessions[s] \in SessionRow
    BY RowsType
  <2>2. CASE s \in S
    <3>1. sessions'[s] = [sessions[s] EXCEPT !.status = st]
      BY <1>1, <2>2
    <3> QED BY <2>1, <2>2, <3>1, SessionRowType
  <2>3. CASE s \notin S
    BY <1>1, <2>1, <2>3
  <2> QED BY <2>2, <2>3
<1>3. sessions' = [s \in Sessions |-> sessions'[s]]
  BY <1>1
<1>4. sessions' \in [Sessions -> SessionRow]
  BY <1>2, <1>3
<1> QED BY <1>1, <1>2, <1>4 DEF Moved

\* reconcile_startup
LEMMA ReconcileFacts ==
    ASSUME TypeOK, ReconcileStartup
    PROVE  /\ Moved({s \in Sessions : Active(s)}, "interrupted")
           /\ Closed({i \in Interactions : Pending(i)}, "expired")
           /\ \A i \in Interactions : SameDecision(interactions'[i], interactions[i])
<1>1. ASSUME NEW s \in Sessions
      PROVE  /\ sessions'[s] \in SessionRow
             /\ Active(s) => sessions'[s].status = "interrupted"
             /\ ~ Active(s) => sessions'[s] = sessions[s]
  <2>1. sessions[s] \in SessionRow /\ "interrupted" \in TerminalStatus
    BY RowsType DEF TerminalStatus
  <2>2. CASE Active(s)
    <3>1. sessions'[s] = [sessions[s] EXCEPT !.status = "interrupted"]
      BY <2>2 DEF ReconcileStartup
    <3> QED BY <2>1, <2>2, <3>1, SessionRowType
  <2>3. CASE ~ Active(s)
    <3>1. sessions'[s] = sessions[s]
      BY <2>3 DEF ReconcileStartup
    <3> QED BY <2>1, <2>3, <3>1
  <2> QED BY <2>2, <2>3
<1>2. ASSUME NEW i \in Interactions
      PROVE  /\ interactions'[i] \in InteractionRow
             /\ SameRequest(interactions'[i], interactions[i])
             /\ SameDecision(interactions'[i], interactions[i])
             /\ Pending(i) => interactions'[i].status = "expired"
             /\ ~ Pending(i) => interactions'[i] = interactions[i]
  <2>1. interactions[i] \in InteractionRow /\ "expired" \in ClosedStatus
    BY RowsType DEF ClosedStatus
  <2>2. CASE Pending(i)
    <3>1. interactions'[i] = [interactions[i] EXCEPT !.status = "expired"]
      BY <2>2 DEF ReconcileStartup
    <3> QED BY <2>1, <2>2, <3>1, ClosedRowType
  <2>3. CASE ~ Pending(i)
    <3>1. interactions'[i] = interactions[i]
      BY <2>3 DEF ReconcileStartup
    <3> QED BY <2>1, <2>3, <3>1 DEF SameRequest, SameDecision
  <2> QED BY <2>2, <2>3
<1>3. sessions' = [s \in Sessions |-> sessions'[s]]
      /\ interactions' = [i \in Interactions |-> interactions'[i]]
  BY DEF ReconcileStartup
<1>4. /\ sessions' \in [Sessions -> SessionRow]
      /\ interactions' \in [Interactions -> InteractionRow]
  BY <1>1, <1>2, <1>3
<1> QED BY <1>1, <1>2, <1>4 DEF Moved, Closed

\* attach_lark_message_id
LEMMA AttachFacts ==
    ASSUME TypeOK, NEW i \in Interactions, NEW m \in Messages, AttachMessage(i, m)
    PROVE  /\ interactions' \in [Interactions -> InteractionRow]
           /\ sessions' = sessions
           /\ \A j \in Interactions :
                /\ interactions'[j].status = interactions[j].status
                /\ SameRequest(interactions'[j], interactions[j])
                /\ SameDecision(interactions'[j], interactions[j])
<1> DEFINE y == [interactions[i] EXCEPT !.message = m]
<1>1. sessions' = sessions /\ interactions' = [interactions EXCEPT ![i] = y]
  BY DEF AttachMessage
<1>2. interactions[i] \in InteractionRow
  BY RowsType
<1>3. /\ y \in InteractionRow
      /\ y.status = interactions[i].status
      /\ SameRequest(y, interactions[i]) /\ SameDecision(y, interactions[i])
  BY <1>2, MessageRowType
<1> HIDE DEF y
<1> QED BY <1>1, <1>3, InteractionUpdate DEF SameRequest, SameDecision

-----------------------------------------------------------------------------
(* Every step of the store has one of five effects. *)

\* A session is created, bound to a thread or bound to a turn.
SessionEffect ==
    \E s \in Sessions, st \in {"starting", "running"} :
        /\ sessions[s].status \notin TerminalStatus
        /\ Moved({s}, st)
        /\ UNCHANGED interactions

OpenEffect ==
    \E i \in Interactions, s \in Sessions, r \in Requests, k \in Kinds :
        /\ interactions[i].status = "absent" /\ Active(s) /\ RequestFree(r)
        /\ Opened(i, s, r, k)
        /\ Moved({s}, IF k = "user_input" THEN "waiting_for_input"
                                          ELSE "waiting_for_approval")

CloseEffect ==
    \E i \in Interactions, st \in ClosedStatus :
        Pending(i) /\ Closed({i}, st) /\ Decided(i, st) /\ Refreshed(i)

\* The pending interactions I are those of the sessions S, and maybe some whose
\* session is not active.
Leaves(S, I) ==
    /\ \A i \in I : /\ Pending(i)
                    /\ Active(interactions[i].session) => interactions[i].session \in S
    /\ \A i \in Interactions : Pending(i) /\ interactions[i].session \in S => i \in I

SameDecisions == \A i \in Interactions : SameDecision(interactions'[i], interactions[i])
AllActive(S) == \A s \in S : Active(s)

\* A turn or some sessions end, and every interaction they leave pending is closed.
EndEffect ==
    \E S \in SUBSET Sessions, I \in SUBSET Interactions,
       st \in TerminalStatus \cup {"running"}, ps \in {"expired", "cancelled"} :
        AllActive(S) /\ Leaves(S, I) /\ Moved(S, st) /\ Closed(I, ps) /\ SameDecisions

AttachEffect ==
    /\ interactions' \in [Interactions -> InteractionRow]
    /\ sessions' = sessions
    /\ \A j \in Interactions :
         /\ interactions'[j].status = interactions[j].status
         /\ SameRequest(interactions'[j], interactions[j])
         /\ SameDecision(interactions'[j], interactions[j])

LEMMA StepEffects ==
    ASSUME TypeOK, StoreNext
    PROVE  SessionEffect \/ OpenEffect \/ CloseEffect \/ EndEffect \/ AttachEffect
<1>0. \A s \in Sessions : Active(s) => sessions[s].status \notin TerminalStatus
  BY DEF Active, ActiveStatus, TerminalStatus
<1>1. ASSUME NEW s \in Sessions, CreateSession(s) PROVE SessionEffect
  BY <1>1, SessionFacts DEF SessionEffect, TerminalStatus
<1>2. ASSUME NEW s \in Sessions, NEW t \in Threads, BindThread(s, t) PROVE SessionEffect
  BY <1>2, SessionFacts DEF SessionEffect, TerminalStatus
<1>3. ASSUME NEW s \in Sessions, NEW u \in Turns, BindTurn(s, u) PROVE SessionEffect
  BY <1>0, <1>3, SessionFacts DEF SessionEffect
<1>4. ASSUME NEW s \in Sessions, NEW u \in Turns, FinishTurn(s, u) PROVE EndEffect
  <2> DEFINE I == {i \in Interactions : Pending(i) /\ interactions[i].session \in {s}}
  <2>1. Active(s) /\ Moved({s}, "running") /\ ClosePendingOf({s}, "cancelled")
    BY <1>4, SessionFacts
  <2>2. Closed(I, "cancelled") /\ SameDecisions
    BY <2>1, ClosePendingFacts DEF ClosedStatus, SameDecisions
  <2>3. /\ I \in SUBSET Interactions /\ {s} \in SUBSET Sessions
        /\ AllActive({s}) /\ Leaves({s}, I)
    BY <2>1 DEF AllActive, Leaves
  <2> HIDE DEF I
  <2> QED BY <2>1, <2>2, <2>3 DEF EndEffect
<1>5. ASSUME NEW i \in Interactions, NEW s \in Sessions, NEW r \in Requests, NEW k \in Kinds,
             OpenInteraction(i, s, r, k)
      PROVE  OpenEffect
  BY <1>5, OpenFacts DEF OpenEffect
<1>6. ASSUME NEW i \in Interactions, NEW d \in Decisions, NEW a \in Actors,
             NEW st \in {"resolved", "expired"}, Resolve(i, d, a, st)
      PROVE  CloseEffect
  <2>1. st \in ClosedStatus
    BY DEF ClosedStatus
  <2> QED BY <1>6, <2>1, ResolveFacts DEF CloseEffect
<1>7. ASSUME NEW i \in Interactions, CancelInteraction(i) PROVE CloseEffect
  <2>1. "cancelled" \in ClosedStatus
    BY DEF ClosedStatus
  <2> QED BY <1>7, <2>1, CancelFacts DEF CloseEffect
<1>8. ASSUME NEW i \in Interactions, NEW m \in Messages, AttachMessage(i, m)
      PROVE  AttachEffect
  BY <1>8, AttachFacts DEF AttachEffect
<1>9. ASSUME NEW S \in SUBSET Sessions, NEW st \in TerminalStatus,
             NEW ps \in {"expired", "cancelled"}, ClaimTerminal(S, st, ps)
      PROVE  EndEffect
  <2> DEFINE I == {i \in Interactions : Pending(i) /\ interactions[i].session \in S}
  <2>1. (\A s \in S : Active(s)) /\ Moved(S, st) /\ ClosePendingOf(S, ps)
    BY <1>9, ClaimFacts
  <2>2. Closed(I, ps) /\ SameDecisions
    BY <2>1, ClosePendingFacts DEF ClosedStatus, SameDecisions
  <2>3. I \in SUBSET Interactions /\ AllActive(S) /\ Leaves(S, I)
    BY <2>1 DEF AllActive, Leaves
  <2> HIDE DEF I
  <2> QED BY <2>1, <2>2, <2>3 DEF EndEffect
<1>10. ASSUME ReconcileStartup PROVE EndEffect
  <2> DEFINE S == {s \in Sessions : Active(s)}
             I == {i \in Interactions : Pending(i)}
  <2>1. Moved(S, "interrupted") /\ Closed(I, "expired")
    BY <1>10, ReconcileFacts
  <2>2. SameDecisions
    BY <1>10, ReconcileFacts DEF SameDecisions
  <2>3. I \in SUBSET Interactions /\ S \in SUBSET Sessions /\ "interrupted" \in TerminalStatus
    BY DEF TerminalStatus
  <2>4. \A i \in I : interactions[i].session \in Sessions
    BY DEF TypeOK, Pending
  <2>5. AllActive(S) /\ Leaves(S, I)
    BY <2>4 DEF AllActive, Leaves
  <2> HIDE DEF I, S
  <2> QED BY <2>1, <2>2, <2>3, <2>5 DEF EndEffect
<1> QED
  BY <1>1, <1>2, <1>3, <1>4, <1>5, <1>6, <1>7, <1>8, <1>9, <1>10
  DEF StoreNext, SessionStep, InteractionStep, ClaimStep

-----------------------------------------------------------------------------
(* Type correctness. *)

\* The initial tables are empty.
LEMMA InitType == StoreInit => TypeOK
  BY DEF StoreInit, TypeOK, NoSession, NoInteraction, SessionRow, InteractionRow

LEMMA StepType == TypeOK /\ StoreNext => TypeOK'
<1> SUFFICES ASSUME TypeOK, StoreNext PROVE TypeOK'
  OBVIOUS
<1> DEFINE HasKeys(x) == /\ x.session \in Sessions /\ x.request \in Requests
                         /\ x.kind \in Kinds
<1>0. \A i \in Interactions : interactions[i].status # "absent" => HasKeys(interactions[i])
  BY DEF TypeOK
<1>1. CASE SessionEffect
  BY <1>0, <1>1 DEF SessionEffect, Moved, TypeOK
<1>2. CASE OpenEffect
  <2>1. PICK i \in Interactions, s \in Sessions, r \in Requests, k \in Kinds :
            Opened(i, s, r, k) /\ sessions' \in [Sessions -> SessionRow]
    BY <1>2 DEF OpenEffect, Moved
  <2>2. HasKeys(interactions'[i])
    BY <2>1 DEF Opened
  <2>3. ASSUME NEW j \in Interactions, interactions'[j].status # "absent"
        PROVE  HasKeys(interactions'[j])
    BY <1>0, <2>1, <2>2, <2>3 DEF Opened
  <2> QED BY <2>1, <2>3 DEF Opened, TypeOK
<1>3. CASE CloseEffect
  <2>1. PICK i \in Interactions, st \in ClosedStatus :
            Pending(i) /\ Closed({i}, st) /\ Refreshed(i)
    BY <1>3 DEF CloseEffect
  <2>2. sessions' \in [Sessions -> SessionRow]
    BY <2>1 DEF Refreshed, Moved, TypeOK
  <2>3. ASSUME NEW j \in Interactions, interactions'[j].status # "absent"
        PROVE  HasKeys(interactions'[j])
    BY <1>0, <2>1, <2>3 DEF Closed, SameRequest, Pending
  <2> QED BY <2>1, <2>2, <2>3 DEF Closed, TypeOK
<1>4. CASE EndEffect
  <2>1. PICK S \in SUBSET Sessions, I \in SUBSET Interactions,
             st \in TerminalStatus \cup {"running"}, ps \in {"expired", "cancelled"} :
            Leaves(S, I) /\ Moved(S, st) /\ Closed(I, ps)
    BY <1>4 DEF EndEffect
  <2>2. ASSUME NEW j \in Interactions, interactions'[j].status # "absent"
        PROVE  HasKeys(interactions'[j])
    BY <1>0, <2>1, <2>2 DEF Closed, SameRequest, Leaves, Pending
  <2> QED BY <2>1, <2>2 DEF Closed, Moved, TypeOK
<1>5. CASE AttachEffect
  BY <1>0, <1>5 DEF AttachEffect, SameRequest, TypeOK
<1> QED BY <1>1, <1>2, <1>3, <1>4, <1>5, StepEffects

\* The rows keep to their columns, whatever the program asks of the store.
THEOREM TypeCorrect == StoreSpec => []TypeOK
<1>1. TypeOK /\ UNCHANGED storeVars => TypeOK'
  BY DEF TypeOK, storeVars
<1> QED BY <1>1, InitType, StepType, PTL DEF StoreSpec

-----------------------------------------------------------------------------
(* Sessions and their pending interactions. *)

LEMMA StepPendingActive ==
    TypeOK /\ PendingHasActiveSession /\ StoreNext => PendingHasActiveSession'
<1> SUFFICES ASSUME TypeOK, PendingHasActiveSession, StoreNext,
                    NEW j \in Interactions, interactions'[j].status = "pending"
             PROVE  sessions'[interactions'[j].session].status \in ActiveStatus
  BY DEF PendingHasActiveSession, Pending, Active
<1> DEFINE t == interactions[j].session
<1>0. Pending(j) => t \in Sessions /\ Active(t)
  BY DEF PendingHasActiveSession, Pending, TypeOK
<1>1. CASE SessionEffect
  <2>1. PICK s \in Sessions, st \in {"starting", "running"} :
            Moved({s}, st) /\ interactions' = interactions
    BY <1>1 DEF SessionEffect
  <2>2. Pending(j) /\ interactions'[j].session = t
    BY <2>1 DEF Pending
  <2> QED BY <1>0, <2>1, <2>2 DEF Moved, Active, ActiveStatus
<1>2. CASE OpenEffect
  <2>1. PICK i \in Interactions, s \in Sessions, r \in Requests, k \in Kinds :
            /\ Opened(i, s, r, k)
            /\ Moved({s}, IF k = "user_input" THEN "waiting_for_input"
                                              ELSE "waiting_for_approval")
    BY <1>2 DEF OpenEffect
  <2>2. CASE j = i
    BY <2>1, <2>2 DEF Opened, Moved, ActiveStatus
  <2>3. CASE j # i
    <3>1. Pending(j) /\ interactions'[j].session = t
      BY <2>1, <2>3 DEF Opened, Pending
    <3> QED BY <1>0, <2>1, <3>1 DEF Moved, Active, ActiveStatus
  <2> QED BY <2>2, <2>3
<1>3. CASE CloseEffect
  <2>1. PICK i \in Interactions, st \in ClosedStatus :
            Pending(i) /\ Closed({i}, st) /\ Refreshed(i)
    BY <1>3 DEF CloseEffect
  <2>2. Pending(j) /\ interactions'[j].session = t
    BY <2>1 DEF Closed, SameRequest, Pending, ClosedStatus
  <2>3. CASE Active(interactions[i].session)
    BY <1>0, <2>1, <2>2, <2>3, RefreshedStatusType DEF Refreshed, Moved, Active
  <2>4. CASE ~ Active(interactions[i].session)
    BY <1>0, <2>1, <2>2, <2>4 DEF Refreshed, Active
  <2> QED BY <2>3, <2>4
<1>4. CASE EndEffect
  <2>1. PICK S \in SUBSET Sessions, I \in SUBSET Interactions,
             st \in TerminalStatus \cup {"running"}, ps \in {"expired", "cancelled"} :
            Leaves(S, I) /\ Moved(S, st) /\ Closed(I, ps)
    BY <1>4 DEF EndEffect
  <2>2. Pending(j) /\ j \notin I /\ interactions'[j].session = t
    BY <2>1 DEF Closed, SameRequest, Pending
  <2>3. t \notin S
    BY <2>1, <2>2 DEF Leaves
  <2> QED BY <1>0, <2>1, <2>2, <2>3 DEF Moved, Active
<1>5. CASE AttachEffect
  <2>1. Pending(j) /\ interactions'[j].session = t /\ sessions' = sessions
    BY <1>5 DEF AttachEffect, SameRequest, Pending
  <2> QED BY <1>0, <2>1 DEF Active
<1> QED BY <1>1, <1>2, <1>3, <1>4, <1>5, StepEffects

\* No interaction waits for an answer once its session ended.
THEOREM PendingActive == StoreSpec => []PendingHasActiveSession
<1>1. StoreInit => PendingHasActiveSession
  BY DEF StoreInit, PendingHasActiveSession, Pending, NoInteraction
<1>2. PendingHasActiveSession /\ UNCHANGED storeVars => PendingHasActiveSession'
  BY DEF PendingHasActiveSession, Pending, Active, storeVars
<1> QED BY <1>1, <1>2, StepPendingActive, TypeCorrect, PTL DEF StoreSpec

LEMMA StepRequestUnique ==
    TypeOK /\ PendingRequestUnique /\ StoreNext => PendingRequestUnique'
<1> SUFFICES ASSUME TypeOK, PendingRequestUnique, StoreNext,
                    NEW i \in Interactions, NEW j \in Interactions,
                    interactions'[i].status = "pending", interactions'[j].status = "pending",
                    interactions'[i].request = interactions'[j].request
             PROVE  i = j
  BY DEF PendingRequestUnique, Pending
<1>0. Pending(i) /\ Pending(j) /\ interactions[i].request = interactions[j].request => i = j
  BY DEF PendingRequestUnique
<1>1. CASE SessionEffect
  BY <1>0, <1>1 DEF SessionEffect, Pending
<1>2. CASE OpenEffect
  <2>1. PICK n \in Interactions, s \in Sessions, r \in Requests, k \in Kinds :
            RequestFree(r) /\ Opened(n, s, r, k)
    BY <1>2 DEF OpenEffect
  <2>2. \A m \in Interactions \ {n} :
            interactions'[m].status = "pending" => interactions'[m].request # r
    BY <2>1 DEF Opened, RequestFree, Pending
  <2> QED BY <1>0, <2>1, <2>2 DEF Opened, Pending
<1>3. CASE CloseEffect
  BY <1>0, <1>3 DEF CloseEffect, Closed, SameRequest, Pending, ClosedStatus
<1>4. CASE EndEffect
  <2>1. PICK I \in SUBSET Interactions, ps \in {"expired", "cancelled"} : Closed(I, ps)
    BY <1>4 DEF EndEffect
  <2> QED BY <1>0, <2>1 DEF Closed, SameRequest, Pending
<1>5. CASE AttachEffect
  BY <1>0, <1>5 DEF AttachEffect, SameRequest, Pending
<1> QED BY <1>1, <1>2, <1>3, <1>4, <1>5, StepEffects

\* At most one interaction is pending per request id.
THEOREM RequestUnique == StoreSpec => []PendingRequestUnique
<1>1. StoreInit => PendingRequestUnique
  BY DEF StoreInit, PendingRequestUnique, Pending, NoInteraction
<1>2. PendingRequestUnique /\ UNCHANGED storeVars => PendingRequestUnique'
  BY DEF PendingRequestUnique, Pending, storeVars
<1> QED BY <1>1, <1>2, StepRequestUnique, TypeCorrect, PTL DEF StoreSpec

LEMMA StepWaiting == TypeOK /\ WaitingHasPending /\ StoreNext => WaitingHasPending'
<1> DEFINE Waiting == {"waiting_for_approval", "waiting_for_input"}
           Awaited(j, t) == /\ interactions'[j].status = "pending"
                            /\ interactions'[j].session = t
                            /\ sessions'[t].status = "waiting_for_input"
                                   => interactions'[j].kind = "user_input"
<1> SUFFICES ASSUME TypeOK, WaitingHasPending, StoreNext,
                    NEW t \in Sessions, sessions'[t].status \in Waiting
             PROVE  \E j \in Interactions : Awaited(j, t)
  BY DEF WaitingHasPending, PendingOf, Pending
<1>w. ASSUME sessions[t].status \in Waiting
      PROVE  \E j \in Interactions :
                /\ Pending(j) /\ interactions[j].session = t
                /\ sessions[t].status = "waiting_for_input" => interactions[j].kind = "user_input"
  BY <1>w DEF WaitingHasPending, PendingOf
<1>1. CASE SessionEffect
  <2>1. PICK s \in Sessions, st \in {"starting", "running"} :
            Moved({s}, st) /\ interactions' = interactions
    BY <1>1 DEF SessionEffect
  <2>2. sessions'[t] = sessions[t]
    BY <2>1 DEF Moved
  <2> QED BY <1>w, <2>1, <2>2 DEF Pending
<1>2. CASE OpenEffect
  <2>1. PICK i \in Interactions, s \in Sessions, r \in Requests, k \in Kinds :
            /\ interactions[i].status = "absent"
            /\ Opened(i, s, r, k)
            /\ Moved({s}, IF k = "user_input" THEN "waiting_for_input"
                                              ELSE "waiting_for_approval")
    BY <1>2 DEF OpenEffect
  <2>2. CASE t = s
    <3>1. Awaited(i, t)
      BY <2>1, <2>2 DEF Opened, Moved
    <3> QED BY <3>1
  <2>3. CASE t # s
    <3>1. sessions'[t] = sessions[t]
      BY <2>1, <2>3 DEF Moved
    <3> QED BY <1>w, <2>1, <3>1 DEF Opened, Pending
  <2> QED BY <2>2, <2>3
<1>3. CASE CloseEffect
  <2>1. PICK i \in Interactions, st \in ClosedStatus :
            Pending(i) /\ Closed({i}, st) /\ Refreshed(i)
    BY <1>3 DEF CloseEffect
  <2>2. CASE t = interactions[i].session /\ Active(t)
    <3>1. sessions'[t].status = RefreshedStatus(PendingOf(t) \ {i})
      BY <2>1, <2>2 DEF Refreshed, Moved
    <3>2. PICK j \in PendingOf(t) \ {i} :
              sessions'[t].status = "waiting_for_input" => interactions[j].kind = "user_input"
      BY <3>1 DEF RefreshedStatus
    <3>3. j \in Interactions /\ j # i /\ Pending(j) /\ interactions[j].session = t
      BY DEF PendingOf
    <3>4. Awaited(j, t)
      BY <2>1, <3>2, <3>3 DEF Closed, Pending
    <3> QED BY <3>3, <3>4
  <2>3. CASE ~ (t = interactions[i].session /\ Active(t))
    <3>1. sessions'[t] = sessions[t]
      BY <2>1, <2>3 DEF Refreshed, Moved
    <3>2. t # interactions[i].session
      BY <2>3, <3>1 DEF Active, ActiveStatus
    <3> QED BY <1>w, <2>1, <3>1, <3>2 DEF Closed, Pending
  <2> QED BY <2>2, <2>3
<1>4. CASE EndEffect
  <2>1. PICK S \in SUBSET Sessions, I \in SUBSET Interactions,
             st \in TerminalStatus \cup {"running"}, ps \in {"expired", "cancelled"} :
            Leaves(S, I) /\ Moved(S, st) /\ Closed(I, ps)
    BY <1>4 DEF EndEffect
  <2>2. t \notin S /\ sessions'[t] = sessions[t]
    BY <2>1 DEF Moved, TerminalStatus
  <2>3. Active(t)
    BY <2>2 DEF Active, ActiveStatus
  <2>4. \A i \in I : interactions[i].session # t
    BY <2>1, <2>2, <2>3 DEF Leaves
  <2> QED BY <1>w, <2>1, <2>2, <2>4 DEF Closed, Pending
<1>5. CASE AttachEffect
  BY <1>w, <1>5 DEF AttachEffect, SameRequest, Pending
<1> QED BY <1>1, <1>2, <1>3, <1>4, <1>5, StepEffects

\* A session that says it waits has something to wait for, of that sort.
THEOREM Waiting == StoreSpec => []WaitingHasPending
<1>1. StoreInit => WaitingHasPending
  BY DEF StoreInit, WaitingHasPending, NoSession
<1>2. WaitingHasPending /\ UNCHANGED storeVars => WaitingHasPending'
  BY DEF WaitingHasPending, PendingOf, Pending, storeVars
<1> QED BY <1>1, <1>2, StepWaiting, TypeCorrect, PTL DEF StoreSpec

-----------------------------------------------------------------------------
(* Decisions. *)

LEMMA StepDecision == TypeOK /\ DecisionOnRecord /\ StoreNext => DecisionOnRecord'
<1> DEFINE Proper(x) == /\ (x.decision = NoValue) = (x.actor = NoValue)
                        /\ x.status = "resolved" => x.decision # NoValue
                        /\ x.decision # NoValue =>
                             /\ x.status \in {"resolved", "expired"}
                             /\ x.decision \in AllowedDecisions(x.kind)
<1> SUFFICES ASSUME TypeOK, DecisionOnRecord, StoreNext, NEW j \in Interactions
             PROVE  Proper(interactions'[j])
  BY DEF DecisionOnRecord
<1>0. Proper(interactions[j])
  BY DEF DecisionOnRecord
<1>1. CASE SessionEffect
  BY <1>0, <1>1 DEF SessionEffect
<1>2. CASE OpenEffect
  BY <1>0, <1>2 DEF OpenEffect, Opened
<1>3. CASE CloseEffect
  <2>1. PICK i \in Interactions, st \in ClosedStatus :
            Pending(i) /\ Closed({i}, st) /\ Decided(i, st)
    BY <1>3 DEF CloseEffect
  <2>2. CASE j # i
    BY <1>0, <2>1, <2>2 DEF Closed
  <2>3. CASE j = i
    <3>1. interactions'[j].kind = interactions[j].kind /\ interactions'[j].status = st
      BY <2>1, <2>3 DEF Closed, SameRequest
    <3>2. CASE SameDecision(interactions'[j], interactions[j]) /\ st = "cancelled"
      BY <1>0, <2>1, <2>3, <3>1, <3>2 DEF SameDecision, Pending
    <3>3. CASE /\ st \in {"resolved", "expired"}
               /\ interactions'[i].decision \in
                      AllowedDecisions(interactions[i].kind) \cap Decisions
               /\ interactions'[i].actor \in Actors
      <4>1. interactions'[j].decision # NoValue /\ interactions'[j].actor # NoValue
        BY <2>3, <3>3, NoValueAssumption
      <4> QED BY <2>3, <3>1, <3>3, <4>1
    <3> QED BY <2>1, <2>3, <3>2, <3>3 DEF Decided
  <2> QED BY <2>2, <2>3
<1>4. CASE EndEffect
  <2>1. PICK S \in SUBSET Sessions, I \in SUBSET Interactions, ps \in {"expired", "cancelled"} :
            Leaves(S, I) /\ Closed(I, ps) /\ SameDecisions
    BY <1>4 DEF EndEffect
  <2>2. CASE j \in I
    BY <1>0, <2>1, <2>2 DEF Closed, SameDecisions, SameDecision, Leaves, Pending
  <2>3. CASE j \notin I
    BY <1>0, <2>1, <2>3 DEF Closed
  <2> QED BY <2>2, <2>3
<1>5. CASE AttachEffect
  BY <1>0, <1>5 DEF AttachEffect, SameDecision, SameRequest
<1> QED BY <1>1, <1>2, <1>3, <1>4, <1>5, StepEffects

\* A decision is on record exactly for the interactions somebody decided.
THEOREM Decision == StoreSpec => []DecisionOnRecord
<1>1. StoreInit => DecisionOnRecord
  BY DEF StoreInit, DecisionOnRecord, NoInteraction
<1>2. DecisionOnRecord /\ UNCHANGED storeVars => DecisionOnRecord'
  BY DEF DecisionOnRecord, storeVars
<1> QED BY <1>1, <1>2, StepDecision, TypeCorrect, PTL DEF StoreSpec

\* The tables stay consistent: the five invariants together.
THEOREM Tables == StoreSpec => []TablesOK
<1>1. ASSUME TypeOK, PendingHasActiveSession, PendingRequestUnique,
             WaitingHasPending, DecisionOnRecord
      PROVE  TablesOK
  BY <1>1 DEF TablesOK
<1> QED BY <1>1, TypeCorrect, PendingActive, RequestUnique, Waiting, Decision, PTL

-----------------------------------------------------------------------------
(* Terminal statuses. *)

LEMMA StepTerminal ==
    ASSUME TypeOK, StoreNext, NEW t \in Sessions, sessions[t].status \in TerminalStatus
    PROVE  sessions'[t] = sessions[t]
<1>0. ~ Active(t)
  BY DEF Active, ActiveStatus, TerminalStatus
<1>1. CASE SessionEffect
  BY <1>1 DEF SessionEffect, Moved
<1>2. CASE OpenEffect
  BY <1>0, <1>2 DEF OpenEffect, Moved
<1>3. CASE CloseEffect
  <2>1. PICK i \in Interactions : Refreshed(i)
    BY <1>3 DEF CloseEffect
  <2> QED BY <1>0, <2>1 DEF Refreshed, Moved
<1>4. CASE EndEffect
  <2>1. PICK S \in SUBSET Sessions, st \in TerminalStatus \cup {"running"} :
            AllActive(S) /\ Moved(S, st)
    BY <1>4 DEF EndEffect
  <2> QED BY <1>0, <2>1 DEF AllActive, Moved
<1>5. CASE AttachEffect
  BY <1>5 DEF AttachEffect
<1> QED BY <1>1, <1>2, <1>3, <1>4, <1>5, StepEffects

\* A session that ended never changes again.
THEOREM Final == StoreSpec => TerminalIsFinal
<1> DEFINE Kept == \A s \in Sessions :
                      sessions[s].status \in TerminalStatus => sessions'[s] = sessions[s]
<1>1. TypeOK /\ [StoreNext]_storeVars => [Kept]_sessions
  BY StepTerminal DEF storeVars
<1>2. [][Kept]_sessions => TerminalIsFinal
  BY DEF TerminalIsFinal
<1> HIDE DEF Kept
<1> QED BY <1>1, <1>2, TypeCorrect, PTL DEF StoreSpec

-----------------------------------------------------------------------------
(* The tables implement the write-once ledger. *)

\* A row whose columns all stay shows the same phase and verdict; closing a
\* pending row, and inserting one, are the steps of the ledger.
LEMMA LedgerRows ==
    ASSUME NEW i \in Interactions
    PROVE  /\ interactions'[i] = interactions[i] =>
                  LedgerPhase(i)' = LedgerPhase(i) /\ LedgerVerdict(i)' = LedgerVerdict(i)
           /\ /\ interactions'[i].status = interactions[i].status
              /\ SameDecision(interactions'[i], interactions[i])
              => LedgerPhase(i)' = LedgerPhase(i) /\ LedgerVerdict(i)' = LedgerVerdict(i)
           /\ interactions[i].status = "absent" =>
                  LedgerPhase(i) = "none" /\ LedgerVerdict(i) = NoVerdict
           /\ interactions[i].status = "pending" =>
                  LedgerPhase(i) = "open" /\ LedgerVerdict(i) = NoVerdict
           /\ interactions'[i].status = "pending" =>
                  LedgerPhase(i)' = "open" /\ LedgerVerdict(i)' = NoVerdict
  BY DEF LedgerPhase, LedgerVerdict, SameDecision, ClosedStatus

LEMMA LedgerClosed ==
    ASSUME NEW i \in Interactions, interactions'[i] \in InteractionRow,
           interactions'[i].status \in ClosedStatus
    PROVE  LedgerPhase(i)' = "closed" /\ LedgerVerdict(i)' \in Verdicts
<1>1. LedgerPhase(i)' = "closed"
  BY DEF LedgerPhase, ClosedStatus
<1>2. /\ interactions'[i].decision \in Decisions \cup {NoValue}
      /\ interactions'[i].actor \in Actors \cup {NoValue}
  BY DEF InteractionRow
<1>3. LedgerVerdict(i)' = <<interactions'[i].status, interactions'[i].decision,
                            interactions'[i].actor>>
  BY DEF LedgerVerdict
<1> QED BY <1>1, <1>2, <1>3 DEF Verdicts

LedgerSame(i) == LedgerPhase(i)' = LedgerPhase(i) /\ LedgerVerdict(i)' = LedgerVerdict(i)

\* Closing the pending rows I is one Close of the ledger.
LEMMA LedgerClose ==
    ASSUME NEW I \in SUBSET Interactions, NEW st \in ClosedStatus, Closed(I, st),
           \A i \in I : Pending(i)
    PROVE  Ledger!Close(I)
<1>1. \A i \in I : LedgerPhase(i) = "open"
  BY LedgerRows DEF Pending
<1>2. \A i \in I : LedgerPhase(i)' = "closed" /\ LedgerVerdict(i)' \in Verdicts
  BY LedgerClosed DEF Closed
<1>3. \A i \in Interactions \ I : LedgerSame(i)
  BY LedgerRows DEF Closed, LedgerSame
<1> QED BY <1>1, <1>2, <1>3 DEF Ledger!Close, LedgerSame

LEMMA LedgerStep ==
    ASSUME TypeOK, StoreNext PROVE [Ledger!Next]_(Ledger!vars)
<1>1. ASSUME \A i \in Interactions : LedgerSame(i) PROVE UNCHANGED Ledger!vars
  BY <1>1 DEF Ledger!vars, LedgerSame
<1>2. CASE SessionEffect
  <2>1. \A i \in Interactions : LedgerSame(i)
    BY <1>2, LedgerRows DEF SessionEffect, LedgerSame
  <2> QED BY <1>1, <2>1
<1>3. CASE OpenEffect
  <2>1. PICK i \in Interactions, s \in Sessions, r \in Requests, k \in Kinds :
            interactions[i].status = "absent" /\ Opened(i, s, r, k)
    BY <1>3 DEF OpenEffect
  <2>2. LedgerPhase(i) = "none" /\ LedgerVerdict(i) = NoVerdict
    BY <2>1, LedgerRows
  <2>3. LedgerPhase(i)' = "open" /\ LedgerVerdict(i)' = NoVerdict
    BY <2>1, LedgerRows DEF Opened
  <2>4. \A j \in Interactions \ {i} : LedgerSame(j)
    BY <2>1, LedgerRows DEF Opened, LedgerSame
  <2>5. Ledger!Open(i)
    BY <2>2, <2>3, <2>4 DEF Ledger!Open, LedgerSame
  <2> QED BY <2>5 DEF Ledger!Next
<1>4. CASE CloseEffect
  <2>1. PICK i \in Interactions, st \in ClosedStatus : Pending(i) /\ Closed({i}, st)
    BY <1>4 DEF CloseEffect
  <2>2. Ledger!Close({i})
    BY <2>1, LedgerClose
  <2> QED BY <2>2 DEF Ledger!Next
<1>5. CASE EndEffect
  <2>1. PICK S \in SUBSET Sessions, I \in SUBSET Interactions, ps \in {"expired", "cancelled"} :
            Leaves(S, I) /\ Closed(I, ps)
    BY <1>5 DEF EndEffect
  <2>2. Ledger!Close(I)
    BY <2>1, LedgerClose DEF Leaves, ClosedStatus
  <2> QED BY <2>2 DEF Ledger!Next
<1>6. CASE AttachEffect
  <2>1. \A i \in Interactions : LedgerSame(i)
    BY <1>6, LedgerRows DEF AttachEffect, LedgerSame
  <2> QED BY <1>1, <2>1
<1> QED BY <1>2, <1>3, <1>4, <1>5, <1>6, StepEffects

\* The first response that commits decides an interaction for good: every
\* transaction is a step of the write-once ledger, or does not show in it.
THEOREM FirstResponse == StoreSpec => FirstResponseWins
<1>1. StoreInit => Ledger!Init
  BY DEF StoreInit, Ledger!Init, LedgerPhase, LedgerVerdict, NoInteraction, ClosedStatus
<1>2. TypeOK /\ [StoreNext]_storeVars => [Ledger!Next]_(Ledger!vars)
  <2>1. ASSUME UNCHANGED storeVars PROVE UNCHANGED Ledger!vars
    BY <2>1 DEF storeVars, Ledger!vars, LedgerPhase, LedgerVerdict
  <2> QED BY <2>1, LedgerStep
<1> QED BY <1>1, <1>2, TypeCorrect, PTL DEF StoreSpec, FirstResponseWins, Ledger!Spec
=============================================================================
