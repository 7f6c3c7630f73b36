---------------------- MODULE CodexOrchestratorProofs ----------------------
(***************************************************************************)
(* Proofs about CodexOrchestrator, for any number of sessions, requests    *)
(* and interactions.  Every handler is a transaction of the store or none, *)
(* so the orchestrator implements the store and inherits its invariants;   *)
(* what a handler does beside the transaction, to the live interactions    *)
(* and to the outbox, is one of a few effects, from which the invariants   *)
(* that relate the tables to the memory of the process follow.             *)
(***************************************************************************)
EXTENDS CodexOrchestrator, CodexStoreProofs

-----------------------------------------------------------------------------
(* Effects of handlers. *)

\* What is pending afterwards was already, and is still live if it was, or is
\* live now.
KeepsAnswers ==
    \A i \in Interactions : interactions'[i].status = "pending" =>
        \/ i \in live'
        \/ Pending(i) /\ (i \in live => i \in live')

\* No session ends, and none is reported.
KeepsEnds ==
    /\ UNCHANGED notices
    /\ \A s \in Sessions : sessions'[s].status \in TerminalStatus
                               => sessions[s].status \in TerminalStatus
    /\ \A s \in Sessions : sessions[s].status \in TerminalStatus
                               => sessions'[s].status \in TerminalStatus

\* The active sessions S end, and each is reported.
Ends(S) ==
    /\ AllActive(S)
    /\ \A s \in S : sessions'[s].status \in TerminalStatus
    /\ \A s \in Sessions \ S : sessions'[s] = sessions[s]
    /\ notices' = [s \in Sessions |-> IF s \in S THEN notices[s] + 1 ELSE notices[s]]

\* What every handler does: at most one transaction, and one of the effects.
HandlerEffect ==
    /\ [StoreNext]_storeVars
    /\ live' \subseteq Interactions
    /\ KeepsAnswers
    /\ KeepsEnds \/ (\E S \in SUBSET Sessions : Ends(S))

\* No interaction becomes live, and rows keep their request ids.
KeepsRequests ==
    /\ live' \subseteq live
    /\ \A i \in Interactions : interactions'[i].request = interactions[i].request

\* Sessions that move to an active status do not end.
LEMMA MovedKeepsEnds ==
    ASSUME NEW S \in SUBSET Sessions, NEW st, Moved(S, st), st \notin TerminalStatus,
           \A s \in S : sessions[s].status \notin TerminalStatus, UNCHANGED notices
    PROVE  KeepsEnds
  BY DEF Moved, KeepsEnds

\* Active sessions that move to a terminal status end.
LEMMA MovedEnds ==
    ASSUME NEW S \in SUBSET Sessions, NEW st \in TerminalStatus, Moved(S, st), AllActive(S),
           notices' = [s \in Sessions |-> IF s \in S THEN notices[s] + 1 ELSE notices[s]]
    PROVE  Ends(S)
  BY DEF Moved, Ends

\* Refreshing a session does not end it.
LEMMA RefreshKeepsEnds ==
    ASSUME NEW i \in Interactions, interactions[i].session \in Sessions, Refreshed(i),
           UNCHANGED notices
    PROVE  KeepsEnds
<1> DEFINE s == interactions[i].session
           st == RefreshedStatus(PendingOf(s) \ {i})
<1>1. st \in ActiveStatus
  BY RefreshedStatusType
<1>2. CASE Active(s)
  <2>1. Moved({s}, st)
    BY <1>2 DEF Refreshed
  <2>2. st \notin TerminalStatus /\ sessions[s].status \notin TerminalStatus
    BY <1>1, <1>2 DEF Active, ActiveStatus, TerminalStatus
  <2> HIDE DEF st
  <2> QED BY <2>1, <2>2, MovedKeepsEnds
<1>3. CASE ~ Active(s)
  BY <1>3 DEF Refreshed, KeepsEnds
<1> QED BY <1>2, <1>3

\* Dropping the live entries of the rows that are closed keeps the others.
LEMMA CloseKeepsAnswers ==
    ASSUME NEW I, NEW st \in ClosedStatus, Closed(I, st),
           \A i \in Interactions \ I : i \in live => i \in live'
    PROVE  KeepsAnswers
  BY DEF Closed, KeepsAnswers, Pending, ClosedStatus

LEMMA ClosePendingKeepsAnswers ==
    ASSUME TypeOK, NEW S, NEW st \in ClosedStatus, ClosePendingOf(S, st),
           live' = live \/ live' = live \ LiveOf(S)
    PROVE  KeepsAnswers
<1>1. Closed({i \in Interactions : Pending(i) /\ interactions[i].session \in S}, st)
  BY ClosePendingFacts
<1> QED BY <1>1 DEF Closed, KeepsAnswers, Pending, ClosedStatus, LiveOf

-----------------------------------------------------------------------------
(* Each handler. *)

\* Handlers that bind a session leave the interactions alone.
LEMMA BindEffect ==
    ASSUME OrchTypeOK, NEW s \in Sessions, UNCHANGED <<live, notices>>,
           \/ CreateSession(s)
           \/ \E t \in Threads : BindThread(s, t)
           \/ \E u \in Turns : BindTurn(s, u)
    PROVE  HandlerEffect /\ KeepsRequests
<1>1. TypeOK /\ live \subseteq Interactions
  BY DEF OrchTypeOK
<1>2. StoreNext
  BY DEF StoreNext, SessionStep
<1>3. PICK st \in {"starting", "running"} :
          /\ Moved({s}, st) /\ UNCHANGED interactions
          /\ sessions[s].status \notin TerminalStatus
  BY <1>1, SessionFacts DEF Active, ActiveStatus, TerminalStatus
<1>4. KeepsEnds
  BY <1>3, MovedKeepsEnds DEF TerminalStatus
<1>5. KeepsAnswers
  BY <1>3 DEF KeepsAnswers, Pending
<1> QED BY <1>1, <1>2, <1>3, <1>4, <1>5 DEF HandlerEffect, KeepsRequests

LEMMA FinishEffect ==
    ASSUME OrchTypeOK, NEW s \in Sessions, NEW u \in Turns, FinishInteractive(s, u)
    PROVE  HandlerEffect /\ KeepsRequests
<1>1. TypeOK /\ live \subseteq Interactions
  BY DEF OrchTypeOK
<1>2. FinishTurn(s, u) /\ live' = live \ LiveOf({s}) /\ UNCHANGED notices
  BY DEF FinishInteractive
<1>3. StoreNext
  BY <1>2 DEF StoreNext, SessionStep
<1>4. Active(s) /\ Moved({s}, "running") /\ ClosePendingOf({s}, "cancelled")
  BY <1>1, <1>2, SessionFacts
<1>5. KeepsEnds
  BY <1>2, <1>4, MovedKeepsEnds DEF Active, ActiveStatus, TerminalStatus
<1>6. KeepsAnswers
  BY <1>1, <1>2, <1>4, ClosePendingKeepsAnswers DEF ClosedStatus
<1>7. KeepsRequests
  BY <1>1, <1>2, <1>4, ClosePendingFacts DEF Closed, ClosedStatus, SameRequest, KeepsRequests
<1> QED BY <1>1, <1>2, <1>3, <1>5, <1>6, <1>7 DEF HandlerEffect

\* A claim that is won closes the interactions and reports the sessions.
LEMMA ClaimEffect ==
    ASSUME OrchTypeOK, NEW S \in SUBSET Sessions, NEW st \in TerminalStatus,
           ClaimTerminal(S, st, "cancelled"),
           live' = live \/ live' = live \ LiveOf(S),
           notices' = [s \in Sessions |-> IF s \in S THEN notices[s] + 1 ELSE notices[s]]
    PROVE  HandlerEffect /\ KeepsRequests
<1>1. TypeOK /\ live \subseteq Interactions
  BY DEF OrchTypeOK
<1>2. StoreNext
  BY DEF StoreNext, ClaimStep
<1>3. AllActive(S) /\ Moved(S, st) /\ ClosePendingOf(S, "cancelled")
  BY <1>1, ClaimFacts DEF AllActive
<1>4. Ends(S)
  BY <1>3, MovedEnds
<1>5. KeepsAnswers
  BY <1>1, <1>3, ClosePendingKeepsAnswers DEF ClosedStatus
<1>6. KeepsRequests
  BY <1>1, <1>3, ClosePendingFacts DEF Closed, ClosedStatus, SameRequest, KeepsRequests
<1> QED BY <1>1, <1>2, <1>4, <1>5, <1>6 DEF HandlerEffect

LEMMA IdleEffect ==
    ASSUME OrchTypeOK, UNCHANGED orchVars PROVE HandlerEffect /\ KeepsRequests
  BY DEF OrchTypeOK, HandlerEffect, KeepsAnswers, KeepsEnds, orchVars, storeVars, Pending,
     KeepsRequests

LEMMA EndEffects ==
    ASSUME OrchTypeOK, NEW S \in SUBSET Sessions, NEW st \in TerminalStatus,
           EndSessions(S, st)
    PROVE  HandlerEffect /\ KeepsRequests
  BY ClaimEffect DEF EndSessions

LEMMA FailEffect ==
    ASSUME OrchTypeOK, NEW s \in Sessions, FailStartup(s)
    PROVE  HandlerEffect /\ KeepsRequests
<1>1. CASE Active(s)
  <2>1. /\ ClaimTerminal({s}, "failed", "cancelled")
        /\ live' = live
        /\ notices' = [notices EXCEPT ![s] = @ + 1]
    BY <1>1 DEF FailStartup
  <2>2. notices' = [q \in Sessions |-> IF q \in {s} THEN notices[q] + 1 ELSE notices[q]]
    BY <2>1 DEF OrchTypeOK
  <2>3. {s} \in SUBSET Sessions /\ "failed" \in TerminalStatus
    BY DEF TerminalStatus
  <2> QED BY <2>1, <2>2, <2>3, ClaimEffect
<1>2. CASE ~ Active(s)
  BY <1>2, IdleEffect DEF FailStartup
<1> QED BY <1>1, <1>2

LEMMA ReconcileEffect ==
    ASSUME OrchTypeOK, Reconcile PROVE HandlerEffect /\ KeepsRequests
<1> DEFINE S == {s \in Sessions : Active(s)}
<1>1. TypeOK
  BY DEF OrchTypeOK
<1>2. ReconcileStartup /\ StoreNext /\ live' = {}
  BY DEF Reconcile, StoreNext
<1>3. /\ Moved(S, "interrupted")
      /\ Closed({i \in Interactions : Pending(i)}, "expired")
  BY <1>1, <1>2, ReconcileFacts
<1>4. notices' = [s \in Sessions |-> IF s \in S THEN notices[s] + 1 ELSE notices[s]]
  BY DEF Reconcile
<1>5. S \in SUBSET Sessions /\ AllActive(S) /\ "interrupted" \in TerminalStatus
  BY DEF AllActive, TerminalStatus
<1>6. KeepsAnswers
  BY <1>3 DEF Closed, KeepsAnswers, Pending
<1>8. KeepsRequests
  BY <1>2, <1>3 DEF Closed, SameRequest, KeepsRequests
<1> HIDE DEF S
<1>7. Ends(S)
  BY <1>3, <1>4, <1>5, MovedEnds
<1> QED BY <1>2, <1>5, <1>6, <1>7, <1>8 DEF HandlerEffect

LEMMA OpenEffects ==
    ASSUME OrchTypeOK, NEW i \in Interactions, NEW s \in Sessions, NEW r \in Requests,
           NEW k \in Kinds, OpenLive(i, s, r, k)
    PROVE  HandlerEffect
<1> DEFINE st == IF k = "user_input" THEN "waiting_for_input" ELSE "waiting_for_approval"
<1>1. TypeOK /\ live \subseteq Interactions
  BY DEF OrchTypeOK
<1>2. OpenInteraction(i, s, r, k) /\ live' = live \cup {i} /\ UNCHANGED notices
  BY DEF OpenLive
<1>3. StoreNext
  BY <1>2 DEF StoreNext, InteractionStep
<1>4. Active(s) /\ Opened(i, s, r, k) /\ Moved({s}, st)
  BY <1>1, <1>2, OpenFacts
<1>5. st \notin TerminalStatus
  BY DEF TerminalStatus
<1>6. KeepsAnswers
  BY <1>2, <1>4 DEF Opened, KeepsAnswers, Pending
<1> HIDE DEF st
<1>7. KeepsEnds
  BY <1>2, <1>4, <1>5, MovedKeepsEnds DEF Active, ActiveStatus, TerminalStatus
<1> QED BY <1>1, <1>2, <1>3, <1>6, <1>7 DEF HandlerEffect

\* Closing one interaction, and dropping it.
LEMMA CloseEffects ==
    ASSUME OrchTypeOK, NEW i \in Interactions, NEW st \in ClosedStatus, StoreNext,
           Pending(i), Closed({i}, st), Refreshed(i), live' = live \ {i}, UNCHANGED notices
    PROVE  HandlerEffect /\ KeepsRequests
<1>1. live' \subseteq Interactions /\ interactions[i].session \in Sessions
  BY DEF OrchTypeOK, TypeOK, Pending
<1>2. KeepsEnds
  BY <1>1, RefreshKeepsEnds
<1>3. KeepsAnswers
  BY CloseKeepsAnswers
<1>4. KeepsRequests
  BY DEF Closed, SameRequest, KeepsRequests
<1> QED BY <1>1, <1>2, <1>3, <1>4 DEF HandlerEffect

LEMMA DecideEffect ==
    ASSUME OrchTypeOK, NEW i \in Interactions, NEW d \in Decisions, NEW a \in Actors,
           NEW st \in {"resolved", "expired"}, Decide(i, d, a, st)
    PROVE  HandlerEffect /\ KeepsRequests
<1>1. TypeOK
  BY DEF OrchTypeOK
<1>2. Resolve(i, d, a, st) /\ live' = live \ {i} /\ UNCHANGED notices
  BY DEF Decide
<1>3. StoreNext
  BY <1>2 DEF StoreNext, InteractionStep
<1>4. Pending(i) /\ Closed({i}, st) /\ Refreshed(i)
  BY <1>1, <1>2, ResolveFacts
<1>5. st \in ClosedStatus
  BY DEF ClosedStatus
<1> QED BY <1>2, <1>3, <1>4, <1>5, CloseEffects

LEMMA ResolvedEffect ==
    ASSUME OrchTypeOK, NEW r \in Requests, RequestResolved(r)
    PROVE  HandlerEffect /\ KeepsRequests
<1>1. TypeOK /\ live \subseteq Interactions
  BY DEF OrchTypeOK
<1>2. CASE LiveByRequest(r) = {}
  BY <1>2, IdleEffect DEF RequestResolved
<1>3. CASE LiveByRequest(r) # {}
  <2>1. PICK i \in LiveByRequest(r) :
            /\ IF Pending(i) THEN CancelInteraction(i) ELSE UNCHANGED storeVars
            /\ live' = live \ {i}
            /\ UNCHANGED notices
    BY <1>3 DEF RequestResolved
  <2>2. i \in Interactions
    BY <1>1 DEF LiveByRequest
  <2>3. CASE Pending(i)
    <3>1. CancelInteraction(i) /\ StoreNext
      BY <2>1, <2>2, <2>3 DEF StoreNext, InteractionStep
    <3>2. Closed({i}, "cancelled") /\ Refreshed(i)
      BY <1>1, <2>2, <3>1, CancelFacts
    <3> QED BY <2>1, <2>2, <2>3, <3>1, <3>2, CloseEffects DEF ClosedStatus
  <2>4. CASE ~ Pending(i)
    BY <1>1, <2>1, <2>4 DEF HandlerEffect, KeepsAnswers, KeepsEnds, KeepsRequests, storeVars,
         Pending
  <2> QED BY <2>3, <2>4
<1> QED BY <1>2, <1>3

LEMMA HandlerEffects ==
    ASSUME OrchTypeOK, OrchNext PROVE HandlerEffect
<1>1. CASE SessionHandler
  BY <1>1, BindEffect, FinishEffect, FailEffect DEF SessionHandler
<1>2. CASE InteractionHandler
  BY <1>2, OpenEffects, DecideEffect, ResolvedEffect DEF InteractionHandler
<1>3. CASE EndHandler
  BY <1>3, EndEffects, ReconcileEffect DEF EndHandler
<1> QED BY <1>1, <1>2, <1>3 DEF OrchNext

-----------------------------------------------------------------------------
(* Theorems. *)

LEMMA OrchStepType == OrchTypeOK /\ [OrchNext]_orchVars => OrchTypeOK'
<1> SUFFICES ASSUME OrchTypeOK, [OrchNext]_orchVars PROVE OrchTypeOK'
  OBVIOUS
<1>1. HandlerEffect
  BY HandlerEffects, IdleEffect
<1>2. TypeOK' /\ live' \subseteq Interactions
  <2>1. [StoreNext]_storeVars /\ TypeOK /\ live' \subseteq Interactions
    BY <1>1 DEF HandlerEffect, OrchTypeOK
  <2>2. UNCHANGED storeVars => TypeOK'
    BY <2>1 DEF TypeOK, storeVars
  <2> QED BY <2>1, <2>2, StepType
<1>3. notices' \in [Sessions -> Nat]
  BY <1>1 DEF HandlerEffect, KeepsEnds, Ends, OrchTypeOK
<1> QED BY <1>2, <1>3 DEF OrchTypeOK

LEMMA OrchInitType == OrchInit => OrchTypeOK
  BY InitType DEF OrchInit, OrchTypeOK

\* The tables, the live interactions and the outbox keep their types.
THEOREM OrchTypeCorrect == OrchSpec => []OrchTypeOK
  BY OrchInitType, OrchStepType, PTL DEF OrchSpec

\* Every handler of the orchestrator runs at most one transaction of the store, so
\* all that is proved of the store holds of whatever tasks run the handlers.
THEOREM OrchImplementsStore == OrchSpec => StoreSpec
<1>1. OrchInit => StoreInit
  BY DEF OrchInit
<1>2. OrchTypeOK /\ [OrchNext]_orchVars => [StoreNext]_storeVars
  BY HandlerEffects, IdleEffect DEF HandlerEffect
<1> QED BY <1>1, <1>2, OrchTypeCorrect, PTL DEF OrchSpec, StoreSpec

LEMMA StepAnswerable ==
    OrchTypeOK /\ PendingIsAnswerable /\ [OrchNext]_orchVars => PendingIsAnswerable'
<1> SUFFICES ASSUME OrchTypeOK, PendingIsAnswerable, [OrchNext]_orchVars
             PROVE  PendingIsAnswerable'
  OBVIOUS
<1>1. KeepsAnswers
  BY HandlerEffects, IdleEffect DEF HandlerEffect
<1> QED BY <1>1 DEF KeepsAnswers, PendingIsAnswerable, Pending

\* A pending interaction is held by the process, which can answer it.
THEOREM PendingAnswerable == OrchSpec => []PendingIsAnswerable
<1>1. OrchInit => PendingIsAnswerable
  BY DEF OrchInit, StoreInit, PendingIsAnswerable, Pending, NoInteraction
<1> QED BY <1>1, StepAnswerable, OrchTypeCorrect, PTL DEF OrchSpec

LEMMA StepEndedOnce ==
    OrchTypeOK /\ EndedOnce /\ [OrchNext]_orchVars => EndedOnce'
<1> SUFFICES ASSUME OrchTypeOK, EndedOnce, [OrchNext]_orchVars, NEW s \in Sessions
             PROVE  notices'[s] = (IF sessions'[s].status \in TerminalStatus THEN 1 ELSE 0)
  BY DEF EndedOnce
<1>0. notices[s] = (IF sessions[s].status \in TerminalStatus THEN 1 ELSE 0)
  BY DEF EndedOnce
<1>1. KeepsEnds \/ \E S \in SUBSET Sessions : Ends(S)
  BY HandlerEffects, IdleEffect DEF HandlerEffect
<1>2. CASE KeepsEnds
  BY <1>0, <1>2 DEF KeepsEnds
<1>3. CASE \E S \in SUBSET Sessions : Ends(S)
  <2>1. PICK S \in SUBSET Sessions : Ends(S)
    BY <1>3
  <2>2. CASE s \in S
    <3>1. sessions[s].status \notin TerminalStatus
      BY <2>1, <2>2 DEF Ends, AllActive, Active, ActiveStatus, TerminalStatus
    <3>2. sessions'[s].status \in TerminalStatus /\ notices'[s] = notices[s] + 1
      BY <2>1, <2>2 DEF Ends
    <3> QED BY <1>0, <3>1, <3>2
  <2>3. CASE s \notin S
    BY <1>0, <2>1, <2>3 DEF Ends
  <2> QED BY <2>2, <2>3
<1> QED BY <1>1, <1>2, <1>3

\* "Session ended" is put in the outbox once for every session that ended.
THEOREM ReportedOnce == OrchSpec => []EndedOnce
<1>1. OrchInit => EndedOnce
  BY DEF OrchInit, StoreInit, EndedOnce, NoSession, TerminalStatus
<1> QED BY <1>1, StepEndedOnce, OrchTypeCorrect, PTL DEF OrchSpec
=============================================================================
