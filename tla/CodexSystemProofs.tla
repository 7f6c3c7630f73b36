------------------------ MODULE CodexSystemProofs ------------------------
(***************************************************************************)
(* Proofs about CodexSystem: whatever the app-servers, the terminals, the  *)
(* people in Lark and the restarts of the daemon do, and in whatever order *)
(* the event loop runs its tasks, the system takes only steps of the       *)
(* orchestrator, so it inherits the invariants of the orchestrator and of  *)
(* the store.  That a handler is called as it expects rests on the types:  *)
(* what is in a queue, a callback or the hands of a worker is a request    *)
(* that its app-server made.                                               *)
(*                                                                         *)
(* The second half relates the tables to the messages on their way: what   *)
(* is forwarded is on record and the other way round, a request is in one  *)
(* hand at a time and answered once, what a TUI has pending is about its   *)
(* turn, no request is lost on the way, and none is turned down without a  *)
(* reason.                                                                 *)
(***************************************************************************)
EXTENDS CodexSystem, CodexOrchestratorProofs, SequenceTheorems

-----------------------------------------------------------------------------
(* Requests that were made stay made (between two restarts).                *)

AsksGrow == \A h \in Hosts : Asked(h) \subseteq Asked(h)'

LEMMA HostFacts ==
    /\ Managed \in Hosts /\ Managed \notin Interactive /\ Interactive \subseteq Sessions
    /\ \A s \in Sessions : HostOf(s) \in Hosts
    /\ \A s \in Interactive : s \in Hosts /\ s # Managed /\ HostOf(s) = s
  BY InteractiveAssumption, ThreadsAssumption DEF Hosts, HostOf

LEMMA AskedFacts ==
    ASSUME AskTypeOK, NEW h \in Hosts, NEW r \in Requests
    PROVE  /\ asks[h][r] \in AskRecord \cup {NoAsk}
           /\ r \in Asked(h) <=> asks[h][r].state # "none"
           /\ r \in Asked(h) <=> asks[h][r] \in AskRecord
           /\ asks[h][r].state \in {"open", "answered", "withdrawn"} => r \in Asked(h)
  BY DEF AskTypeOK, Asked, AskRecord, NoAsk

LEMMA KeptAsks == AskTypeOK /\ UNCHANGED asks => AskTypeOK' /\ AsksGrow
  BY DEF AskTypeOK, AsksGrow, Asked

\* Requests h made get new records, of the same type.
LEMMA AsksUpdate ==
    ASSUME AskTypeOK, NEW h \in Hosts, NEW f \in [Requests -> AskRecord \cup {NoAsk}],
           asks' = [asks EXCEPT ![h] = f], \A r \in Asked(h) : f[r] \in AskRecord
    PROVE  AskTypeOK' /\ AsksGrow /\ \A r \in Requests : f[r] \in AskRecord => r \in Asked(h)'
<1>1. AskTypeOK'
  BY DEF AskTypeOK
<1>2. ASSUME NEW g \in Hosts, NEW r \in Asked(g) PROVE r \in Asked(g)'
  BY <1>2, AskedFacts DEF Asked, AskTypeOK, AskRecord
<1>3. ASSUME NEW r \in Requests, f[r] \in AskRecord PROVE r \in Asked(h)'
  BY <1>3 DEF Asked, AskTypeOK, AskRecord
<1> QED BY <1>1, <1>2, <1>3 DEF AsksGrow

LEMMA AskUpdate ==
    ASSUME AskTypeOK, NEW h \in Hosts, NEW r \in Requests, NEW y \in AskRecord,
           asks' = [asks EXCEPT ![h][r] = y]
    PROVE  AskTypeOK' /\ AsksGrow /\ r \in Asked(h)'
<1> DEFINE f == [asks[h] EXCEPT ![r] = y]
<1>1. asks[h] \in [Requests -> AskRecord \cup {NoAsk}]
  BY DEF AskTypeOK
<1>2. f \in [Requests -> AskRecord \cup {NoAsk}] /\ f[r] = y
      /\ \A q \in Requests \ {r} : f[q] = asks[h][q]
  BY <1>1
<1>3. asks' = [asks EXCEPT ![h] = f]
  OBVIOUS
<1>4. \A q \in Asked(h) : q \in Requests /\ asks[h][q] \in AskRecord
  BY AskedFacts DEF Asked
<1> HIDE DEF f
<1>5. \A q \in Asked(h) : f[q] \in AskRecord
  BY <1>2, <1>4
<1> QED BY <1>2, <1>3, <1>5, AsksUpdate

\* Withdrawing a request, and giving it a reply.
LEMMA AskRecordType ==
    ASSUME NEW x \in AskRecord
    PROVE  /\ [x EXCEPT !.state = "withdrawn"] \in AskRecord
           /\ \A v \in Replies, st \in {"open", "answered", "withdrawn"} :
                [x EXCEPT !.replies = Append(x.replies, v), !.state = st] \in AskRecord
<1>1. [x EXCEPT !.state = "withdrawn"] \in AskRecord
  BY DEF AskRecord
<1>2. ASSUME NEW v \in Replies, NEW st \in {"open", "answered", "withdrawn"}
      PROVE  [x EXCEPT !.replies = Append(x.replies, v), !.state = st] \in AskRecord
  <2> DEFINE q == Append(x.replies, v)
  <2>1. q \in Seq(Replies)
    <3>1. x.replies \in Seq(Replies)
      BY DEF AskRecord
    <3> QED BY <3>1, AppendProperties
  <2> HIDE DEF q
  <2>2. [x EXCEPT !.replies = q, !.state = st] \in AskRecord
    BY <2>1 DEF AskRecord
  <2> QED BY <2>2 DEF q
<1> QED BY <1>1, <1>2

LEMMA VoidType ==
    ASSUME AskTypeOK, NEW h \in Hosts, NEW R, Void(h, R)
    PROVE  AskTypeOK' /\ AsksGrow
<1> DEFINE f == [r \in Requests |->
                   IF asks[h][r].state = "open" /\ r \in R
                   THEN [asks[h][r] EXCEPT !.state = "withdrawn"] ELSE asks[h][r]]
<1>1. asks' = [asks EXCEPT ![h] = f]
  BY DEF Void
<1>2. ASSUME NEW r \in Requests
      PROVE  /\ f[r] \in AskRecord \cup {NoAsk}
             /\ r \in Asked(h) => f[r] \in AskRecord
  BY AskedFacts, AskRecordType
<1>3. f \in [Requests -> AskRecord \cup {NoAsk}]
  BY <1>2
<1> HIDE DEF f
<1> QED BY <1>1, <1>2, <1>3, AsksUpdate DEF Asked

-----------------------------------------------------------------------------
(* Messages. *)

LEMMA MessageFacts ==
    ASSUME NEW h, NEW msg \in Message(h)
    PROVE  /\ msg[1] \in {"request", "resolved", "started", "completed"}
           /\ msg[1] \in {"request", "resolved"} => msg[2] \in Asked(h)
           /\ msg[1] = "started" => msg[2] \in Threads /\ msg[3] \in Turns
           /\ msg[1] = "completed" =>
                /\ msg[2] \in Threads /\ msg[3] \in Turns
                /\ msg[4] \in TerminalStatus
  BY DEF Message, TerminalStatus

LEMMA MessagesGrow ==
    ASSUME AsksGrow, NEW h \in Hosts
    PROVE  Message(h) \subseteq Message(h)' /\ Seq(Message(h)) \subseteq Seq(Message(h)')
<1>1. Asked(h) \subseteq Asked(h)'
  BY DEF AsksGrow
<1>2. Message(h) \subseteq Message(h)'
  BY <1>1 DEF Message
<1> QED BY <1>2, SeqMonotonic

LEMMA KeptInbox == InboxTypeOK /\ AsksGrow /\ UNCHANGED inbox => InboxTypeOK'
  BY MessagesGrow DEF InboxTypeOK

LEMMA InboxUpdate ==
    ASSUME InboxTypeOK, AsksGrow, NEW h \in Hosts, NEW q \in Seq(Message(h)'),
           inbox' = [inbox EXCEPT ![h] = q]
    PROVE  InboxTypeOK'
  BY MessagesGrow DEF InboxTypeOK

LEMMA PostType ==
    ASSUME InboxTypeOK, AsksGrow, NEW h \in Hosts, NEW msg \in Message(h)', Post(h, msg)
    PROVE  InboxTypeOK'
<1>1. inbox[h] \in Seq(Message(h)')
  BY MessagesGrow DEF InboxTypeOK
<1>2. Append(inbox[h], msg) \in Seq(Message(h)')
  BY <1>1, AppendProperties
<1> QED BY <1>2, InboxUpdate DEF Post

\* Taking the first message of a queue.
LEMMA TakeType ==
    ASSUME InboxTypeOK, AsksGrow, NEW h \in Hosts, inbox[h] # <<>>
    PROVE  /\ Head(inbox[h]) \in Message(h)
           /\ inbox' = [inbox EXCEPT ![h] = Tail(@)] => InboxTypeOK'
<1>1. inbox[h] \in Seq(Message(h))
  BY DEF InboxTypeOK
<1>2. Head(inbox[h]) \in Message(h) /\ Tail(inbox[h]) \in Seq(Message(h))
  BY <1>1, HeadTailProperties
<1>3. Tail(inbox[h]) \in Seq(Message(h)')
  BY <1>2, MessagesGrow
<1> QED BY <1>2, <1>3, InboxUpdate

\* Taking a message out of the middle of a queue.
LEMMA PickType ==
    ASSUME InboxTypeOK, AsksGrow, NEW h \in Hosts, NEW k \in 1 .. Len(inbox[h])
    PROVE  /\ inbox[h][k] \in Message(h)
           /\ inbox' = [inbox EXCEPT ![h] = Without(inbox[h], k)] => InboxTypeOK'
<1> DEFINE box == inbox[h]
<1>1. box \in Seq(Message(h))
  BY DEF InboxTypeOK
<1>2. box[k] \in Message(h)
  BY <1>1, ElementOfSeq
<1>3. SubSeq(box, 1, k - 1) \in Seq(Message(h)) /\ SubSeq(box, k + 1, Len(box)) \in Seq(Message(h))
  BY <1>1
<1>4. SubSeq(box, 1, k - 1) \o SubSeq(box, k + 1, Len(box)) \in Seq(Message(h))
  BY <1>3, ConcatProperties
<1>5. SubSeq(box, 1, k - 1) \o SubSeq(box, k + 1, Len(box)) \in Seq(Message(h)')
  BY <1>4, MessagesGrow
<1> QED BY <1>2, <1>5, InboxUpdate DEF Without

-----------------------------------------------------------------------------
(* The other variables.                                                     *)

\* Overwriting the turn of one session.
LEMMA TurnUpdate ==
    ASSUME TurnTypeOK, NEW s \in Sessions, NEW y \in TurnRecord, SaneTurn(y),
           turns' = [turns EXCEPT ![s] = y]
    PROVE  TurnTypeOK'
  BY DEF TurnTypeOK

LEMMA TurnRecordType ==
    ASSUME NEW x \in TurnRecord, SaneTurn(x)
    PROVE  /\ LET y == [x EXCEPT !.on = FALSE, !.stop = FALSE] IN
                y \in TurnRecord /\ SaneTurn(y)
           /\ x.on => LET y == [x EXCEPT !.stop = TRUE] IN y \in TurnRecord /\ SaneTurn(y)
           /\ \A t \in Threads : LET y == [x EXCEPT !.thread = t] IN
                y \in TurnRecord /\ SaneTurn(y)
           /\ x.thread # NoValue /\ x.number < MaxTurns =>
                LET y == [x EXCEPT !.number = x.number + 1, !.on = TRUE] IN
                y \in TurnRecord /\ SaneTurn(y)
<1>1. LET y == [x EXCEPT !.on = FALSE, !.stop = FALSE] IN y \in TurnRecord /\ SaneTurn(y)
  BY DEF TurnRecord, SaneTurn
<1>2. x.on => LET y == [x EXCEPT !.stop = TRUE] IN y \in TurnRecord /\ SaneTurn(y)
  BY DEF TurnRecord, SaneTurn
<1>3. \A t \in Threads : LET y == [x EXCEPT !.thread = t] IN y \in TurnRecord /\ SaneTurn(y)
  BY NoValueAssumption DEF TurnRecord, SaneTurn
<1>4. ASSUME x.thread # NoValue, x.number < MaxTurns
      PROVE  LET y == [x EXCEPT !.number = x.number + 1, !.on = TRUE] IN
             y \in TurnRecord /\ SaneTurn(y)
  <2> DEFINE n == x.number + 1
             y == [x EXCEPT !.number = n, !.on = TRUE]
  <2>1. n \in 0 .. MaxTurns /\ n > 0
    BY <1>4, BoundsAssumption DEF TurnRecord
  <2> HIDE DEF n
  <2>2. y \in TurnRecord /\ SaneTurn(y)
    BY <1>4, <2>1 DEF TurnRecord, SaneTurn
  <2> QED BY <2>2 DEF n
<1> QED BY <1>1, <1>2, <1>3, <1>4

LEMMA TurnFacts ==
    ASSUME TurnTypeOK, NEW s \in Sessions
    PROVE  /\ turns[s] \in TurnRecord /\ SaneTurn(turns[s])
           /\ turns[s].number > 0 => CurrentTurn(s) \in Turns
           /\ turns[s].number < MaxTurns => <<s, turns[s].number + 1>> \in Turns
           /\ turns[s].thread # NoValue => turns[s].thread \in Threads
  BY BoundsAssumption, TurnsAssumption DEF TurnTypeOK, TurnRecord, CurrentTurn

LEMMA TurnChanges ==
    ASSUME TurnTypeOK, NEW s \in Sessions
    PROVE  /\ turns' = [turns EXCEPT ![s] = [@ EXCEPT !.on = FALSE, !.stop = FALSE]]
                => TurnTypeOK'
           /\ turns[s].on /\ turns' = [turns EXCEPT ![s] = [@ EXCEPT !.stop = TRUE]]
                => TurnTypeOK'
           /\ \A t \in Threads :
                turns' = [turns EXCEPT ![s] = [@ EXCEPT !.thread = t]] => TurnTypeOK'
           /\ turns[s].thread # NoValue /\ turns[s].number < MaxTurns
                /\ turns' = [turns EXCEPT ![s] = [@ EXCEPT !.number = turns[s].number + 1, !.on = TRUE]]
                => TurnTypeOK'
<1>1. turns[s] \in TurnRecord /\ SaneTurn(turns[s])
  BY TurnFacts
<1>2. ASSUME NEW y, y \in TurnRecord /\ SaneTurn(y), turns' = [turns EXCEPT ![s] = y]
      PROVE  TurnTypeOK'
  BY <1>2, TurnUpdate
<1>3. turns' = [turns EXCEPT ![s] = [@ EXCEPT !.on = FALSE, !.stop = FALSE]] => TurnTypeOK'
  BY <1>1, <1>2, TurnRecordType
<1>4. turns[s].on /\ turns' = [turns EXCEPT ![s] = [@ EXCEPT !.stop = TRUE]] => TurnTypeOK'
  BY <1>1, <1>2, TurnRecordType
<1>5. \A t \in Threads :
         turns' = [turns EXCEPT ![s] = [@ EXCEPT !.thread = t]] => TurnTypeOK'
  BY <1>1, <1>2, TurnRecordType
<1>6. turns[s].thread # NoValue /\ turns[s].number < MaxTurns
        /\ turns' = [turns EXCEPT ![s] = [@ EXCEPT !.number = turns[s].number + 1, !.on = TRUE]]
        => TurnTypeOK'
  BY <1>1, <1>2, TurnRecordType
<1> QED BY <1>3, <1>4, <1>5, <1>6

LEMMA InterruptType ==
    ASSUME TurnTypeOK, NEW s \in Sessions, Interrupt(s) PROVE TurnTypeOK'
<1>1. TurnTypeOK /\ UNCHANGED turns => TurnTypeOK'
  BY DEF TurnTypeOK
<1> QED BY <1>1, TurnChanges DEF Interrupt

\* Every turn, or the turns of some sessions, go off.
LEMMA TurnsOffType ==
    ASSUME TurnTypeOK, NEW S,
           turns' = [s \in Sessions |->
              IF s \in S THEN [turns[s] EXCEPT !.on = FALSE, !.stop = FALSE] ELSE turns[s]]
    PROVE  TurnTypeOK'
<1>1. ASSUME NEW s \in Sessions PROVE turns'[s] \in TurnRecord /\ SaneTurn(turns'[s])
  BY TurnFacts, TurnRecordType
<1> QED BY <1>1 DEF TurnTypeOK

LEMMA KeptTypes ==
    ASSUME SystemTypeOK, AsksGrow
    PROVE  /\ UNCHANGED hosts => HostTypeOK'
           /\ UNCHANGED turns => TurnTypeOK'
           /\ UNCHANGED inbox => InboxTypeOK'
           /\ UNCHANGED <<callbacks, responded, shown>> => GateTypeOK'
  BY KeptInbox, HostFacts DEF SystemTypeOK, HostTypeOK, TurnTypeOK, GateTypeOK, AsksGrow

\* A request that a terminal or a callback is given was made, and so is one it loses.
LEMMA GateUpdate ==
    ASSUME GateTypeOK, AsksGrow, callbacks' \in [Interactive -> SUBSET Requests],
           responded' \in [Interactive -> SUBSET Requests],
           shown' \in [Interactive -> SUBSET Requests],
           \A s \in Interactive : /\ callbacks'[s] \subseteq callbacks[s] \cup Asked(s)
                                  /\ shown'[s] \subseteq shown[s] \cup Asked(s)
    PROVE  GateTypeOK'
  BY HostFacts DEF GateTypeOK, AsksGrow

-----------------------------------------------------------------------------
(* Answers. *)

\* What is awaited is the reply to a request that was made.
LEMMA WriteFacts ==
    ASSUME TaskTypeOK, NEW w \in Workers, ~ IsIdle(w)
    PROVE  /\ writing[w].session \in Sessions /\ writing[w].host \in Hosts
           /\ writing[w].request \in Asked(writing[w].host)
           /\ writing[w].reply \in Replies \cup {"interrupt"}
<1>1. PICK h \in Hosts : writing[w] \in WriteRecord(h)
  BY DEF TaskTypeOK, Awaitable
<1> QED BY <1>1 DEF WriteRecord

LEMMA AwaitingType ==
    ASSUME NEW s \in Sessions, NEW h \in Hosts, NEW r \in Asked(h),
           NEW v \in Replies \cup {"interrupt"}
    PROVE  Awaitable(Awaiting(s, h, r, v))
  BY DEF Awaitable, Awaiting, WriteRecord

LEMMA WriteRecordsGrow ==
    ASSUME AsksGrow, NEW h \in Hosts PROVE WriteRecord(h) \subseteq WriteRecord(h)'
<1>1. Asked(h) \subseteq Asked(h)'
  BY DEF AsksGrow
<1> QED BY <1>1 DEF WriteRecord

LEMMA WritingUpdate ==
    ASSUME TaskTypeOK, AsksGrow, NEW w \in Workers, NEW x, x = Idle \/ Awaitable(x),
           writing' = [writing EXCEPT ![w] = x],
           creating' \in [Sessions -> {"no", "thread", "turn", "done", "failed"}],
           consumers' \in BOOLEAN, routing' \in BOOLEAN, UNCHANGED restarts
    PROVE  TaskTypeOK'
<1>1. ASSUME NEW q \in Workers PROVE IsIdle(q)' \/ Awaitable(writing[q])'
  <2>1. writing'[q] = Idle \/ Awaitable(writing'[q])
    BY DEF TaskTypeOK, IsIdle
  <2> QED BY <2>1, WriteRecordsGrow DEF IsIdle, Awaitable
<1> QED BY <1>1 DEF TaskTypeOK

LEMMA KeptWriting ==
    ASSUME TaskTypeOK, AsksGrow, UNCHANGED <<writing, restarts>>,
           creating' \in [Sessions -> {"no", "thread", "turn", "done", "failed"}],
           consumers' \in BOOLEAN, routing' \in BOOLEAN
    PROVE  TaskTypeOK'
<1>1. ASSUME NEW q \in Workers PROVE IsIdle(q)' \/ Awaitable(writing[q])'
  <2>1. writing'[q] = Idle \/ Awaitable(writing'[q])
    BY DEF TaskTypeOK, IsIdle
  <2> QED BY <2>1, WriteRecordsGrow DEF IsIdle, Awaitable
<1> QED BY <1>1 DEF TaskTypeOK

LEMMA KeptTasks ==
    ASSUME TaskTypeOK, AsksGrow, UNCHANGED <<creating, writing, consumers, routing, restarts>>
    PROVE  TaskTypeOK'
  BY KeptWriting DEF TaskTypeOK

\* The app-server gets a reply.
LEMMA ReceiveType ==
    ASSUME AskTypeOK, InboxTypeOK, NEW h \in Hosts, NEW r \in Asked(h), NEW v \in Replies,
           Receive(h, r, v)
    PROVE  AskTypeOK' /\ AsksGrow /\ InboxTypeOK'
<1> DEFINE x == asks[h][r]
           st == IF x.state = "open" THEN "answered" ELSE x.state
           y == [x EXCEPT !.replies = Append(x.replies, v), !.state = st]
<1>1. r \in Requests /\ x \in AskRecord
  BY AskedFacts DEF Asked
<1>2. st \in {"open", "answered", "withdrawn"}
  BY <1>1 DEF AskRecord
<1>3. asks' = [asks EXCEPT ![h][r] = y]
  BY DEF Receive
<1>4. y \in AskRecord
  <2> HIDE DEF x, st
  <2> QED BY <1>1, <1>2, AskRecordType
<1> HIDE DEF y
<1>5. AskTypeOK' /\ AsksGrow /\ r \in Asked(h)'
  BY <1>1, <1>3, <1>4, AskUpdate
<1>6. <<"resolved", r>> \in Message(h)'
  BY <1>5 DEF Message
<1> QED BY <1>5, <1>6, PostType, KeptInbox DEF Receive

LEMMA SendType ==
    ASSUME SystemTypeOK, NEW h \in Hosts, NEW r \in Asked(h), NEW v \in Replies,
           Send(h, r, v)
    PROVE  /\ AskTypeOK' /\ AsksGrow /\ InboxTypeOK'
           /\ responded' \in [Interactive -> SUBSET Requests]
<1>1. /\ AskTypeOK /\ InboxTypeOK /\ responded \in [Interactive -> SUBSET Requests]
      /\ r \in Requests
  BY DEF SystemTypeOK, GateTypeOK, Asked
<1>2. CASE Receive(h, r, v) /\ UNCHANGED responded
  BY <1>1, <1>2, ReceiveType
<1>3. CASE UNCHANGED <<asks, inbox, responded>>
  BY <1>1, <1>3, KeptAsks, KeptInbox
<1>4. CASE Receive(h, r, v) /\ responded' = [responded EXCEPT ![h] = @ \cup {r}]
  BY <1>1, <1>4, ReceiveType
<1> QED BY <1>2, <1>3, <1>4 DEF Send

-----------------------------------------------------------------------------
(* Steps of the orchestrator that make no interaction live.                 *)

QuietStep == [OrchNext]_orchVars /\ KeepsRequests

LEMMA QuietIdle == OrchTypeOK /\ UNCHANGED orchVars => QuietStep
  BY IdleEffect DEF QuietStep

LEMMA QuietBind ==
    ASSUME OrchTypeOK, NEW s \in Sessions, UNCHANGED <<live, notices>>,
           \/ CreateSession(s)
           \/ \E t \in Threads : BindThread(s, t)
           \/ \E u \in Turns : BindTurn(s, u)
    PROVE  QuietStep
<1>1. OrchNext
  BY DEF OrchNext, SessionHandler
<1> QED BY <1>1, BindEffect DEF QuietStep

LEMMA QuietEnd ==
    ASSUME OrchTypeOK, NEW S \in SUBSET Sessions, NEW st \in TerminalStatus, EndSessions(S, st)
    PROVE  QuietStep
<1>1. OrchNext
  BY DEF OrchNext, EndHandler
<1> QED BY <1>1, EndEffects DEF QuietStep

LEMMA QuietEndIfActive ==
    ASSUME OrchTypeOK, NEW s \in Sessions, NEW st \in TerminalStatus, EndIfActive(s, st)
    PROVE  QuietStep
  BY QuietEnd, QuietIdle DEF EndIfActive

LEMMA QuietInterruptAll == ASSUME OrchTypeOK, InterruptAll PROVE QuietStep
<1>1. {s \in Sessions : Active(s)} \in SUBSET Sessions /\ "interrupted" \in TerminalStatus
  BY DEF TerminalStatus
<1> QED BY <1>1, QuietEnd, QuietIdle DEF InterruptAll

LEMMA QuietFail ==
    ASSUME OrchTypeOK, NEW s \in Sessions, FailStartup(s) PROVE QuietStep
<1>1. OrchNext
  BY DEF OrchNext, SessionHandler
<1> QED BY <1>1, FailEffect DEF QuietStep

LEMMA QuietDecide ==
    ASSUME OrchTypeOK, NEW i \in Interactions, NEW d \in Decisions, NEW a \in Actors,
           NEW st \in {"resolved", "expired"}, Decide(i, d, a, st)
    PROVE  QuietStep
<1>1. OrchNext
  BY DEF OrchNext, InteractionHandler
<1> QED BY <1>1, DecideEffect DEF QuietStep

LEMMA QuietResolved ==
    ASSUME OrchTypeOK, NEW r \in Requests, RequestResolved(r) PROVE QuietStep
<1>1. OrchNext
  BY DEF OrchNext, InteractionHandler
<1> QED BY <1>1, ResolvedEffect DEF QuietStep

LEMMA QuietTurnStarted ==
    ASSUME OrchTypeOK, NEW t, NEW u \in Turns, TurnStarted(t, u) PROVE QuietStep
<1>1. SessionOfThread(t) \subseteq Sessions
  BY DEF SessionOfThread
<1> QED BY <1>1, QuietBind, QuietIdle DEF TurnStarted

LEMMA QuietTurnCompleted ==
    ASSUME OrchTypeOK, NEW t, NEW u \in Turns, NEW st \in TerminalStatus,
           TurnCompleted(t, u, st)
    PROVE  QuietStep
<1>1. SessionOfThread(t) \subseteq Sessions
  BY DEF SessionOfThread
<1>2. ASSUME NEW s \in Sessions, FinishInteractive(s, u) PROVE QuietStep
  <2>1. OrchNext
    BY <1>2 DEF OrchNext, SessionHandler
  <2> QED BY <1>2, <2>1, FinishEffect DEF QuietStep
<1>3. ASSUME NEW s \in Sessions, EndSessions({s}, st) PROVE QuietStep
  BY <1>3, QuietEnd
<1> QED BY <1>1, <1>2, <1>3, QuietIdle DEF TurnCompleted

\* A notification is handled as the orchestrator expects it.
LEMMA QuietNotification ==
    ASSUME OrchTypeOK, NEW h, NEW msg \in Message(h), ~ IsRequest(msg),
           HandleNotification(msg)
    PROVE  QuietStep
<1>1. CASE msg[1] = "resolved"
  <2>1. RequestResolved(msg[2])
    BY <1>1 DEF HandleNotification
  <2>2. msg[2] \in Requests
    BY <1>1, MessageFacts DEF Asked
  <2> QED BY <2>1, <2>2, QuietResolved
<1>2. CASE msg[1] = "started"
  <2>1. TurnStarted(msg[2], msg[3])
    BY <1>2 DEF HandleNotification
  <2>2. msg[3] \in Turns
    BY <1>2, MessageFacts
  <2> QED BY <2>1, <2>2, QuietTurnStarted
<1>3. CASE msg[1] = "completed"
  <2>1. TurnCompleted(msg[2], msg[3], msg[4])
    BY <1>3 DEF HandleNotification
  <2>2. msg[3] \in Turns /\ msg[4] \in TerminalStatus
    BY <1>3, MessageFacts
  <2> QED BY <2>1, <2>2, QuietTurnCompleted
<1> QED BY <1>1, <1>2, <1>3, MessageFacts DEF IsRequest

\* A quiet step keeps the app-servers of the live interactions.
LEMMA QuietAskers ==
    ASSUME AskerTypeOK, OrchTypeOK, AsksGrow, QuietStep, UNCHANGED asker PROVE AskerTypeOK'
<1>1. \A i \in live' : i \in live /\ i \in Interactions
                       /\ interactions'[i].request = interactions[i].request
  BY DEF QuietStep, KeepsRequests, OrchTypeOK
<1> QED BY <1>1 DEF AskerTypeOK, AsksGrow

\* An accepted request is made live, with its app-server.
LEMMA OpenAskers ==
    ASSUME AskerTypeOK, OrchTypeOK, AsksGrow, NEW i \in Interactions, NEW s \in Sessions,
           NEW h \in Hosts, NEW r \in Asked(h), NEW k \in Kinds, OpenLive(i, s, r, k),
           asker' = [asker EXCEPT ![i] = h]
    PROVE  AskerTypeOK' /\ OrchNext
<1>1. TypeOK /\ live \subseteq Interactions /\ r \in Requests
  BY DEF OrchTypeOK, Asked
<1>2. OpenInteraction(i, s, r, k) /\ live' = live \cup {i}
  BY DEF OpenLive
<1>3. Opened(i, s, r, k)
  BY <1>1, <1>2, OpenFacts
<1>4. ASSUME NEW j \in live'
      PROVE  asker'[j] \in Hosts /\ interactions'[j].request \in Asked(asker'[j])
  BY <1>1, <1>2, <1>3 DEF AskerTypeOK, Opened
<1>5. asker' \in [Interactions -> Hosts \cup {NoValue}]
  BY DEF AskerTypeOK
<1>6. AskerTypeOK'
  BY <1>4, <1>5 DEF AskerTypeOK, AsksGrow
<1> QED BY <1>1, <1>6 DEF OrchNext, InteractionHandler

\* What the forwarding of a decision awaits.
LEMMA AwaitingForType ==
    ASSUME SystemTypeOK, NEW i \in live, Pending(i), NEW v \in Replies \cup {"interrupt"}
    PROVE  Awaitable(AwaitingFor(i, v))
<1>1. /\ interactions[i].session \in Sessions
      /\ asker[i] \in Hosts /\ interactions[i].request \in Asked(asker[i])
  BY DEF SystemTypeOK, OrchTypeOK, TypeOK, AskerTypeOK, Pending
<1> QED BY <1>1, AwaitingType DEF AwaitingFor

-----------------------------------------------------------------------------
(* Each action is a step of the orchestrator, or none, and keeps the types. *)

SafeStep == [OrchNext]_orchVars /\ SystemTypeOK'

\* Actions that make no interaction live.
LEMMA QuietSafe ==
    ASSUME SystemTypeOK, AsksGrow, QuietStep, UNCHANGED asker, HostTypeOK', TurnTypeOK',
           AskTypeOK', InboxTypeOK', GateTypeOK', TaskTypeOK'
    PROVE  SafeStep
<1>1. OrchTypeOK'
  BY OrchStepType DEF SystemTypeOK, QuietStep
<1>2. AskerTypeOK'
  BY QuietAskers DEF SystemTypeOK
<1> QED BY <1>1, <1>2 DEF SafeStep, SystemTypeOK, QuietStep

\* Actions of an app-server, which do not touch the daemon.
LEMMA HostSafe ==
    ASSUME SystemTypeOK, AsksGrow, HostTypeOK', TurnTypeOK', AskTypeOK', InboxTypeOK',
           UNCHANGED <<orchVars, gateVars, taskVars, asker, restarts>>
    PROVE  SafeStep
<1>1. QuietStep
  BY QuietIdle DEF SystemTypeOK
<1>2. GateTypeOK'
  BY KeptTypes DEF gateVars
<1>3. TaskTypeOK'
  BY KeptTasks DEF SystemTypeOK, taskVars
<1> QED BY <1>1, <1>2, <1>3, QuietSafe

LEMMA StartTurnSafe ==
    ASSUME SystemTypeOK, NEW s \in Sessions, StartTurn(s) PROVE SafeStep
<1> DEFINE h == HostOf(s)
           msg == <<"started", turns[s].thread, <<s, turns[s].number + 1>> >>
<1>1. h \in Hosts
  BY HostFacts
<1>2. AskTypeOK' /\ AsksGrow /\ HostTypeOK'
  BY KeptAsks, KeptTypes DEF StartTurn, SystemTypeOK
<1>3. TurnTypeOK'
  BY TurnChanges DEF StartTurn, SystemTypeOK
<1>4. msg \in Message(h)'
  <2>1. turns[s].thread \in Threads /\ <<s, turns[s].number + 1>> \in Turns
    BY TurnFacts DEF StartTurn, SystemTypeOK
  <2> QED BY <2>1 DEF Message
<1>5. InboxTypeOK'
  BY <1>1, <1>2, <1>4, PostType DEF StartTurn, SystemTypeOK
<1> QED BY <1>2, <1>3, <1>5, HostSafe DEF StartTurn

\* A request, in the turn of the session or in another thread of its TUI.
MayAsk(s, t, u) ==
    /\ hosts[HostOf(s)] = "up"
    /\ \/ turns[s].on /\ t = turns[s].thread /\ u = CurrentTurn(s)
       \/ s \in Interactive /\ t \in OtherThreads /\ u = NoValue

Asking(s, r, t, u, k) == MayAsk(s, t, u) /\ NewRequest(HostOf(s), r, s, t, u, k)

LEMMA AskingFacts ==
    ASSUME NEW s \in Sessions, NEW r \in Requests, NEW k \in Kinds
    PROVE  /\ Ask(s, r, k) => Asking(s, r, turns[s].thread, CurrentTurn(s), k)
           /\ \A t \in OtherThreads : AskElsewhere(s, t, r, k) => Asking(s, r, t, NoValue, k)
  BY HostFacts DEF Ask, AskElsewhere, Asking, MayAsk

LEMMA AskSafe ==
    ASSUME SystemTypeOK, NEW s \in Sessions, NEW r \in Requests, NEW t, NEW u, NEW k \in Kinds,
           Asking(s, r, t, u, k)
    PROVE  SafeStep
<1> DEFINE h == HostOf(s)
           y == [state |-> "open", session |-> s, thread |-> t, turn |-> u, kind |-> k,
                 replies |-> <<>>]
<1>1. h \in Hosts
  BY HostFacts
<1>2. t \in Threads /\ u \in Turns \cup {NoValue}
  BY TurnFacts, OthersAssumption DEF Asking, MayAsk, SystemTypeOK, SaneTurn
<1>3. y \in AskRecord
  BY <1>2 DEF AskRecord
<1>4. asks' = [asks EXCEPT ![h][r] = y] /\ Post(h, <<"request", r>>)
      /\ UNCHANGED <<hosts, turns>>
  BY DEF Asking, NewRequest
<1> HIDE DEF h, y
<1>5. AskTypeOK' /\ AsksGrow /\ r \in Asked(h)'
  BY <1>1, <1>3, <1>4, AskUpdate DEF SystemTypeOK
<1>6. <<"request", r>> \in Message(h)'
  BY <1>5 DEF Message
<1>7. InboxTypeOK'
  BY <1>1, <1>4, <1>5, <1>6, PostType DEF SystemTypeOK
<1>8. HostTypeOK' /\ TurnTypeOK'
  BY <1>4, <1>5, KeptTypes
<1> QED BY <1>5, <1>7, <1>8, HostSafe DEF Asking, NewRequest

LEMMA WithdrawSafe ==
    ASSUME SystemTypeOK, NEW h \in Hosts, NEW r \in Requests, Withdraw(h, r) PROVE SafeStep
<1> DEFINE y == [asks[h][r] EXCEPT !.state = "withdrawn"]
<1>1. asks[h][r] \in AskRecord
  BY AskedFacts DEF Withdraw, SystemTypeOK
<1>2. y \in AskRecord
  BY <1>1, AskRecordType
<1>3. asks' = [asks EXCEPT ![h][r] = y] /\ Post(h, <<"resolved", r>>)
      /\ UNCHANGED <<hosts, turns>>
  BY DEF Withdraw
<1> HIDE DEF y
<1>5. AskTypeOK' /\ AsksGrow /\ r \in Asked(h)'
  BY <1>2, <1>3, AskUpdate DEF SystemTypeOK
<1>6. <<"resolved", r>> \in Message(h)'
  BY <1>5 DEF Message
<1>7. InboxTypeOK'
  BY <1>3, <1>5, <1>6, PostType DEF SystemTypeOK
<1>8. HostTypeOK' /\ TurnTypeOK'
  BY <1>3, <1>5, KeptTypes
<1> QED BY <1>5, <1>7, <1>8, HostSafe DEF Withdraw

LEMMA EndTurnSafe ==
    ASSUME SystemTypeOK, NEW s \in Sessions,
           NEW outcome \in {"succeeded", "failed", "interrupted"}, EndTurn(s, outcome)
    PROVE  SafeStep
<1> DEFINE h == HostOf(s)
           msg == <<"completed", turns[s].thread, CurrentTurn(s), outcome>>
<1>1. h \in Hosts
  BY HostFacts
<1>2. AskTypeOK' /\ AsksGrow
  BY <1>1, VoidType DEF EndTurn, SystemTypeOK
<1>3. TurnTypeOK' /\ HostTypeOK'
  BY <1>2, TurnChanges, KeptTypes DEF EndTurn, SystemTypeOK
<1>4. msg \in Message(h)'
  <2>1. turns[s].thread \in Threads /\ CurrentTurn(s) \in Turns
    BY TurnFacts DEF EndTurn, SystemTypeOK, SaneTurn
  <2> QED BY <2>1 DEF Message
<1>5. InboxTypeOK'
  BY <1>1, <1>2, <1>4, PostType DEF EndTurn, SystemTypeOK
<1> QED BY <1>2, <1>3, <1>5, HostSafe DEF EndTurn

LEMMA ExitSafe == ASSUME SystemTypeOK, NEW h \in Hosts, Exit(h) PROVE SafeStep
<1>1. AskTypeOK' /\ AsksGrow
  BY VoidType DEF Exit, SystemTypeOK
<1>2. TurnTypeOK'
  <2> DEFINE S == {s \in Sessions : HostOf(s) = h}
  <2>1. turns' = [s \in Sessions |->
            IF s \in S THEN [turns[s] EXCEPT !.on = FALSE, !.stop = FALSE] ELSE turns[s]]
    BY DEF Exit
  <2> HIDE DEF S
  <2> QED BY <2>1, TurnsOffType DEF SystemTypeOK
<1>3. HostTypeOK' /\ InboxTypeOK'
  BY <1>1, KeptTypes DEF Exit, SystemTypeOK, HostTypeOK
<1> QED BY <1>1, <1>2, <1>3, HostSafe DEF Exit

LEMMA AppServerSafe == ASSUME SystemTypeOK, AppServer PROVE SafeStep
<1>1. ASSUME NEW s \in Sessions, StopTurn(s) PROVE SafeStep
  BY <1>1, EndTurnSafe DEF StopTurn
<1>2. ASSUME NEW s \in Sessions, NEW outcome \in {"succeeded", "failed"}, EndTurn(s, outcome)
      PROVE  SafeStep
  BY <1>2, EndTurnSafe
<1>3. ASSUME NEW s \in Sessions, NEW r \in Requests, NEW k \in Kinds,
             Ask(s, r, k) \/ \E t \in OtherThreads : AskElsewhere(s, t, r, k)
      PROVE  SafeStep
  BY <1>3, AskingFacts, AskSafe
<1> QED BY <1>1, <1>2, <1>3, StartTurnSafe, ExitSafe, WithdrawSafe DEF AppServer

-----------------------------------------------------------------------------
(* create_session *)

\* Steps of create_session: the store, and how far it got.
LEMMA CreationSafe ==
    ASSUME SystemTypeOK, QuietStep, TurnTypeOK',
           creating' \in [Sessions -> {"no", "thread", "turn", "done", "failed"}],
           UNCHANGED <<hosts, asks, inbox, gateVars, writing, consumers, routing, asker,
                       restarts>>
    PROVE  SafeStep
<1>1. AskTypeOK' /\ AsksGrow
  BY KeptAsks DEF SystemTypeOK
<1>2. HostTypeOK' /\ InboxTypeOK' /\ GateTypeOK'
  BY <1>1, KeptTypes DEF gateVars
<1>3. TaskTypeOK'
  BY <1>1, KeptWriting DEF SystemTypeOK, TaskTypeOK
<1> QED BY <1>1, <1>2, <1>3, QuietSafe

LEMMA CreatesSafe == ASSUME SystemTypeOK, Creation PROVE SafeStep
<1>0. OrchTypeOK /\ TurnTypeOK /\ (UNCHANGED turns => TurnTypeOK')
      /\ creating \in [Sessions -> {"no", "thread", "turn", "done", "failed"}]
  BY DEF SystemTypeOK, TurnTypeOK, TaskTypeOK
<1>1. ASSUME NEW s \in Sessions, BeginCreate(s) PROVE SafeStep
  <2>1. QuietStep
    BY <1>0, <1>1, QuietBind DEF BeginCreate
  <2> QED BY <1>0, <1>1, <2>1, CreationSafe DEF BeginCreate, hostVars
<1>2. ASSUME NEW s \in Sessions, ThreadStarted(s) PROVE SafeStep
  <2>0. s \in Threads
    BY ThreadsAssumption
  <2>1. TurnTypeOK'
    BY <1>0, <1>2, <2>0, TurnChanges DEF ThreadStarted
  <2>2. QuietStep
    BY <1>0, <1>2, <2>0, QuietBind, QuietFail DEF ThreadStarted
  <2>3. creating' \in [Sessions -> {"no", "thread", "turn", "done", "failed"}]
    BY <1>0, <1>2 DEF ThreadStarted
  <2> QED BY <1>2, <2>1, <2>2, <2>3, CreationSafe DEF ThreadStarted
<1>3. ASSUME NEW s \in Sessions, TurnBound(s) PROVE SafeStep
  <2>1. CurrentTurn(s) \in Turns
    BY <1>0, <1>3, TurnFacts DEF TurnBound
  <2>2. QuietStep
    BY <1>0, <1>3, <2>1, QuietBind, QuietFail DEF TurnBound
  <2>3. creating' \in [Sessions -> {"no", "thread", "turn", "done", "failed"}]
    BY <1>0, <1>3 DEF TurnBound
  <2> QED BY <1>0, <1>3, <2>2, <2>3, CreationSafe DEF TurnBound, hostVars
<1>4. ASSUME NEW s \in Sessions, StartupFails(s) PROVE SafeStep
  <2>1. QuietStep
    BY <1>0, <1>4, QuietFail DEF StartupFails
  <2>2. creating' \in [Sessions -> {"no", "thread", "turn", "done", "failed"}]
    BY <1>0, <1>4 DEF StartupFails
  <2> QED BY <1>0, <1>4, <2>1, <2>2, CreationSafe DEF StartupFails, hostVars
<1> QED BY <1>1, <1>2, <1>3, <1>4 DEF Creation

-----------------------------------------------------------------------------
(* The consumers and the monitor. *)

LEMMA WorkerFacts ==
    Lark \in Workers /\ Timeout \in Workers /\ Consumer \in Workers
      /\ \A s \in Interactive : Terminal(s) \in Workers
  BY DEF Workers

LEMMA RequestMessage ==
    ASSUME SystemTypeOK, NEW h \in Hosts, NEW msg \in Message(h), IsRequest(msg)
    PROVE  /\ msg[2] \in Asked(h) /\ msg[2] \in Requests
           /\ asks[h][msg[2]] \in AskRecord
<1>1. msg[2] \in Asked(h)
  BY MessageFacts DEF IsRequest
<1> QED BY <1>1, AskedFacts DEF SystemTypeOK, Asked

\* What ConsumeRequest does with the request it takes from the queue.
LEMMA ConsumedFacts ==
    ASSUME InboxTypeOK, ConsumeRequest
    PROVE  \E k \in 1 .. Len(inbox[Managed]) :
             /\ consumers /\ IsIdle(Consumer)
             /\ inbox[Managed][k] \in Message(Managed) /\ IsRequest(inbox[Managed][k])
             /\ NextOfItsSort(inbox[Managed], k)
             /\ TakeRequest(inbox[Managed][k][2])
             /\ inbox' = [inbox EXCEPT ![Managed] = Without(inbox[Managed], k)]
             /\ UNCHANGED <<hosts, turns, asks, gateVars, creating, consumers, routing, restarts>>
<1>1. inbox[Managed] \in Seq(Message(Managed))
  BY HostFacts DEF InboxTypeOK
<1>2. \A k \in 1 .. Len(inbox[Managed]) : inbox[Managed][k] \in Message(Managed)
  BY <1>1, ElementOfSeq
<1> QED BY <1>2 DEF ConsumeRequest

LEMMA ConsumeRequestSafe == ASSUME SystemTypeOK, ConsumeRequest PROVE SafeStep
<1>0. OrchTypeOK /\ InboxTypeOK /\ AskerTypeOK /\ TaskTypeOK /\ Managed \in Hosts
  BY HostFacts DEF SystemTypeOK
<1>k. PICK k \in 1 .. Len(inbox[Managed]) :
         /\ inbox[Managed][k] \in Message(Managed) /\ IsRequest(inbox[Managed][k])
         /\ TakeRequest(inbox[Managed][k][2])
         /\ inbox' = [inbox EXCEPT ![Managed] = Without(inbox[Managed], k)]
         /\ UNCHANGED <<hosts, turns, asks, gateVars, creating, consumers, routing, restarts>>
  BY <1>0, ConsumedFacts
<1> DEFINE r == inbox[Managed][k][2]
           ask == asks[Managed][r]
           found == SessionOfThread(ask.thread)
<1>1. AskTypeOK' /\ AsksGrow
  BY <1>k, KeptAsks DEF SystemTypeOK
<1>2. r \in Asked(Managed) /\ r \in Requests /\ ask \in AskRecord
  BY <1>0, <1>k, RequestMessage
<1>3. ask.session \in Sessions /\ ask.kind \in Kinds /\ found \subseteq Sessions
  BY <1>2 DEF AskRecord, SessionOfThread
<1>4. InboxTypeOK'
  BY <1>0, <1>1, <1>k, PickType
<1>5. HostTypeOK' /\ TurnTypeOK' /\ GateTypeOK'
  BY <1>1, <1>k, KeptTypes DEF gateVars
<1>6. CASE \E s \in found : Accepts(s, ask.turn, r)
  <2>1. PICK i \in Interactions, s \in found :
            OpenLive(i, s, r, ask.kind) /\ asker' = [asker EXCEPT ![i] = Managed]
    BY <1>6, <1>k DEF TakeRequest
  <2>2. AskerTypeOK' /\ OrchNext
    BY <1>0, <1>1, <1>2, <1>3, <2>1, OpenAskers
  <2>3. OrchTypeOK'
    BY <1>0, <2>2, OrchStepType
  <2>4. TaskTypeOK'
    BY <1>0, <1>1, <1>6, <1>k, KeptTasks DEF TakeRequest
  <2> QED BY <1>k, <1>1, <1>4, <1>5, <2>2, <2>3, <2>4 DEF SafeStep, SystemTypeOK
<1>7. CASE ~ \E s \in found : Accepts(s, ask.turn, r)
  <2>1. /\ writing' = [writing EXCEPT ![Consumer] = Awaiting(ask.session, Managed, r, "refused")]
        /\ UNCHANGED <<creating, consumers, routing, restarts>>
        /\ UNCHANGED orchVars /\ UNCHANGED asker
    BY <1>7, <1>k DEF TakeRequest
  <2>2. Awaitable(Awaiting(ask.session, Managed, r, "refused"))
    BY <1>0, <1>2, <1>3, AwaitingType DEF Replies
  <2>3. TaskTypeOK'
    <3>1. /\ creating' \in [Sessions -> {"no", "thread", "turn", "done", "failed"}]
          /\ consumers' \in BOOLEAN /\ routing' \in BOOLEAN /\ UNCHANGED restarts
      BY <1>0, <2>1 DEF TaskTypeOK
    <3> QED BY <1>0, <1>1, <2>1, <2>2, <3>1, WorkerFacts, WritingUpdate
  <2>4. QuietStep
    BY <1>0, <2>1, QuietIdle
  <2> QED BY <1>k, <1>1, <1>4, <1>5, <2>1, <2>3, <2>4, QuietSafe
<1> QED BY <1>6, <1>7

LEMMA ConsumeNotificationSafe == ASSUME SystemTypeOK, ConsumeNotification PROVE SafeStep
<1>0. OrchTypeOK /\ InboxTypeOK /\ TaskTypeOK /\ Managed \in Hosts
  BY HostFacts DEF SystemTypeOK
<1>1. PICK k \in 1 .. Len(inbox[Managed]) :
          /\ ~ IsRequest(inbox[Managed][k])
          /\ HandleNotification(inbox[Managed][k])
          /\ inbox' = [inbox EXCEPT ![Managed] = Without(inbox[Managed], k)]
          /\ UNCHANGED <<hosts, turns, asks, gateVars, taskVars, asker, restarts>>
  BY DEF ConsumeNotification
<1>2. AskTypeOK' /\ AsksGrow
  BY <1>1, KeptAsks DEF SystemTypeOK
<1>3. inbox[Managed][k] \in Message(Managed) /\ InboxTypeOK'
  BY <1>0, <1>1, <1>2, PickType
<1>4. QuietStep
  BY <1>0, <1>1, <1>3, QuietNotification
<1>5. HostTypeOK' /\ TurnTypeOK' /\ GateTypeOK' /\ TaskTypeOK'
  BY <1>0, <1>1, <1>2, KeptTypes, KeptTasks DEF gateVars, taskVars
<1> QED BY <1>1, <1>2, <1>3, <1>4, <1>5, QuietSafe

\* Tasks that change neither the requests nor the queues.
LEMMA TaskSafe ==
    ASSUME SystemTypeOK, QuietStep, HostTypeOK', TurnTypeOK', AsksGrow => TaskTypeOK',
           UNCHANGED <<asks, inbox, gateVars, asker>>
    PROVE  SafeStep
<1>1. AskTypeOK' /\ AsksGrow
  BY KeptAsks DEF SystemTypeOK
<1>2. InboxTypeOK' /\ GateTypeOK'
  BY <1>1, KeptTypes DEF gateVars
<1> QED BY <1>1, <1>2, QuietSafe

LEMMA MonitorSafe == ASSUME SystemTypeOK, MonitorClosed PROVE SafeStep
<1>1. QuietStep
  BY QuietInterruptAll DEF MonitorClosed, SystemTypeOK
<1>2. HostTypeOK' /\ TurnTypeOK'
  BY DEF MonitorClosed, SystemTypeOK, HostTypeOK, TurnTypeOK
<1>3. AsksGrow => TaskTypeOK'
  BY KeptTasks DEF MonitorClosed, SystemTypeOK, taskVars
<1> QED BY <1>1, <1>2, <1>3, TaskSafe DEF MonitorClosed

\* A worker gets another write to await, or none.
LEMMA WorkerSafe ==
    ASSUME SystemTypeOK, QuietStep, NEW w \in Workers, NEW x, x = Idle \/ Awaitable(x),
           writing' = [writing EXCEPT ![w] = x], consumers' \in BOOLEAN,
           routing' \in BOOLEAN, TurnTypeOK',
           UNCHANGED <<hosts, asks, inbox, gateVars, creating, asker, restarts>>
    PROVE  SafeStep
<1>1. HostTypeOK'
  BY DEF SystemTypeOK, HostTypeOK
<1>2. AsksGrow => TaskTypeOK'
  <2>1. creating' \in [Sessions -> {"no", "thread", "turn", "done", "failed"}]
    BY DEF SystemTypeOK, TaskTypeOK
  <2> QED BY <2>1, WritingUpdate DEF SystemTypeOK
<1> QED BY <1>1, <1>2, TaskSafe

LEMMA KeptTurnsAndFlags ==
    ASSUME SystemTypeOK
    PROVE  /\ OrchTypeOK /\ TurnTypeOK /\ TaskTypeOK
           /\ UNCHANGED turns => TurnTypeOK'
           /\ UNCHANGED consumers => consumers' \in BOOLEAN
           /\ UNCHANGED routing => routing' \in BOOLEAN
  BY DEF SystemTypeOK, TurnTypeOK, TaskTypeOK

LEMMA ConsumerFailedSafe == ASSUME SystemTypeOK, ConsumerFailed PROVE SafeStep
<1>1. QuietStep
  BY QuietInterruptAll, KeptTurnsAndFlags DEF ConsumerFailed
<1> QED BY <1>1, KeptTurnsAndFlags, WorkerFacts, WorkerSafe DEF ConsumerFailed, hostVars

LEMMA OrchestratorSafe == ASSUME SystemTypeOK, Orchestrator PROVE SafeStep
  BY ConsumeRequestSafe, ConsumeNotificationSafe, MonitorSafe, ConsumerFailedSafe
  DEF Orchestrator

-----------------------------------------------------------------------------
(* Lark, the expiry worker, and the completion of sends. *)

\* A claim that is won was on a pending interaction, of a kind that allows it.
LEMMA DecideFacts ==
    ASSUME SystemTypeOK, NEW i \in Interactions, NEW d, NEW a \in Actors,
           NEW st \in {"resolved", "expired"}, Decide(i, d, a, st)
    PROVE  /\ i \in live /\ Pending(i) /\ interactions[i].session \in Sessions
           /\ d \in Decisions
           /\ QuietStep
<1>1. i \in live /\ Resolve(i, d, a, st)
  BY DEF Decide
<1>2. Pending(i) /\ d \in AllowedDecisions(interactions[i].kind)
  BY <1>1 DEF Resolve, CloseAndRefresh
<1>3. interactions[i].session \in Sessions /\ interactions[i].kind \in AllKinds
  BY <1>2, KindsAssumption DEF SystemTypeOK, OrchTypeOK, TypeOK, Pending
<1>4. d \in Decisions
  BY <1>2, <1>3 DEF AllowedDecisions, AllKinds, Decisions
<1>5. QuietStep
  BY <1>4, QuietDecide DEF SystemTypeOK
<1> QED BY <1>1, <1>2, <1>3, <1>4, <1>5

LEMMA LarkSafe ==
    ASSUME SystemTypeOK, NEW i \in Interactions, NEW d \in Decisions, LarkAnswers(i, d)
    PROVE  SafeStep
<1>1. i \in live /\ Pending(i) /\ QuietStep
  BY DecideFacts, ActorsAssumption DEF LarkAnswers
<1>2. Awaitable(AwaitingFor(i, d))
  BY <1>1, AwaitingForType DEF Replies
<1> QED BY <1>1, <1>2, KeptTurnsAndFlags, WorkerFacts, WorkerSafe DEF LarkAnswers, hostVars

LEMMA ExpireSafe ==
    ASSUME SystemTypeOK, NEW i \in Interactions, Expire(i) PROVE SafeStep
<1> DEFINE k == interactions[i].kind
           d == DenialDecision(k)
           v == IF k = "user_input" THEN "interrupt" ELSE d
<1>1. /\ i \in live /\ Pending(i) /\ d \in Decisions /\ QuietStep
      /\ interactions[i].session \in Sessions
  BY DecideFacts, ActorsAssumption DEF Expire
<1>2. Awaitable(AwaitingFor(i, v))
  <2>1. v \in Replies \cup {"interrupt"}
    BY <1>1 DEF Replies
  <2> HIDE DEF v
  <2> QED BY <1>1, <2>1, AwaitingForType
<1>3. TurnTypeOK'
  BY <1>1, InterruptType, KeptTurnsAndFlags DEF Expire
<1>4. /\ writing' = [writing EXCEPT ![Timeout] = AwaitingFor(i, v)]
      /\ UNCHANGED <<hosts, asks, inbox, gateVars, creating, consumers, routing, asker,
                     restarts>>
  BY DEF Expire
<1> HIDE DEF v
<1> QED BY <1>1, <1>2, <1>3, <1>4, KeptTurnsAndFlags, WorkerFacts, WorkerSafe

LEMMA FinishInterruptSafe == ASSUME SystemTypeOK, FinishInterrupt PROVE SafeStep
<1>1. writing[Timeout].session \in Sessions /\ "interrupted" \in TerminalStatus
  BY WriteFacts, WorkerFacts, KeptTurnsAndFlags DEF FinishInterrupt, TerminalStatus
<1>2. QuietStep
  BY <1>1, QuietEndIfActive, KeptTurnsAndFlags DEF FinishInterrupt
<1> QED BY <1>2, KeptTurnsAndFlags, WorkerFacts, WorkerSafe DEF FinishInterrupt, hostVars

LEMMA FailWriteSafe == ASSUME SystemTypeOK, NEW w \in Workers, FailWrite(w) PROVE SafeStep
<1>1. writing[w].session \in Sessions /\ "interrupted" \in TerminalStatus
  BY WriteFacts, KeptTurnsAndFlags DEF FailWrite, TerminalStatus
<1>2. QuietStep
  BY <1>1, QuietEndIfActive, KeptTurnsAndFlags DEF FailWrite
<1>3. routing' \in BOOLEAN
  BY DEF FailWrite
<1> QED BY <1>2, <1>3, KeptTurnsAndFlags, WorkerSafe DEF FailWrite, hostVars

LEMMA FinishWriteSafe == ASSUME SystemTypeOK, NEW w \in Workers, FinishWrite(w) PROVE SafeStep
<1> DEFINE h == writing[w].host
           r == writing[w].request
           v == writing[w].reply
<1>1. h \in Hosts /\ r \in Asked(h) /\ v \in Replies
  BY WriteFacts, KeptTurnsAndFlags DEF FinishWrite
<1>2. /\ Send(h, r, v) \/ UNCHANGED <<asks, inbox, responded>>
      /\ writing' = [writing EXCEPT ![w] = Idle]
      /\ UNCHANGED <<orchVars, hosts, turns, callbacks, shown, creating, consumers, routing,
                     asker, restarts>>
  BY DEF FinishWrite
<1> HIDE DEF h, r, v
<1>3. /\ AskTypeOK' /\ AsksGrow /\ InboxTypeOK'
      /\ responded' \in [Interactive -> SUBSET Requests]
  BY <1>1, <1>2, SendType, KeptAsks, KeptInbox DEF SystemTypeOK, GateTypeOK
<1>4. HostTypeOK' /\ TurnTypeOK'
  BY <1>2, <1>3, KeptTypes
<1>5. GateTypeOK'
  BY <1>2, <1>3, GateUpdate DEF SystemTypeOK, GateTypeOK
<1>6. TaskTypeOK'
  <2>1. /\ creating' \in [Sessions -> {"no", "thread", "turn", "done", "failed"}]
        /\ consumers' \in BOOLEAN /\ routing' \in BOOLEAN /\ UNCHANGED restarts
    BY <1>2, KeptTurnsAndFlags DEF TaskTypeOK
  <2> QED BY <1>2, <1>3, <2>1, KeptTurnsAndFlags, WritingUpdate
<1>7. QuietStep
  BY <1>2, QuietIdle, KeptTurnsAndFlags
<1> QED BY <1>2, <1>3, <1>4, <1>5, <1>6, <1>7, QuietSafe

LEMMA ResponsesSafe == ASSUME SystemTypeOK, Responses PROVE SafeStep
  BY LarkSafe, ExpireSafe, FinishInterruptSafe, FinishWriteSafe, FailWriteSafe DEF Responses

LEMMA CancelSafe == ASSUME SystemTypeOK, NEW s \in Sessions, CancelSession(s) PROVE SafeStep
<1>1. QuietStep
  BY QuietEnd, KeptTurnsAndFlags DEF CancelSession, TerminalStatus
<1>2. TurnTypeOK' /\ HostTypeOK'
  BY InterruptType DEF CancelSession, SystemTypeOK, HostTypeOK
<1>3. AsksGrow => TaskTypeOK'
  BY KeptTasks DEF CancelSession, SystemTypeOK, taskVars
<1> QED BY <1>1, <1>2, <1>3, TaskSafe DEF CancelSession

-----------------------------------------------------------------------------
(* Native TUIs and their gateways. *)

LEMMA GateFacts ==
    ASSUME SystemTypeOK
    PROVE  /\ callbacks \in [Interactive -> SUBSET Requests]
           /\ responded \in [Interactive -> SUBSET Requests]
           /\ shown \in [Interactive -> SUBSET Requests]
           /\ \A s \in Interactive : callbacks[s] \cup shown[s] \subseteq Asked(s)
  BY DEF SystemTypeOK, GateTypeOK

\* Steps of a gateway leave the tasks and the turns alone.
LEMMA GateSafe ==
    ASSUME SystemTypeOK, QuietStep, AsksGrow, AskTypeOK', InboxTypeOK', GateTypeOK',
           UNCHANGED <<hosts, turns, taskVars, asker, restarts>>
    PROVE  SafeStep
<1>1. HostTypeOK' /\ TurnTypeOK'
  BY KeptTypes
<1>2. TaskTypeOK'
  BY KeptTasks DEF SystemTypeOK, taskVars
<1> QED BY <1>1, <1>2, QuietSafe

LEMMA OpenTuiSafe == ASSUME SystemTypeOK, NEW s \in Interactive, OpenTui(s) PROVE SafeStep
<1>1. QuietStep
  BY QuietBind, KeptTurnsAndFlags, HostFacts DEF OpenTui
<1>2. HostTypeOK' /\ TurnTypeOK'
  BY DEF OpenTui, SystemTypeOK, HostTypeOK, TurnTypeOK
<1>3. AsksGrow => TaskTypeOK'
  BY KeptTasks DEF OpenTui, SystemTypeOK, taskVars
<1> QED BY <1>1, <1>2, <1>3, TaskSafe DEF OpenTui

LEMMA TuiThreadSafe ==
    ASSUME SystemTypeOK, NEW s \in Interactive, NEW t \in {s} \cup Resumable, TuiThread(s, t)
    PROVE  SafeStep
<1>0. s \in Sessions /\ t \in Threads
  BY HostFacts, ThreadsAssumption, BoundsAssumption
<1>1. QuietStep
  BY <1>0, QuietBind, QuietIdle, KeptTurnsAndFlags DEF TuiThread, storeVars, orchVars
<1>2. HostTypeOK' /\ TurnTypeOK'
  BY <1>0, TurnChanges DEF TuiThread, SystemTypeOK, HostTypeOK
<1>3. AsksGrow => TaskTypeOK'
  BY KeptTasks DEF TuiThread, SystemTypeOK, taskVars
<1> QED BY <1>1, <1>2, <1>3, TaskSafe DEF TuiThread

LEMMA HandleUpstreamSafe ==
    ASSUME SystemTypeOK, NEW s \in Interactive, HandleUpstream(s) PROVE SafeStep
<1> DEFINE msg == Head(inbox[s])
<1>0. OrchTypeOK /\ InboxTypeOK /\ s \in Hosts
  BY HostFacts DEF SystemTypeOK
<1>1. AskTypeOK' /\ AsksGrow
  BY KeptAsks DEF HandleUpstream, SystemTypeOK
<1>2. msg \in Message(s) /\ InboxTypeOK'
  BY <1>0, <1>1, TakeType DEF HandleUpstream
<1>3. /\ \/ msg[1] = "request" /\ GatewayRequest(s, msg[2])
         \/ msg[1] = "resolved" /\ GatewayResolved(s, msg[2])
         \/ /\ msg[1] \notin {"request", "resolved"}
            /\ HandleNotification(msg) /\ UNCHANGED gateVars
      /\ UNCHANGED <<hosts, turns, asks, taskVars, asker, restarts>>
  BY DEF HandleUpstream
<1> HIDE DEF msg
<1>4. CASE msg[1] = "request" /\ GatewayRequest(s, msg[2])
  <2>1. msg[2] \in Asked(s) /\ msg[2] \in Requests
    BY <1>0, <1>2, <1>4, RequestMessage DEF IsRequest
  <2>2. GateTypeOK'
    BY <1>1, <1>4, <2>1, GateFacts, GateUpdate DEF GatewayRequest, SystemTypeOK
  <2>3. QuietStep
    BY <1>0, <1>4, QuietIdle DEF GatewayRequest
  <2> QED BY <1>1, <1>2, <1>3, <2>2, <2>3, GateSafe
<1>5. CASE msg[1] = "resolved" /\ GatewayResolved(s, msg[2])
  <2>1. msg[2] \in Requests
    BY <1>2, <1>5, MessageFacts DEF Asked
  <2>2. GateTypeOK'
    BY <1>1, <1>5, <2>1, GateFacts, GateUpdate DEF GatewayResolved, SystemTypeOK
  <2>3. QuietStep
    BY <1>0, <1>5, <2>1, QuietResolved DEF GatewayResolved
  <2> QED BY <1>1, <1>2, <1>3, <2>2, <2>3, GateSafe
<1>6. CASE msg[1] # "request" /\ HandleNotification(msg) /\ UNCHANGED gateVars
  <2>1. GateTypeOK'
    BY <1>1, <1>6, KeptTypes DEF gateVars
  <2>2. QuietStep
    BY <1>0, <1>2, <1>6, QuietNotification DEF IsRequest
  <2> QED BY <1>1, <1>2, <1>3, <2>1, <2>2, GateSafe
<1> QED BY <1>3, <1>4, <1>5, <1>6

LEMMA RunCallbackSafe ==
    ASSUME SystemTypeOK, NEW s \in Interactive, NEW r \in Requests, RunCallback(s, r)
    PROVE  SafeStep
<1> DEFINE ask == asks[s][r]
<1>0. OrchTypeOK /\ AskerTypeOK /\ AskTypeOK /\ InboxTypeOK /\ s \in Hosts /\ s \in Sessions
  BY HostFacts DEF SystemTypeOK
<1>1. r \in Asked(s) /\ ask \in AskRecord
  BY <1>0, GateFacts, AskedFacts DEF RunCallback
<1>2. /\ callbacks' = [callbacks EXCEPT ![s] = @ \ {r}]
      /\ UNCHANGED <<hosts, turns, shown, taskVars, restarts>>
  BY DEF RunCallback
<1>3. \/ /\ UNCHANGED <<orchVars, asker>>
         /\ Send(s, r, "refused") \/ UNCHANGED <<asks, inbox, responded>>
      \/ /\ \E i \in Interactions :
               OpenLive(i, s, r, ask.kind) /\ asker' = [asker EXCEPT ![i] = s]
         /\ UNCHANGED <<asks, inbox, responded>>
  BY DEF RunCallback
<1>4. /\ AskTypeOK' /\ AsksGrow /\ InboxTypeOK'
      /\ responded' \in [Interactive -> SUBSET Requests]
  BY <1>0, <1>1, <1>3, SendType, KeptAsks, KeptInbox, GateFacts DEF Replies
<1>5. GateTypeOK'
  BY <1>2, <1>4, GateFacts, GateUpdate DEF SystemTypeOK
<1>6. CASE UNCHANGED <<orchVars, asker>>
  <2>1. QuietStep
    BY <1>0, <1>6, QuietIdle
  <2> QED BY <1>2, <1>4, <1>5, <1>6, <2>1, GateSafe
<1>7. CASE \E i \in Interactions :
              OpenLive(i, s, r, ask.kind) /\ asker' = [asker EXCEPT ![i] = s]
  <2>1. PICK i \in Interactions :
            OpenLive(i, s, r, ask.kind) /\ asker' = [asker EXCEPT ![i] = s]
    BY <1>7
  <2>2. ask.kind \in Kinds
    BY <1>1 DEF AskRecord
  <2> HIDE DEF ask
  <2>3. AskerTypeOK' /\ OrchNext
    BY <1>0, <1>1, <1>4, <2>1, <2>2, OpenAskers
  <2>4. OrchTypeOK'
    BY <1>0, <2>3, OrchStepType
  <2>5. HostTypeOK' /\ TurnTypeOK' /\ TaskTypeOK'
    BY <1>2, <1>4, KeptTypes, KeptTasks DEF SystemTypeOK, taskVars
  <2> QED BY <1>4, <1>5, <2>3, <2>4, <2>5 DEF SafeStep, SystemTypeOK
<1> QED BY <1>3, <1>6, <1>7

\* The terminal loses a request it showed.
LEMMA ShownLess ==
    ASSUME SystemTypeOK, AsksGrow, NEW s \in Interactive, NEW r,
           shown' = [shown EXCEPT ![s] = @ \ {r}], UNCHANGED callbacks,
           responded' \in [Interactive -> SUBSET Requests]
    PROVE  GateTypeOK'
  BY GateFacts, GateUpdate DEF SystemTypeOK

LEMMA TerminalAnswersSafe ==
    ASSUME SystemTypeOK, NEW s \in Interactive, NEW r \in Requests, NEW d \in Decisions,
           TerminalAnswers(s, r, d)
    PROVE  SafeStep
<1>0. LiveByRequest(r) \subseteq live /\ live \subseteq Interactions
  BY DEF LiveByRequest, SystemTypeOK, OrchTypeOK
<1>1. AskTypeOK' /\ AsksGrow /\ HostTypeOK' /\ TurnTypeOK' /\ InboxTypeOK'
  BY KeptAsks, KeptTypes DEF TerminalAnswers, hostVars, SystemTypeOK
<1>2. GateTypeOK'
  BY <1>1, ShownLess, GateFacts DEF TerminalAnswers
<1>3. /\ creating' \in [Sessions -> {"no", "thread", "turn", "done", "failed"}]
      /\ consumers' \in BOOLEAN /\ routing' \in BOOLEAN /\ UNCHANGED <<asker, restarts>>
  BY KeptTurnsAndFlags DEF TerminalAnswers, TaskTypeOK
<1>4. CASE \E i \in LiveByRequest(r) :
              /\ Decide(i, d, "terminal", "resolved")
              /\ writing' = [writing EXCEPT ![Terminal(s)] = AwaitingFor(i, d)]
  <2>1. PICK i \in LiveByRequest(r) :
            /\ Decide(i, d, "terminal", "resolved")
            /\ writing' = [writing EXCEPT ![Terminal(s)] = AwaitingFor(i, d)]
    BY <1>4
  <2>2. i \in live /\ Pending(i) /\ QuietStep
    BY <1>0, <2>1, DecideFacts, ActorsAssumption
  <2>3. Awaitable(AwaitingFor(i, d))
    BY <2>2, AwaitingForType DEF Replies
  <2>4. TaskTypeOK'
    BY <1>1, <1>3, <2>1, <2>3, WorkerFacts, WritingUpdate, KeptTurnsAndFlags
  <2> QED BY <1>1, <1>2, <1>3, <2>2, <2>4, QuietSafe
<1>5. CASE UNCHANGED <<orchVars, writing>>
  <2>1. QuietStep
    BY <1>5, QuietIdle, KeptTurnsAndFlags
  <2>2. TaskTypeOK'
    BY <1>1, <1>3, <1>5, KeptWriting, KeptTurnsAndFlags
  <2> QED BY <1>1, <1>2, <1>3, <2>1, <2>2, QuietSafe
<1> QED BY <1>4, <1>5 DEF TerminalAnswers

LEMMA TerminalErrsSafe ==
    ASSUME SystemTypeOK, NEW s \in Interactive, NEW r \in Requests, TerminalErrs(s, r)
    PROVE  SafeStep
<1>1. s \in Hosts /\ r \in Asked(s)
  BY HostFacts, GateFacts DEF TerminalErrs
<1>2. /\ AskTypeOK' /\ AsksGrow /\ InboxTypeOK'
      /\ responded' \in [Interactive -> SUBSET Requests]
  BY <1>1, SendType DEF TerminalErrs, Replies
<1>3. GateTypeOK'
  BY <1>2, ShownLess DEF TerminalErrs
<1>4. QuietStep
  BY QuietIdle, KeptTurnsAndFlags DEF TerminalErrs
<1> QED BY <1>2, <1>3, <1>4, GateSafe DEF TerminalErrs

LEMMA BeginCloseSafe ==
    ASSUME SystemTypeOK, NEW s \in Interactive, BeginClose(s) PROVE SafeStep
<1>0. s \in Hosts /\ s \in Sessions
  BY HostFacts
<1>1. AskTypeOK' /\ AsksGrow
  BY <1>0, VoidType DEF BeginClose, SystemTypeOK
<1>2. HostTypeOK' /\ TurnTypeOK'
  BY <1>0, TurnChanges DEF BeginClose, SystemTypeOK, HostTypeOK
<1>3. InboxTypeOK'
  <2>1. <<>> \in Seq(Message(s)')
    BY EmptySeq
  <2> QED BY <1>0, <1>1, <2>1, InboxUpdate DEF BeginClose, SystemTypeOK
<1>4. GateTypeOK'
  BY <1>1, GateFacts, GateUpdate DEF BeginClose, SystemTypeOK
<1>5. TaskTypeOK'
  BY <1>1, KeptTasks DEF BeginClose, SystemTypeOK, taskVars
<1>6. QuietStep
  BY QuietIdle, KeptTurnsAndFlags DEF BeginClose
<1> QED BY <1>1, <1>2, <1>3, <1>4, <1>5, <1>6, QuietSafe DEF BeginClose

LEMMA EndCloseSafe == ASSUME SystemTypeOK, NEW s \in Interactive, EndClose(s) PROVE SafeStep
<1>1. QuietStep
  BY HostFacts, QuietEndIfActive, KeptTurnsAndFlags DEF EndClose, TerminalStatus
<1>2. HostTypeOK' /\ TurnTypeOK'
  BY DEF EndClose, SystemTypeOK, HostTypeOK, TurnTypeOK
<1>3. AsksGrow => TaskTypeOK'
  BY KeptTasks DEF EndClose, SystemTypeOK, taskVars
<1> QED BY <1>1, <1>2, <1>3, TaskSafe DEF EndClose

LEMMA TuiSafe == ASSUME SystemTypeOK, Tui PROVE SafeStep
  BY OpenTuiSafe, TuiThreadSafe, HandleUpstreamSafe, RunCallbackSafe, TerminalAnswersSafe,
     TerminalErrsSafe, BeginCloseSafe, EndCloseSafe DEF Tui

-----------------------------------------------------------------------------
(* Restarts. *)

LEMMA RestartSafe == ASSUME SystemTypeOK, Restart PROVE SafeStep
<1>1. OrchNext /\ live' = {} /\ OrchTypeOK'
  <2>1. Reconcile
    BY DEF Restart
  <2>2. OrchNext /\ live' = {}
    BY <2>1 DEF OrchNext, EndHandler, Reconcile
  <2> QED BY <2>2, OrchStepType DEF SystemTypeOK
<1>2. HostTypeOK'
  BY DEF Restart, HostTypeOK
<1>3. TurnTypeOK'
  <2>1. turns' = [s \in Sessions |->
            IF s \in Sessions THEN [turns[s] EXCEPT !.on = FALSE, !.stop = FALSE]
                              ELSE turns[s]]
    BY DEF Restart
  <2> QED BY <2>1, TurnsOffType DEF SystemTypeOK
<1>4. AskTypeOK'
  BY DEF Restart, AskTypeOK
<1>5. InboxTypeOK'
  <2>1. \A h \in Hosts : inbox'[h] = <<>>
    BY DEF Restart
  <2>2. \A h \in Hosts : inbox'[h] \in Seq(Message(h)')
    BY <2>1, EmptySeq
  <2> QED BY <2>2 DEF InboxTypeOK, Restart
<1>6. AskerTypeOK'
  BY <1>1 DEF Restart, AskerTypeOK
<1>7. GateTypeOK'
  BY DEF Restart, GateTypeOK
<1>8. TaskTypeOK'
  <2>1. restarts \in 0 .. MaxRestarts
    BY DEF SystemTypeOK, TaskTypeOK
  <2>2. restarts' \in 0 .. MaxRestarts
    <3>1. restarts < MaxRestarts /\ restarts' = restarts + 1
      BY DEF Restart
    <3> QED BY <2>1, <3>1, BoundsAssumption
  <2>3. creating' \in [Sessions -> {"no", "thread", "turn", "done", "failed"}]
    <3>1. creating \in [Sessions -> {"no", "thread", "turn", "done", "failed"}]
      BY DEF SystemTypeOK, TaskTypeOK
    <3> QED BY <3>1 DEF Restart
  <2>4. writing' = [w \in Workers |-> Idle] /\ consumers' = TRUE /\ routing' = TRUE
    BY DEF Restart
  <2> QED BY <2>2, <2>3, <2>4 DEF TaskTypeOK, IsIdle
<1> QED BY <1>1, <1>2, <1>3, <1>4, <1>5, <1>6, <1>7, <1>8 DEF SafeStep, SystemTypeOK

-----------------------------------------------------------------------------
(* Theorems. *)

LEMMA SystemInitType == SystemInit => SystemTypeOK
<1> SUFFICES ASSUME SystemInit PROVE SystemTypeOK
  OBVIOUS
<1>1. OrchTypeOK /\ live = {}
  BY OrchInitType DEF SystemInit, OrchInit
<1>2. TurnTypeOK
  BY BoundsAssumption DEF SystemInit, TurnTypeOK, TurnRecord, SaneTurn, NoTurn
<1>3. InboxTypeOK
  BY EmptySeq DEF SystemInit, InboxTypeOK
<1>4. HostTypeOK /\ AskTypeOK /\ AskerTypeOK /\ GateTypeOK
  BY <1>1 DEF SystemInit, HostTypeOK, AskTypeOK, AskerTypeOK, GateTypeOK
<1>5. TaskTypeOK
  BY BoundsAssumption DEF SystemInit, TaskTypeOK, IsIdle
<1> QED BY <1>1, <1>2, <1>3, <1>4, <1>5 DEF SystemTypeOK

LEMMA SystemStep == SystemTypeOK /\ [SystemNext]_vars => SafeStep
<1>1. ASSUME SystemTypeOK, UNCHANGED vars PROVE SafeStep
  <2>1. AskTypeOK' /\ AsksGrow
    BY <1>1, KeptAsks DEF SystemTypeOK, vars, hostVars
  <2> QED BY <1>1, <2>1, HostSafe, KeptTypes DEF vars, hostVars
<1>2. ASSUME SystemTypeOK, SystemNext PROVE SafeStep
  BY <1>2, AppServerSafe, CreatesSafe, OrchestratorSafe, TuiSafe, ResponsesSafe, CancelSafe,
     RestartSafe DEF SystemNext
<1> QED BY <1>1, <1>2

\* The variables keep their types: whatever is queued, called back, shown or awaited
\* is a request that the app-server it is answered to made.
THEOREM SystemTypeCorrect == SystemSpec => []SystemTypeOK
  BY SystemInitType, SystemStep, PTL DEF SystemSpec, SafeStep

\* The system, with its app-servers, terminals and restarts, implements the
\* orchestrator: the tables, the live interactions and the outbox change only as its
\* handlers change them.
THEOREM SystemImplementsOrchestrator == SystemSpec => OrchSpec
<1>1. SystemInit => OrchInit
  BY DEF SystemInit
<1>2. SystemTypeOK /\ [SystemNext]_vars => [OrchNext]_orchVars
  BY SystemStep DEF SafeStep
<1> QED BY <1>1, <1>2, SystemTypeCorrect, PTL DEF SystemSpec, OrchSpec

\* What is pending can be answered, in every run of the whole system.
THEOREM SystemAnswerable == SystemSpec => []PendingIsAnswerable
  BY SystemImplementsOrchestrator, PendingAnswerable, PTL

\* Every session that ended is reported once, in every run of the whole system.
THEOREM SystemReportedOnce == SystemSpec => []EndedOnce
  BY SystemImplementsOrchestrator, ReportedOnce, PTL

\* The system runs the transactions of the store and nothing else on its tables, so
\* it inherits the invariants of the store.
THEOREM SystemImplementsStore == SystemSpec => StoreSpec
  BY SystemImplementsOrchestrator, OrchImplementsStore, PTL

\* A pending interaction belongs to an active session, is the only one with its
\* request id, and shows in the status of its session; decisions are on record with
\* their authors: in every run of the whole system.
THEOREM SystemTables == SystemSpec => []TablesOK
  BY SystemImplementsStore, Tables, PTL

\* First response wins, in every run of the whole system.
THEOREM SystemFirstResponse == SystemSpec => FirstResponseWins
  BY SystemImplementsStore, FirstResponse, PTL

-----------------------------------------------------------------------------
(* Queues: what is in them, and where. *)

\* The messages in queue q, and whether m is in it once at most.
In(q) == {q[k] : k \in 1 .. Len(q)}
Once(q, m) == \A j, k \in 1 .. Len(q) : q[j] = m /\ q[k] = m => j = k

LEMMA AppendFacts ==
    ASSUME NEW S, NEW q \in Seq(S), NEW x \in S
    PROVE  /\ Len(Append(q, x)) = Len(q) + 1 /\ Len(q) \in Nat
           /\ \A k \in 1 .. Len(q) : Append(q, x)[k] = q[k]
           /\ Append(q, x)[Len(q) + 1] = x
           /\ In(Append(q, x)) = In(q) \cup {x}
           /\ \A m : Once(q, m) /\ (m = x => m \notin In(q)) => Once(Append(q, x), m)
<1>1. /\ Len(Append(q, x)) = Len(q) + 1 /\ Len(q) \in Nat
      /\ \A k \in 1 .. Len(q) : Append(q, x)[k] = q[k]
      /\ Append(q, x)[Len(q) + 1] = x
  BY AppendProperties, LenProperties
<1>2. In(Append(q, x)) = In(q) \cup {x}
  BY <1>1 DEF In
<1>3. \A m : Once(q, m) /\ (m = x => m \notin In(q)) => Once(Append(q, x), m)
  BY <1>1 DEF In, Once
<1> QED BY <1>1, <1>2, <1>3

LEMMA TailFacts ==
    ASSUME NEW S, NEW q \in Seq(S), q # <<>>
    PROVE  /\ Len(Tail(q)) = Len(q) - 1 /\ Len(q) \in Nat /\ Len(q) > 0
           /\ Head(q) = q[1] /\ Head(q) \in In(q)
           /\ \A k \in 1 .. Len(q) - 1 : Tail(q)[k] = q[k + 1]
           /\ In(Tail(q)) \subseteq In(q) /\ In(q) \subseteq In(Tail(q)) \cup {Head(q)}
           /\ \A m : Once(q, m) => Once(Tail(q), m) /\ (m = Head(q) => m \notin In(Tail(q)))
<1>1. /\ Len(Tail(q)) = Len(q) - 1 /\ Len(q) \in Nat /\ Len(q) > 0 /\ Head(q) = q[1]
      /\ \A k \in 1 .. Len(q) - 1 : Tail(q)[k] = q[k + 1]
  BY HeadTailProperties, LenProperties, EmptySeq
<1>2. Head(q) \in In(q)
  BY <1>1 DEF In
<1>3. In(Tail(q)) \subseteq In(q)
  BY <1>1 DEF In
<1>4. ASSUME NEW m \in In(q), m # Head(q) PROVE m \in In(Tail(q))
  <2>1. PICK k \in 1 .. Len(q) : q[k] = m
    BY DEF In
  <2>2. k # 1 /\ k - 1 \in 1 .. Len(q) - 1
    BY <1>1, <1>4, <2>1
  <2>3. Tail(q)[k - 1] = m
    BY <1>1, <2>1, <2>2
  <2> QED BY <1>1, <2>2, <2>3 DEF In
<1>5. ASSUME NEW m, Once(q, m)
      PROVE  Once(Tail(q), m) /\ (m = Head(q) => m \notin In(Tail(q)))
  <2>1. Once(Tail(q), m)
    BY <1>1, <1>5 DEF Once
  <2>2. m = Head(q) => m \notin In(Tail(q))
    BY <1>1, <1>5 DEF In, Once
  <2> QED BY <2>1, <2>2
<1> QED BY <1>1, <1>2, <1>3, <1>4, <1>5

\* The queue q without its k-th message.
LEMMA WithoutFacts ==
    ASSUME NEW S, NEW q \in Seq(S), NEW k \in 1 .. Len(q), NEW n, n = Len(q)
    PROVE  LET p == SubSeq(q, 1, k - 1) \o SubSeq(q, k + 1, n) IN
           /\ Len(p) = n - 1
           /\ \A j \in 1 .. n - 1 : p[j] = IF j < k THEN q[j] ELSE q[j + 1]
<1> DEFINE a == SubSeq(q, 1, k - 1)
           b == SubSeq(q, k + 1, n)
           p == a \o b
<1>1. n \in Nat /\ k \in Nat /\ k > 0 /\ k <= n
  BY LenProperties
<1>e. \A j \in 1 .. n : q[j] \in S
  BY ElementOfSeq
<1>2. /\ a \in Seq(S) /\ Len(a) = k - 1
      /\ \A j \in 1 .. k - 1 : a[j] = q[j]
  <2>1. /\ 1 \in Int /\ k - 1 \in Int /\ \A j \in 1 .. k - 1 : q[j] \in S
        /\ (IF 1 <= k - 1 THEN (k - 1) - 1 + 1 ELSE 0) = k - 1
        /\ (k - 1) - 1 + 1 = k - 1
        /\ \A j \in 1 .. k - 1 : 1 + j - 1 = j
    BY <1>1, <1>e
  <2>2. /\ a \in Seq(S)
        /\ Len(a) = IF 1 <= k - 1 THEN (k - 1) - 1 + 1 ELSE 0
        /\ \A j \in 1 .. (k - 1) - 1 + 1 : a[j] = q[1 + j - 1]
    BY <2>1, SubSeqProperties
  <2> HIDE DEF a
  <2> QED BY <2>1, <2>2
<1>3. /\ b \in Seq(S) /\ Len(b) = n - k
      /\ \A j \in 1 .. n - k : b[j] = q[k + j]
  <2>1. /\ k + 1 \in Int /\ n \in Int /\ \A j \in k + 1 .. n : q[j] \in S
        /\ (IF k + 1 <= n THEN n - (k + 1) + 1 ELSE 0) = n - k
        /\ n - (k + 1) + 1 = n - k
        /\ \A j \in 1 .. n - k : (k + 1) + j - 1 = k + j
    BY <1>1, <1>e
  <2>2. /\ b \in Seq(S)
        /\ Len(b) = IF k + 1 <= n THEN n - (k + 1) + 1 ELSE 0
        /\ \A j \in 1 .. n - (k + 1) + 1 : b[j] = q[(k + 1) + j - 1]
    BY <2>1, SubSeqProperties
  <2> HIDE DEF b
  <2> QED BY <2>1, <2>2
<1> HIDE DEF a, b
<1>4. /\ Len(p) = (k - 1) + (n - k)
      /\ \A j \in 1 .. (k - 1) + (n - k) : p[j] = IF j <= k - 1 THEN a[j] ELSE b[j - (k - 1)]
  <2>1. /\ Len(a \o b) = Len(a) + Len(b)
        /\ \A j \in 1 .. Len(a) + Len(b) :
             (a \o b)[j] = IF j <= Len(a) THEN a[j] ELSE b[j - Len(a)]
    BY <1>2, <1>3, ConcatProperties
  <2> QED BY <1>2, <1>3, <2>1
<1> HIDE DEF p
<1>5. \A j \in 1 .. n - 1 : p[j] = IF j < k THEN q[j] ELSE q[j + 1]
  <2> TAKE j \in 1 .. n - 1
  <2>0. p[j] = IF j <= k - 1 THEN a[j] ELSE b[j - (k - 1)]
    BY <1>1, <1>4
  <2>1. CASE j < k
    BY <1>1, <1>2, <2>0, <2>1
  <2>2. CASE ~ (j < k)
    <3>1. j - (k - 1) \in 1 .. n - k /\ k + (j - (k - 1)) = j + 1 /\ ~ (j <= k - 1)
      BY <1>1, <2>2
    <3>2. p[j] = b[j - (k - 1)]
      BY <2>0, <3>1
    <3> QED BY <1>3, <2>2, <3>1, <3>2
  <2> QED BY <2>1, <2>2
<1>6. (k - 1) + (n - k) = n - 1
  BY <1>1
<1> QED BY <1>4, <1>5, <1>6 DEF p, a, b

LEMMA PickFacts ==
    ASSUME NEW q, NEW n \in Nat, n = Len(q), NEW k \in 1 .. n, NEW p, Len(p) = n - 1,
           \A j \in 1 .. n - 1 : p[j] = IF j < k THEN q[j] ELSE q[j + 1]
    PROVE  /\ q[k] \in In(q)
           /\ In(p) \subseteq In(q) /\ In(q) \subseteq In(p) \cup {q[k]}
           /\ \A m : Once(q, m) => Once(p, m)
           /\ Once(q, q[k]) => q[k] \notin In(p)
<1>1. k \in Nat /\ k > 0 /\ k <= n /\ Len(p) = n - 1
  OBVIOUS
<1> DEFINE At(x) == IF x < k THEN x ELSE x + 1
<1>6. \A x \in 1 .. n - 1 : At(x) \in 1 .. n /\ At(x) # k /\ p[x] = q[At(x)]
  BY <1>1
<1>7. \A x, y \in 1 .. n - 1 : At(x) = At(y) => x = y
  BY <1>1
<1>8. \A j \in 1 .. n : j # k => \E x \in 1 .. n - 1 : At(x) = j
  <2> TAKE j \in 1 .. n
  <2>1. CASE j < k
    <3>1. j \in 1 .. n - 1 /\ At(j) = j
      BY <1>1, <2>1
    <3> QED BY <3>1
  <2>2. CASE j > k
    <3>1. j - 1 \in 1 .. n - 1 /\ At(j - 1) = j
      BY <1>1, <2>2
    <3> QED BY <3>1
  <2> QED BY <1>1, <2>1, <2>2
<1>9. In(q) = {q[j] : j \in 1 .. n} /\ In(p) = {p[j] : j \in 1 .. n - 1} /\ k \in 1 .. n
  BY <1>1 DEF In
<1> HIDE DEF At
<1>10. In(p) \subseteq In(q) /\ q[k] \in In(q)
  BY <1>6, <1>9
<1>11. ASSUME NEW j \in 1 .. n, j # k PROVE q[j] \in In(p)
  <2>1. PICK x \in 1 .. n - 1 : At(x) = j
    BY <1>8, <1>11
  <2>2. q[j] = p[x]
    BY <1>6, <2>1
  <2> QED BY <1>9, <2>2
<1>12. ASSUME NEW m, Once(q, m) PROVE Once(p, m)
  <2> SUFFICES ASSUME NEW x \in 1 .. n - 1, NEW y \in 1 .. n - 1, p[x] = m, p[y] = m
               PROVE  x = y
    BY <1>1 DEF Once
  <2>1. At(x) \in 1 .. n /\ q[At(x)] = m /\ At(y) \in 1 .. n /\ q[At(y)] = m
    BY <1>6
  <2>2. At(x) = At(y)
    BY <1>12, <2>1 DEF Once
  <2> QED BY <1>7, <2>2
<1>13. ASSUME Once(q, q[k]), q[k] \in In(p) PROVE FALSE
  <2>1. PICK x \in 1 .. n - 1 : p[x] = q[k]
    BY <1>9, <1>13
  <2>2. At(x) \in 1 .. n /\ At(x) # k /\ q[At(x)] = q[k]
    BY <1>6, <2>1
  <2> QED BY <1>1, <1>13, <2>2 DEF Once
<1> QED BY <1>9, <1>10, <1>11, <1>12, <1>13


-----------------------------------------------------------------------------
(* What handlers do to the rows. *)

\* Row i stays as it is, or is closed without a decision.
SameRow(i) ==
    /\ SameRequest(interactions'[i], interactions[i])
    /\ SameDecision(interactions'[i], interactions[i])
    /\ \/ interactions'[i].status = interactions[i].status
       \/ Pending(i) /\ interactions'[i].status \in {"cancelled", "expired"}

RowsKept == \A i \in Interactions : SameRow(i)

\* Row i alone is closed, by an answer.
RowDecided(i, d, st) ==
    /\ Pending(i) /\ SameRequest(interactions'[i], interactions[i])
    /\ interactions'[i].status = st /\ interactions'[i].decision = d
    /\ \A j \in Interactions \ {i} : interactions'[j] = interactions[j]

\* A session that ended, or was not there, is not active again.
SessionsKept ==
    \A s \in Sessions :
        /\ sessions[s].status # "absent" => sessions'[s].status # "absent"
        /\ Active(s)' => Active(s) \/ sessions[s].status = "absent"

LEMMA RowsIdle == UNCHANGED interactions => RowsKept
  BY DEF RowsKept, SameRow, SameRequest, SameDecision

LEMMA RowsClosed ==
    ASSUME NEW I, NEW st \in {"cancelled", "expired"}, Closed(I, st),
           \A i \in Interactions : SameDecision(interactions'[i], interactions[i]),
           \A i \in Interactions : i \in I => Pending(i)
    PROVE  RowsKept
<1>1. ASSUME NEW i \in Interactions PROVE SameRow(i)
  <2>1. CASE i \in I
    BY <2>1 DEF Closed, SameRow
  <2>2. CASE i \notin I
    BY <2>2 DEF Closed, SameRow
  <2> QED BY <2>1, <2>2
<1> QED BY <1>1 DEF RowsKept

LEMMA RowsOfClosed ==
    ASSUME TypeOK, NEW S, NEW st \in {"cancelled", "expired"}, ClosePendingOf(S, st)
    PROVE  RowsKept
<1> DEFINE I == {i \in Interactions : Pending(i) /\ interactions[i].session \in S}
<1>1. Closed(I, st) /\ \A i \in Interactions : SameDecision(interactions'[i], interactions[i])
  BY ClosePendingFacts DEF ClosedStatus
<1>2. \A i \in Interactions : i \in I => Pending(i)
  OBVIOUS
<1> HIDE DEF I
<1> QED BY <1>1, <1>2, RowsClosed

LEMMA RowsEnd ==
    ASSUME OrchTypeOK, NEW S, NEW st, EndSessions(S, st) PROVE RowsKept
<1>1. TypeOK /\ ClosePendingOf(S, "cancelled")
  BY DEF OrchTypeOK, EndSessions, ClaimTerminal
<1> QED BY <1>1, RowsOfClosed

LEMMA RowsEndIfActive ==
    ASSUME OrchTypeOK, NEW s, NEW st, EndIfActive(s, st) PROVE RowsKept
  BY RowsEnd, RowsIdle DEF EndIfActive, orchVars

LEMMA RowsInterruptAll == ASSUME OrchTypeOK, InterruptAll PROVE RowsKept
  BY RowsEnd, RowsIdle DEF InterruptAll, orchVars

LEMMA RowsFail == ASSUME OrchTypeOK, NEW s, FailStartup(s) PROVE RowsKept
<1>1. CASE Active(s)
  <2>1. TypeOK /\ ClosePendingOf({s}, "cancelled")
    BY <1>1 DEF OrchTypeOK, FailStartup, ClaimTerminal
  <2> QED BY <2>1, RowsOfClosed
<1>2. CASE ~ Active(s)
  BY <1>2, RowsIdle DEF FailStartup, orchVars
<1> QED BY <1>1, <1>2

LEMMA RowsResolved ==
    ASSUME OrchTypeOK, NEW r \in Requests, RequestResolved(r) PROVE RowsKept
<1>1. TypeOK /\ live \subseteq Interactions
  BY DEF OrchTypeOK
<1>2. CASE UNCHANGED interactions
  BY <1>2, RowsIdle
<1>3. CASE \E i \in LiveByRequest(r) : CancelInteraction(i)
  <2>1. PICK i \in Interactions : CancelInteraction(i)
    BY <1>1, <1>3 DEF LiveByRequest
  <2>2. Pending(i) /\ Closed({i}, "cancelled") /\ Decided(i, "cancelled")
    BY <1>1, <2>1, CancelFacts
  <2>3. \A j \in Interactions : SameDecision(interactions'[j], interactions[j])
    <3>1. SameDecision(interactions'[i], interactions[i])
      BY <2>2 DEF Decided
    <3>2. \A j \in Interactions \ {i} : interactions'[j] = interactions[j]
      BY <2>2 DEF Closed
    <3> QED BY <3>1, <3>2 DEF SameDecision
  <2>4. \A j \in Interactions : j \in {i} => Pending(j)
    BY <2>2
  <2> QED BY <2>2, <2>3, <2>4, RowsClosed
<1> QED BY <1>2, <1>3 DEF RequestResolved, orchVars, storeVars

LEMMA RowsTurn ==
    ASSUME OrchTypeOK, NEW t, NEW u \in Turns, NEW st
    PROVE  TurnStarted(t, u) \/ TurnCompleted(t, u, st) => RowsKept
<1>1. ASSUME TurnStarted(t, u) PROVE RowsKept
  BY <1>1, RowsIdle DEF TurnStarted, BindTurn, UpdateSessionIfStatus, orchVars
<1>2. ASSUME NEW s, FinishInteractive(s, u) PROVE RowsKept
  <2>1. TypeOK /\ ClosePendingOf({s}, "cancelled")
    BY <1>2 DEF OrchTypeOK, FinishInteractive, FinishTurn
  <2> QED BY <2>1, RowsOfClosed
<1>3. ASSUME TurnCompleted(t, u, st) PROVE RowsKept
  BY <1>2, <1>3, RowsEnd, RowsIdle DEF TurnCompleted, orchVars
<1> QED BY <1>1, <1>3

LEMMA RowsNotification ==
    ASSUME OrchTypeOK, NEW h, NEW msg \in Message(h), ~ IsRequest(msg),
           HandleNotification(msg)
    PROVE  RowsKept
<1>1. CASE msg[1] = "resolved"
  <2>1. RequestResolved(msg[2]) /\ msg[2] \in Requests
    BY <1>1, MessageFacts DEF HandleNotification, Asked
  <2> QED BY <2>1, RowsResolved
<1>2. CASE msg[1] = "started"
  <2>1. TurnStarted(msg[2], msg[3]) /\ msg[3] \in Turns
    BY <1>2, MessageFacts DEF HandleNotification
  <2> QED BY <2>1, RowsTurn
<1>3. CASE msg[1] = "completed"
  <2>1. TurnCompleted(msg[2], msg[3], msg[4]) /\ msg[3] \in Turns
    BY <1>3, MessageFacts DEF HandleNotification
  <2> QED BY <2>1, RowsTurn
<1> QED BY <1>1, <1>2, <1>3, MessageFacts DEF IsRequest

LEMMA RowsReconcile == ASSUME OrchTypeOK, Reconcile PROVE RowsKept
<1> DEFINE I == {i \in Interactions : Pending(i)}
<1>1. TypeOK /\ ReconcileStartup
  BY DEF OrchTypeOK, Reconcile
<1>2. Closed(I, "expired") /\ \A i \in Interactions : SameDecision(interactions'[i], interactions[i])
  BY <1>1, ReconcileFacts
<1>3. \A i \in Interactions : i \in I => Pending(i)
  OBVIOUS
<1> HIDE DEF I
<1> QED BY <1>2, <1>3, RowsClosed

\* An answer closes one row, and keeps what identifies it.
LEMMA RowDecide ==
    ASSUME OrchTypeOK, NEW i \in Interactions, NEW d, NEW a \in Actors,
           NEW st \in {"resolved", "expired"}, Decide(i, d, a, st)
    PROVE  RowDecided(i, d, st)
<1> DEFINE y == [interactions[i] EXCEPT !.status = st, !.decision = d, !.actor = a]
<1>1. Pending(i) /\ interactions' = [interactions EXCEPT ![i] = y]
  BY DEF Decide, Resolve, CloseAndRefresh
<1>2. interactions[i] \in InteractionRow /\ interactions \in [Interactions -> InteractionRow]
  BY DEF OrchTypeOK, TypeOK
<1>3. y.status = st /\ y.decision = d /\ SameRequest(y, interactions[i])
  BY <1>2 DEF InteractionRow, SameRequest
<1>4. interactions'[i] = y /\ \A j \in Interactions \ {i} : interactions'[j] = interactions[j]
  BY <1>1, <1>2
<1> HIDE DEF y
<1> QED BY <1>1, <1>3, <1>4 DEF RowDecided

\* A row that is opened was absent; the others stay.
LEMMA RowOpened ==
    ASSUME OrchTypeOK, NEW i \in Interactions, NEW s \in Sessions, NEW r \in Requests,
           NEW k \in Kinds, OpenLive(i, s, r, k)
    PROVE  /\ interactions[i].status = "absent" /\ Active(s) /\ RequestFree(r)
           /\ Opened(i, s, r, k) /\ live' = live \cup {i}
  BY OpenFacts DEF OrchTypeOK, OpenLive

LEMMA MovedKeeps ==
    ASSUME NEW S \in SUBSET Sessions, NEW st, Moved(S, st), st # "absent", AllActive(S)
    PROVE  SessionsKept
  BY DEF Moved, SessionsKept, AllActive, Active

LEMMA SessionsStep == ASSUME OrchTypeOK, [OrchNext]_orchVars PROVE SessionsKept
<1>1. TypeOK /\ [StoreNext]_storeVars
  BY HandlerEffects, IdleEffect DEF HandlerEffect, OrchTypeOK
<1>3. CASE UNCHANGED sessions
  BY <1>3 DEF SessionsKept, Active
<1>4. CASE StoreNext
  <2>1. CASE SessionEffect
    BY <1>1, <2>1 DEF SessionEffect, SessionsKept, Moved, Active, TypeOK, SessionRow
  <2>2. CASE OpenEffect
    <3>1. PICK s \in Sessions, k \in Kinds :
          /\ Active(s)
          /\ Moved({s}, IF k = "user_input" THEN "waiting_for_input"
                                            ELSE "waiting_for_approval")
      BY <2>2 DEF OpenEffect
    <3> DEFINE st == IF k = "user_input" THEN "waiting_for_input" ELSE "waiting_for_approval"
    <3>2. st # "absent" /\ Moved({s}, st)
      BY <3>1
    <3> HIDE DEF st
    <3>3. AllActive({s}) /\ {s} \in SUBSET Sessions
      BY <3>1 DEF AllActive
    <3> QED BY <3>2, <3>3, MovedKeeps
  <2>3. CASE CloseEffect
    <3>1. PICK i \in Interactions : Pending(i) /\ Refreshed(i)
      BY <2>3 DEF CloseEffect
    <3> DEFINE s == interactions[i].session
               st == RefreshedStatus(PendingOf(s) \ {i})
    <3>2. st \in ActiveStatus
      BY RefreshedStatusType
    <3>3. st # "absent"
      BY <3>2 DEF ActiveStatus
    <3>4. \/ Active(s) /\ Moved({s}, st)
          \/ UNCHANGED sessions
      BY <3>1 DEF Refreshed
    <3>5. i \in Interactions /\ Pending(i)
      BY <3>1
    <3>6. {s} \in SUBSET Sessions
      BY <1>1, <3>5 DEF TypeOK, Pending
    <3>7. Active(s) => AllActive({s})
      BY DEF AllActive
    <3> HIDE DEF s, st
    <3> QED BY <1>3, <3>3, <3>4, <3>6, <3>7, MovedKeeps
  <2>4. CASE EndEffect
    <3>1. PICK S \in SUBSET Sessions, st \in TerminalStatus \cup {"running"} :
              AllActive(S) /\ Moved(S, st)
      BY <2>4 DEF EndEffect
    <3>2. st # "absent"
      BY DEF TerminalStatus
    <3> QED BY <3>1, <3>2, MovedKeeps
  <2>5. CASE AttachEffect
    BY <1>3, <2>5 DEF AttachEffect
  <2> QED BY <1>1, <1>4, <2>1, <2>2, <2>3, <2>4, <2>5, StepEffects
<1> QED BY <1>1, <1>3, <1>4 DEF storeVars


-----------------------------------------------------------------------------
(* What a step does to requests, queues and turns. *)

RequestMsg(r) == <<"request", r>>
ResolvedMsg(r) == <<"resolved", r>>

\* Request r of h is in a queue, or in a callback of a gateway.
Queued(h, r) == RequestMsg(r) \in In(inbox[h])
Called(h, r) == h \in Interactive /\ r \in callbacks[h]

\* Nobody waits for the answer, or it was given.
Settled(ask) == ask.state = "withdrawn" \/ ask.replies # <<>>

\* Requests stay as they are, or are withdrawn.
AskKept(h, r) ==
    \/ asks'[h][r] = asks[h][r]
    \/ /\ asks[h][r].state = "open"
       /\ asks'[h][r] = [asks[h][r] EXCEPT !.state = "withdrawn"]

\* A request that was made in another thread than the one its session is bound to.
Elsewhere(h, r) == asks[h][r].turn = NoValue

\* As long as a request is open, its turn goes on and its app-server is up.
OpenKept(h, r) ==
    asks'[h][r].state = "open" =>
        LET q == asks[h][r].session IN
        /\ hosts'[h] = hosts[h]
        /\ ~ Elsewhere(h, r) =>
               turns'[q].on = turns[q].on /\ turns'[q].number = turns[q].number

AsksKept == \A h \in Hosts : \A r \in Requests : AskKept(h, r) /\ OpenKept(h, r)

\* The first thread of a session: its own, or one that its TUI resumes.
FirstThreads(q) == {q} \cup (IF q \in Interactive THEN Resumable ELSE {})

\* A session that has a thread keeps it.
ThreadsKept ==
    \A q \in Sessions :
        /\ turns[q].thread # NoValue => turns'[q].thread = turns[q].thread
        /\ turns'[q].thread \in {turns[q].thread} \cup FirstThreads(q)

\* No request is put in a queue; what is resolved is settled.
QueueKept(h) ==
    \A r \in Requests :
        /\ Once(inbox[h], RequestMsg(r)) => Once(inbox'[h], RequestMsg(r))
        /\ RequestMsg(r) \in In(inbox'[h]) => RequestMsg(r) \in In(inbox[h])
        /\ ResolvedMsg(r) \in In(inbox'[h]) =>
               ResolvedMsg(r) \in In(inbox[h]) \/ Settled(asks'[h][r])

QueuesKept == \A h \in Hosts : QueueKept(h)

HostPart == AsksKept /\ ThreadsKept /\ QueuesKept

\* No callback is started.
CallsKept == \A s \in Interactive : callbacks'[s] \subseteq callbacks[s]

\* A gateway counts as responded what it answered and what was resolved.
RespondedKept ==
    \A s \in Interactive :
        /\ responded[s] \subseteq responded'[s]
        /\ \A r \in Requests : r \in responded'[s] =>
               r \in responded[s] \/ ResolvedMsg(r) \in In(inbox[s])

GatePart == CallsKept /\ RespondedKept

\* Why the answer that worker w awaits may be lost.
Lost(w) ==
    \/ sessions'[writing[w].session].status \notin ActiveStatus
    \/ hosts[writing[w].host] # "up"
    \/ writing[w].host \in Interactive /\ writing[w].request \in responded[writing[w].host]

WritesKept ==
    \A w \in Workers :
        writing'[w] = writing[w] \/ (writing'[w] = Idle /\ Lost(w))

RowPart == RowsKept /\ UNCHANGED asker

\* No request is made, handed on, answered or decided.
Plain == HostPart /\ GatePart /\ RowPart /\ WritesKept

\* What is known of a request and its turn.
AskSane(h, r) ==
    LET ask == asks[h][r]
        q == ask.session
    IN
    /\ ask.state = "none" => ask = NoAsk
    /\ ask.state # "none" =>
         /\ HostOf(q) = h
         /\ IF Elsewhere(h, r) THEN q \in Interactive /\ ask.thread \in OtherThreads
            ELSE /\ ask.turn[1] = q
                 /\ turns[q].thread # NoValue /\ ask.thread = turns[q].thread
    /\ ask.state = "open" =>
         /\ ask.replies = <<>> /\ hosts[h] = "up"
         /\ ~ Elsewhere(h, r) => turns[q].on /\ ask.turn = CurrentTurn(q)
    /\ ask.state = "answered" => ask.replies # <<>>

AsksSane ==
    /\ \A h \in Hosts : \A r \in Requests : AskSane(h, r)
    /\ \A q \in Sessions : turns[q].thread \in {NoValue} \cup FirstThreads(q)

-----------------------------------------------------------------------------
(* Steps that leave the requests and the queues alone. *)

LEMMA SameAsks ==
    ASSUME UNCHANGED asks,
           \A h \in Hosts : hosts[h] = "up" => hosts'[h] = hosts[h],
           \A q \in Sessions : turns'[q].on = turns[q].on /\ turns'[q].number = turns[q].number,
           AskTypeOK, AsksSane
    PROVE  AsksKept
<1> SUFFICES ASSUME NEW h \in Hosts, NEW r \in Requests PROVE AskKept(h, r) /\ OpenKept(h, r)
  BY DEF AsksKept
<1>1. AskKept(h, r)
  BY DEF AskKept
<1>2. ASSUME asks'[h][r].state = "open" PROVE asks[h][r].session \in Sessions /\ hosts[h] = "up"
  <2>1. asks[h][r].state = "open"
    BY <1>2
  <2>2. asks[h][r] \in AskRecord
    BY <2>1, AskedFacts
  <2>3. hosts[h] = "up"
    BY <2>1 DEF AsksSane, AskSane
  <2> QED BY <2>2, <2>3 DEF AskRecord
<1>3. OpenKept(h, r)
  BY <1>2 DEF OpenKept
<1> QED BY <1>1, <1>3

LEMMA SameQueues == UNCHANGED inbox => QueuesKept
  BY DEF QueuesKept, QueueKept

LEMMA SameHosts ==
    ASSUME SystemTypeOK, AsksSane, UNCHANGED <<hosts, turns, asks, inbox>> PROVE HostPart
  BY SameAsks, SameQueues DEF SystemTypeOK, HostPart, ThreadsKept

LEMMA SameGates == UNCHANGED gateVars => GatePart
  BY DEF GatePart, CallsKept, RespondedKept, gateVars

LEMMA SameWrites == UNCHANGED writing => WritesKept
<1> SUFFICES ASSUME UNCHANGED writing, NEW w \in Workers PROVE writing'[w] = writing[w]
  BY DEF WritesKept
<1> QED OBVIOUS

\* Dropping a message, and posting one that is not a request.
LEMMA DropQueue ==
    ASSUME NEW h \in Hosts, In(inbox'[h]) \subseteq In(inbox[h]),
           \A m : Once(inbox[h], m) => Once(inbox'[h], m),
           \A g \in Hosts \ {h} : inbox'[g] = inbox[g]
    PROVE  QueuesKept
<1>1. ASSUME NEW g \in Hosts PROVE QueueKept(g)
  BY DEF QueueKept
<1> QED BY <1>1 DEF QueuesKept

LEMMA PostFacts ==
    ASSUME InboxTypeOK, NEW h \in Hosts, NEW msg, Post(h, msg)
    PROVE  /\ inbox'[h] = Append(inbox[h], msg)
           /\ Len(inbox'[h]) = Len(inbox[h]) + 1 /\ Len(inbox[h]) \in Nat
           /\ \A k \in 1 .. Len(inbox[h]) : inbox'[h][k] = inbox[h][k]
           /\ inbox'[h][Len(inbox[h]) + 1] = msg
           /\ In(inbox'[h]) = In(inbox[h]) \cup {msg}
           /\ \A m : Once(inbox[h], m) /\ (m = msg => m \notin In(inbox[h]))
                       => Once(inbox'[h], m)
           /\ \A g \in Hosts \ {h} : inbox'[g] = inbox[g]
<1> DEFINE S == Message(h) \cup {msg}
           q == inbox[h]
<1>1. q \in Seq(S) /\ msg \in S
  BY SeqMonotonic DEF InboxTypeOK
<1>2. /\ inbox'[h] = Append(q, msg)
      /\ \A g \in Hosts \ {h} : inbox'[g] = inbox[g]
  BY DEF Post, InboxTypeOK
<1> HIDE DEF S, q
<1>3. /\ Len(Append(q, msg)) = Len(q) + 1 /\ Len(q) \in Nat
      /\ \A k \in 1 .. Len(q) : Append(q, msg)[k] = q[k]
      /\ Append(q, msg)[Len(q) + 1] = msg
      /\ In(Append(q, msg)) = In(q) \cup {msg}
      /\ \A m : Once(q, m) /\ (m = msg => m \notin In(q)) => Once(Append(q, msg), m)
  BY <1>1, AppendFacts
<1> QED BY <1>2, <1>3 DEF q

LEMMA PostQueue ==
    ASSUME InboxTypeOK, NEW h \in Hosts, NEW msg, Post(h, msg), msg[1] # "request",
           \A r \in Requests : msg = ResolvedMsg(r) => Settled(asks'[h][r])
    PROVE  QueuesKept
<1>1. ASSUME NEW r \in Requests PROVE RequestMsg(r) # msg
  BY DEF RequestMsg
<1>2. ASSUME NEW g \in Hosts PROVE QueueKept(g)
  <2>1. CASE g = h
    <3>1. /\ In(inbox'[h]) = In(inbox[h]) \cup {msg}
          /\ \A m : Once(inbox[h], m) /\ (m = msg => m \notin In(inbox[h]))
                       => Once(inbox'[h], m)
      BY PostFacts
    <3> SUFFICES ASSUME NEW r \in Requests
                 PROVE  /\ Once(inbox[h], RequestMsg(r)) => Once(inbox'[h], RequestMsg(r))
                        /\ RequestMsg(r) \in In(inbox'[h]) => RequestMsg(r) \in In(inbox[h])
                        /\ ResolvedMsg(r) \in In(inbox'[h]) =>
                               ResolvedMsg(r) \in In(inbox[h]) \/ Settled(asks'[h][r])
      BY <2>1 DEF QueueKept
    <3> QED BY <1>1, <3>1
  <2>2. CASE g # h
    <3>1. inbox'[g] = inbox[g]
      BY <2>2, PostFacts
    <3> QED BY <3>1 DEF QueueKept
  <2> QED BY <2>1, <2>2
<1> QED BY <1>2 DEF QueuesKept

LEMMA TakeFacts ==
    ASSUME InboxTypeOK, NEW h \in Hosts, inbox[h] # <<>>,
           inbox' = [inbox EXCEPT ![h] = Tail(@)]
    PROVE  /\ Len(inbox'[h]) = Len(inbox[h]) - 1 /\ Len(inbox[h]) \in Nat /\ Len(inbox[h]) > 0
           /\ Head(inbox[h]) = inbox[h][1] /\ Head(inbox[h]) \in In(inbox[h])
           /\ \A k \in 1 .. Len(inbox[h]) - 1 : inbox'[h][k] = inbox[h][k + 1]
           /\ In(inbox'[h]) \subseteq In(inbox[h])
           /\ In(inbox[h]) \subseteq In(inbox'[h]) \cup {Head(inbox[h])}
           /\ \A m : Once(inbox[h], m) => Once(inbox'[h], m)
           /\ \A m : Once(inbox[h], m) /\ m = Head(inbox[h]) => m \notin In(inbox'[h])
           /\ \A g \in Hosts \ {h} : inbox'[g] = inbox[g]
<1>1. inbox[h] \in Seq(Message(h))
  BY DEF InboxTypeOK
<1>2. inbox'[h] = Tail(inbox[h]) /\ \A g \in Hosts \ {h} : inbox'[g] = inbox[g]
  BY DEF InboxTypeOK
<1> DEFINE q == inbox[h]
<1>3. q \in Seq(Message(h)) /\ q # <<>> /\ inbox'[h] = Tail(q)
  BY <1>1, <1>2
<1> HIDE DEF q
<1>4. /\ Len(Tail(q)) = Len(q) - 1 /\ Len(q) \in Nat /\ Len(q) > 0
      /\ Head(q) = q[1] /\ Head(q) \in In(q)
      /\ \A k \in 1 .. Len(q) - 1 : Tail(q)[k] = q[k + 1]
      /\ In(Tail(q)) \subseteq In(q) /\ In(q) \subseteq In(Tail(q)) \cup {Head(q)}
      /\ \A m : Once(q, m) => Once(Tail(q), m) /\ (m = Head(q) => m \notin In(Tail(q)))
  BY <1>3, TailFacts
<1> QED BY <1>2, <1>3, <1>4 DEF q

LEMMA TakeQueue ==
    ASSUME InboxTypeOK, NEW h \in Hosts, inbox[h] # <<>>,
           inbox' = [inbox EXCEPT ![h] = Tail(@)]
    PROVE  QueuesKept
<1>1. In(inbox'[h]) \subseteq In(inbox[h]) /\ \A m : Once(inbox[h], m) => Once(inbox'[h], m)
  BY TakeFacts
<1>2. \A g \in Hosts \ {h} : inbox'[g] = inbox[g]
  BY TakeFacts
<1> QED BY <1>1, <1>2, DropQueue

LEMMA PickQueue ==
    ASSUME InboxTypeOK, NEW h \in Hosts, NEW k \in 1 .. Len(inbox[h]),
           inbox' = [inbox EXCEPT ![h] = Without(inbox[h], k)]
    PROVE  /\ QueuesKept
           /\ inbox[h][k] \in In(inbox[h])
           /\ In(inbox[h]) \subseteq In(inbox'[h]) \cup {inbox[h][k]}
           /\ Once(inbox[h], inbox[h][k]) => inbox[h][k] \notin In(inbox'[h])
           /\ \A g \in Hosts \ {h} : inbox'[g] = inbox[g]
<1> DEFINE q == inbox[h]
           n == Len(q)
           p == SubSeq(q, 1, k - 1) \o SubSeq(q, k + 1, n)
<1>1. q \in Seq(Message(h)) /\ n \in Nat
  BY LenProperties DEF InboxTypeOK
<1>2. /\ Len(p) = n - 1
      /\ \A j \in 1 .. n - 1 : p[j] = IF j < k THEN q[j] ELSE q[j + 1]
  BY <1>1, WithoutFacts
<1>3. inbox'[h] = p /\ \A g \in Hosts \ {h} : inbox'[g] = inbox[g]
  BY DEF InboxTypeOK, Without
<1>4. k \in 1 .. n /\ n = Len(q)
  OBVIOUS
<1> HIDE DEF p, n, q
<1>5. /\ q[k] \in In(q)
      /\ In(p) \subseteq In(q) /\ In(q) \subseteq In(p) \cup {q[k]}
      /\ \A m : Once(q, m) => Once(p, m)
      /\ Once(q, q[k]) => q[k] \notin In(p)
  BY <1>1, <1>2, <1>4, PickFacts, ZenonT(30)
<1> QED BY <1>3, <1>5, DropQueue DEF q


-----------------------------------------------------------------------------
(* The app-servers. *)

LEMMA SaneFacts ==
    ASSUME AskTypeOK, AsksSane, NEW h \in Hosts, NEW r \in Requests, asks[h][r].state # "none"
    PROVE  /\ asks[h][r] \in AskRecord
           /\ asks[h][r].session \in Sessions /\ HostOf(asks[h][r].session) = h
           /\ asks[h][r].state = "open" =>
                 hosts[h] = "up" /\ (~ Elsewhere(h, r) => turns[asks[h][r].session].on)
           /\ Elsewhere(h, r) => h \in Interactive
<1>1. AskSane(h, r) /\ asks[h][r] \in AskRecord
  BY AskedFacts DEF AsksSane
<1>2. asks[h][r].session \in Interactive => HostOf(asks[h][r].session) \in Interactive
  BY HostFacts
<1> QED BY <1>1, <1>2 DEF AskSane, AskRecord

\* The turn of one session changes.
LEMMA TurnOf ==
    ASSUME TurnTypeOK, NEW s \in Sessions, NEW y, turns' = [turns EXCEPT ![s] = y]
    PROVE  turns'[s] = y /\ \A q \in Sessions \ {s} : turns'[q] = turns[q]
  BY DEF TurnTypeOK

LEMMA StartTurnHost ==
    ASSUME SystemTypeOK, AsksSane, NEW s \in Sessions, StartTurn(s) PROVE HostPart
<1> DEFINE y == [turns[s] EXCEPT !.number = turns[s].number + 1, !.on = TRUE]
           msg == <<"started", turns[s].thread, <<s, turns[s].number + 1>> >>
<1>0. AskTypeOK /\ TurnTypeOK /\ InboxTypeOK /\ HostOf(s) \in Hosts
  BY HostFacts DEF SystemTypeOK
<1>1. /\ turns' = [turns EXCEPT ![s] = y] /\ ~ turns[s].on
      /\ Post(HostOf(s), msg)
      /\ UNCHANGED <<hosts, asks>>
  BY DEF StartTurn
<1>2. y.thread = turns[s].thread
  BY <1>0 DEF TurnTypeOK, TurnRecord
<1>3. msg[1] # "request" /\ msg[1] # "resolved"
  OBVIOUS
<1> HIDE DEF y, msg
<1>4. turns'[s] = y /\ \A q \in Sessions \ {s} : turns'[q] = turns[q]
  BY <1>0, <1>1, TurnOf
<1>5. QueuesKept
  BY <1>0, <1>1, <1>3, PostQueue DEF ResolvedMsg
<1>6. ThreadsKept
  BY <1>2, <1>4 DEF ThreadsKept
<1>7. ASSUME NEW h \in Hosts, NEW r \in Requests PROVE AskKept(h, r) /\ OpenKept(h, r)
  <2>1. asks'[h][r] = asks[h][r] /\ hosts'[h] = hosts[h]
    BY <1>1
  <2>2. asks[h][r].state = "open" /\ ~ Elsewhere(h, r) => asks[h][r].session \in Sessions \ {s}
    BY <1>0, <1>1, SaneFacts
  <2> QED BY <1>4, <2>1, <2>2 DEF AskKept, OpenKept
<1> QED BY <1>5, <1>6, <1>7 DEF HostPart, AsksKept

LEMMA WithdrawHost ==
    ASSUME SystemTypeOK, AsksSane, NEW h \in Hosts, NEW r \in Requests, Withdraw(h, r)
    PROVE  HostPart
<1> DEFINE y == [asks[h][r] EXCEPT !.state = "withdrawn"]
           msg == <<"resolved", r>>
<1>0. AskTypeOK /\ InboxTypeOK
  BY DEF SystemTypeOK
<1>1. /\ asks[h][r].state = "open" /\ asks' = [asks EXCEPT ![h][r] = y]
      /\ Post(h, msg) /\ UNCHANGED <<hosts, turns>>
  BY DEF Withdraw
<1>2. asks[h][r] \in AskRecord
  BY <1>0, <1>1, SaneFacts
<1>3. y.state = "withdrawn"
  BY <1>2 DEF AskRecord
<1>4. msg[1] # "request" /\ (\A q \in Requests : msg = ResolvedMsg(q) => q = r)
  BY DEF ResolvedMsg
<1>5. /\ asks'[h][r] = y
      /\ \A g \in Hosts, q \in Requests : (g # h \/ q # r) => asks'[g][q] = asks[g][q]
  BY <1>0, <1>1 DEF AskTypeOK
<1>6. \A g \in Hosts : \A q \in Requests : AskKept(g, q)
  BY <1>1, <1>5 DEF AskKept
<1> HIDE DEF y, msg
<1>7. QueuesKept
  BY <1>0, <1>1, <1>3, <1>4, <1>5, PostQueue DEF Settled
<1> QED BY <1>1, <1>6, <1>7 DEF HostPart, AsksKept, ThreadsKept, OpenKept

\* The requests that a turn, or an app-server, leaves open are withdrawn.
LEMMA VoidFacts ==
    ASSUME AskTypeOK, NEW h \in Hosts, NEW R, Void(h, R)
    PROVE  /\ \A g \in Hosts : \A r \in Requests : AskKept(g, r)
           /\ \A r \in Requests : asks'[h][r].state = "open" =>
                  asks'[h][r] = asks[h][r] /\ r \notin R
           /\ \A g \in Hosts \ {h} : asks'[g] = asks[g]
<1> DEFINE f == [r \in Requests |->
                   IF asks[h][r].state = "open" /\ r \in R
                   THEN [asks[h][r] EXCEPT !.state = "withdrawn"] ELSE asks[h][r]]
<1>1. asks' = [asks EXCEPT ![h] = f]
  BY DEF Void
<1>2. asks'[h] = f /\ \A g \in Hosts \ {h} : asks'[g] = asks[g]
  BY <1>1 DEF AskTypeOK
<1>3. ASSUME NEW r \in Requests
      PROVE  /\ AskKept(h, r)
             /\ asks'[h][r].state = "open" => asks'[h][r] = asks[h][r] /\ r \notin R
  <2>1. CASE asks[h][r].state = "open" /\ r \in R
    <3>1. asks'[h][r] = [asks[h][r] EXCEPT !.state = "withdrawn"]
      BY <1>2, <2>1
    <3>2. asks[h][r] \in AskRecord
      BY <2>1, AskedFacts
    <3>3. asks'[h][r].state = "withdrawn"
      BY <3>1, <3>2 DEF AskRecord
    <3> QED BY <2>1, <3>1, <3>3 DEF AskKept
  <2>2. CASE ~ (asks[h][r].state = "open" /\ r \in R)
    <3>1. asks'[h][r] = asks[h][r]
      BY <1>2, <2>2
    <3> QED BY <2>2, <3>1 DEF AskKept
  <2> QED BY <2>1, <2>2
<1>4. \A g \in Hosts \ {h} : \A r \in Requests : AskKept(g, r)
  BY <1>2 DEF AskKept
<1> QED BY <1>2, <1>3, <1>4

\* Those that are left open belong to other turns.
LEMMA VoidKept ==
    ASSUME SystemTypeOK, AsksSane, NEW h \in Hosts, NEW R, Void(h, R),
           \A g \in Hosts : hosts'[g] = hosts[g] \/ g = h,
           hosts'[h] = hosts[h] \/ Requests \subseteq R,
           \A q \in Sessions :
              \/ turns'[q] = turns[q]
              \/ /\ HostOf(q) = h
                 /\ \A r \in Requests : asks[h][r].turn = CurrentTurn(q) => r \in R
    PROVE  AsksKept
<1>0. AskTypeOK
  BY DEF SystemTypeOK
<1>1. ASSUME NEW g \in Hosts, NEW r \in Requests, asks'[g][r].state = "open"
      PROVE  /\ asks'[g][r] = asks[g][r] /\ asks[g][r].session \in Sessions
             /\ HostOf(asks[g][r].session) = g
             /\ g = h => r \notin R
             /\ ~ Elsewhere(g, r) => asks[g][r].turn = CurrentTurn(asks[g][r].session)
  <2>1. asks'[g][r] = asks[g][r] /\ (g = h => r \notin R)
    BY <1>0, <1>1, VoidFacts
  <2>2. asks[g][r].state = "open"
    BY <1>1, <2>1
  <2> QED BY <1>0, <2>1, <2>2, SaneFacts DEF AsksSane, AskSane
<1>2. ASSUME NEW g \in Hosts, NEW r \in Requests PROVE OpenKept(g, r)
  <2> SUFFICES ASSUME asks'[g][r].state = "open"
               PROVE  /\ hosts'[g] = hosts[g]
                      /\ ~ Elsewhere(g, r) =>
                            turns'[asks[g][r].session] = turns[asks[g][r].session]
    BY DEF OpenKept
  <2> QED BY <1>1
<1> QED BY <1>0, <1>2, VoidFacts DEF AsksKept

LEMMA TurnsOff ==
    ASSUME TurnTypeOK, NEW q \in Sessions
    PROVE  LET y == [turns[q] EXCEPT !.on = FALSE, !.stop = FALSE]
           IN  y.thread = turns[q].thread /\ y.number = turns[q].number /\ ~ y.on
  BY DEF TurnTypeOK, TurnRecord

LEMMA EndTurnHost ==
    ASSUME SystemTypeOK, AsksSane, NEW s \in Sessions, NEW outcome, EndTurn(s, outcome)
    PROVE  HostPart
<1> DEFINE h == HostOf(s)
           y == [turns[s] EXCEPT !.on = FALSE, !.stop = FALSE]
           msg == <<"completed", turns[s].thread, CurrentTurn(s), outcome>>
<1>0. AskTypeOK /\ TurnTypeOK /\ InboxTypeOK /\ h \in Hosts
  BY HostFacts DEF SystemTypeOK
<1>1. /\ turns' = [turns EXCEPT ![s] = y] /\ Void(h, RequestsOf(s)) /\ Post(h, msg)
      /\ UNCHANGED hosts
  BY DEF EndTurn
<1>2. y.thread = turns[s].thread
  BY <1>0, TurnsOff
<1>3. msg[1] # "request" /\ msg[1] # "resolved"
  OBVIOUS
<1>4. HostOf(s) = h /\ \A r \in Requests : asks[h][r].turn = CurrentTurn(s) => r \in RequestsOf(s)
  BY DEF RequestsOf
<1> HIDE DEF h, y, msg
<1>5. turns'[s] = y /\ \A q \in Sessions \ {s} : turns'[q] = turns[q]
  BY <1>0, <1>1, TurnOf
<1>6. QueuesKept
  BY <1>0, <1>1, <1>3, PostQueue DEF ResolvedMsg
<1>7. ThreadsKept
  BY <1>2, <1>5 DEF ThreadsKept
<1>8. AsksKept
  <2>1. \A q \in Sessions : turns'[q] = turns[q] \/
            /\ HostOf(q) = h
            /\ \A r \in Requests : asks[h][r].turn = CurrentTurn(q) => r \in RequestsOf(s)
    BY <1>4, <1>5
  <2> QED BY <1>0, <1>1, <2>1, VoidKept
<1> QED BY <1>6, <1>7, <1>8 DEF HostPart

LEMMA ExitHost ==
    ASSUME SystemTypeOK, AsksSane, NEW h \in Hosts, Exit(h) PROVE HostPart
<1>0. TurnTypeOK /\ HostTypeOK
  BY DEF SystemTypeOK
<1>1. /\ Void(h, Requests) /\ UNCHANGED inbox
      /\ \A g \in Hosts : hosts'[g] = hosts[g] \/ g = h
  BY <1>0 DEF Exit, HostTypeOK
<1>2. ASSUME NEW q \in Sessions
      PROVE  /\ turns'[q] = turns[q] \/ HostOf(q) = h
             /\ turns'[q].thread = turns[q].thread
  BY <1>0, TurnsOff DEF Exit
<1>3. AsksKept
  BY <1>1, <1>2, VoidKept
<1> QED BY <1>1, <1>2, <1>3, SameQueues DEF HostPart, ThreadsKept

\* A gateway that closes forgets its queue; nothing is open at its app-server.
LEMMA BeginCloseHost ==
    ASSUME SystemTypeOK, AsksSane, NEW s \in Interactive, BeginClose(s) PROVE HostPart
<1> DEFINE y == [turns[s] EXCEPT !.on = FALSE, !.stop = FALSE]
<1>0. TurnTypeOK /\ HostTypeOK /\ InboxTypeOK /\ s \in Sessions /\ s \in Hosts /\ HostOf(s) = s
  BY HostFacts DEF SystemTypeOK
<1>1. /\ turns' = [turns EXCEPT ![s] = y] /\ Void(s, Requests)
      /\ inbox' = [inbox EXCEPT ![s] = <<>>]
      /\ hosts' = [hosts EXCEPT ![s] = "closing"]
  BY DEF BeginClose
<1>2. y.thread = turns[s].thread
  BY <1>0, TurnsOff
<1> HIDE DEF y
<1>3. turns'[s] = y /\ \A q \in Sessions \ {s} : turns'[q] = turns[q]
  BY <1>0, <1>1, TurnOf
<1>4. AsksKept
  <2>1. \A g \in Hosts : hosts'[g] = hosts[g] \/ g = s
    BY <1>0, <1>1 DEF HostTypeOK
  <2>2. \A q \in Sessions : turns'[q] = turns[q] \/ HostOf(q) = s
    BY <1>0, <1>3
  <2> QED BY <1>0, <1>1, <2>1, <2>2, VoidKept
<1>5. QueuesKept
  <2>1. inbox'[s] = <<>> /\ \A g \in Hosts \ {s} : inbox'[g] = inbox[g]
    BY <1>0, <1>1 DEF InboxTypeOK
  <2>2. In(<<>>) = {} /\ \A m : Once(<<>>, m)
    BY EmptySeq DEF In, Once
  <2> QED BY <1>0, <2>1, <2>2, DropQueue
<1>6. ThreadsKept
  BY <1>2, <1>3 DEF ThreadsKept
<1> QED BY <1>4, <1>5, <1>6 DEF HostPart

LEMMA AppServerHost ==
    ASSUME SystemTypeOK, AsksSane, AppServer
    PROVE  \/ HostPart
           \/ \E s \in Sessions, r \in Requests, k \in Kinds :
                 \E t, u : Asking(s, r, t, u, k)
<1>1. ASSUME NEW s \in Sessions, NEW r \in Requests, NEW k \in Kinds,
             Ask(s, r, k) \/ \E t \in OtherThreads : AskElsewhere(s, t, r, k)
      PROVE  \E t, u : Asking(s, r, t, u, k)
  BY <1>1, AskingFacts
<1> QED BY <1>1, StartTurnHost, EndTurnHost, ExitHost, WithdrawHost DEF AppServer, StopTurn


-----------------------------------------------------------------------------
(* The kinds of steps.  A request goes from the queue of its app-server,   *)
(* through a callback at a gateway, to a row or to a refusal, and from the *)
(* row to the hands of a worker and back to its app-server.                *)

\* Request r leaves the queue of h, or its callback runs.
Unqueued(h, r) ==
    Queued(h, r) /\ (Once(inbox[h], RequestMsg(r)) => ~ Queued(h, r)')
Uncalled(h, r) ==
    h \in Interactive /\ r \in callbacks[h] /\ callbacks'[h] = callbacks[h] \ {r}
Taken(h, r) == (h = Managed /\ Unqueued(h, r)) \/ Uncalled(h, r)

\* A gateway starts a callback.
Calls(h, r) ==
    /\ HostPart /\ RespondedKept /\ RowPart /\ WritesKept
    /\ h \in Interactive /\ Unqueued(h, r)
    /\ inbox[h] # <<>> /\ Head(inbox[h]) = RequestMsg(r)
    /\ \A s \in Interactive : \A q \in callbacks'[s] :
           q \in callbacks[s] \/ (s = h /\ q = r)

\* Request r becomes row i.
Opens(h, r, i, s, k) ==
    /\ HostPart /\ GatePart /\ UNCHANGED writing
    /\ Taken(h, r) /\ r \in Asked(h)
    /\ h \in Interactive => r \notin responded[h]
    /\ OpenLive(i, s, r, k)
    /\ asker' = [asker EXCEPT ![i] = h]

\* The managed link turns request r down.
Refuses(r) ==
    /\ HostPart /\ GatePart /\ RowPart
    /\ Taken(Managed, r) /\ r \in Asked(Managed)
    /\ \A s \in SessionOfThread(asks[Managed][r].thread) :
           ~ Accepts(s, asks[Managed][r].turn, r)
    /\ IsIdle(Consumer)
    /\ writing' = [writing EXCEPT ![Consumer] =
                      Awaiting(asks[Managed][r].session, Managed, r, "refused")]

\* An answer closes row i; worker w is to forward it, or to interrupt the turn.
Decides(i, d, st, w, v) ==
    /\ HostPart /\ GatePart /\ UNCHANGED <<asker, asks, inbox>>
    /\ i \in live /\ d \in Decisions /\ RowDecided(i, d, st)
    /\ IsIdle(w) /\ w # Consumer
    /\ v = d \/ (v = "interrupt" /\ st = "expired")
    /\ writing' = [writing EXCEPT ![w] = AwaitingFor(i, v)]

\* App-server h gets the answer v to request r.
Received(h, r, v) ==
    LET ask == asks[h][r] IN
    /\ asks'[h][r] = [ask EXCEPT !.replies = Append(ask.replies, v),
                                 !.state = IF ask.state = "open" THEN "answered" ELSE ask.state]
    /\ \A g \in Hosts : \A q \in Requests : g # h \/ q # r => asks'[g][q] = asks[g][q]

Answers(h, r, v) ==
    /\ QueuesKept /\ RowPart /\ CallsKept /\ UNCHANGED <<hosts, turns>>
    /\ UNCHANGED orchVars
    /\ r \in Asked(h) /\ v \in Replies /\ Received(h, r, v)
    /\ IF h = Managed THEN UNCHANGED responded
       ELSE r \notin responded[h] /\ responded' = [responded EXCEPT ![h] = @ \cup {r}]

\* Worker w forwards what it holds.
Forwards(w) ==
    /\ Answers(writing[w].host, writing[w].request, writing[w].reply)
    /\ writing[w].host \in Hosts
    /\ writing' = [writing EXCEPT ![w] = Idle]

\* A callback turns its request down.
TurnsAway(h, r) ==
    /\ Answers(h, r, "refused") /\ Uncalled(h, r) /\ UNCHANGED writing
    /\ h \in Hosts
    /\ ~ (sessions[h].thread = asks[h][r].thread /\ Accepts(h, asks[h][r].turn, r))

\* A terminal answers with an error.
Errs(h, r) ==
    /\ Answers(h, r, "error") /\ "terminal_error" \in Faults /\ UNCHANGED writing
    /\ h \in Interactive

\* App-server h makes request r.
Asks(h, r) ==
    /\ \E s \in Sessions, k \in Kinds : \E t, u :
         /\ h = HostOf(s) /\ MayAsk(s, t, u)
         /\ asks'[h][r] = [state |-> "open", session |-> s, thread |-> t, turn |-> u,
                           kind |-> k, replies |-> <<>>]
    /\ asks[h][r].state = "none" /\ r \in RequestIds[h]
    /\ \A g \in Hosts : \A q \in Requests : g # h \/ q # r => asks'[g][q] = asks[g][q]
    /\ Post(h, RequestMsg(r))
    /\ UNCHANGED <<orchVars, hosts, turns, gateVars, taskVars, asker>>

StepKind ==
    \/ Plain
    \/ \E h \in Hosts, r \in Requests : Asks(h, r) \/ Calls(h, r) \/ TurnsAway(h, r) \/ Errs(h, r)
    \/ \E h \in Hosts, r \in Requests, i \in Interactions, s \in Sessions, k \in Kinds :
          Opens(h, r, i, s, k)
    \/ \E r \in Requests : Refuses(r)
    \/ \E i \in Interactions, d \in Decisions, st \in {"resolved", "expired"}, w \in Workers,
          v \in Replies \cup {"interrupt"} : Decides(i, d, st, w, v)
    \/ \E w \in Workers : Forwards(w)
    \/ Restart

-----------------------------------------------------------------------------
(* Each action is of one kind. *)

LEMMA AskKind ==
    ASSUME SystemTypeOK, NEW s \in Sessions, NEW r \in Requests, NEW t, NEW u, NEW k \in Kinds,
           Asking(s, r, t, u, k)
    PROVE  Asks(HostOf(s), r)
<1> DEFINE h == HostOf(s)
           y == [state |-> "open", session |-> s, thread |-> t, turn |-> u, kind |-> k,
                 replies |-> <<>>]
<1>1. h \in Hosts /\ AskTypeOK
  BY HostFacts DEF SystemTypeOK
<1>2. /\ asks' = [asks EXCEPT ![h][r] = y] /\ Post(h, RequestMsg(r))
      /\ MayAsk(s, t, u) /\ r \in RequestIds[h] /\ asks[h][r].state = "none"
      /\ UNCHANGED <<orchVars, hosts, turns, gateVars, taskVars, asker>>
  BY DEF Asking, NewRequest, RequestMsg
<1>3. /\ asks'[h][r] = y
      /\ \A g \in Hosts : \A q \in Requests : g # h \/ q # r => asks'[g][q] = asks[g][q]
  <2> HIDE DEF h, y
  <2> QED BY <1>1, <1>2 DEF AskTypeOK
<1> QED BY <1>2, <1>3 DEF Asks

LEMMA AppServerKind == ASSUME SystemTypeOK, AsksSane, AppServer PROVE StepKind
<1>1. CASE HostPart
  <2>1. UNCHANGED <<orchVars, gateVars, taskVars, asker>>
    BY DEF AppServer, StartTurn, Ask, AskElsewhere, NewRequest, EndTurn, StopTurn, Exit, Withdraw
  <2>2. GatePart /\ WritesKept /\ RowPart
    BY <2>1, SameGates, SameWrites, RowsIdle DEF RowPart, orchVars, taskVars
  <2> QED BY <1>1, <2>2 DEF StepKind, Plain
<1>2. CASE \E s \in Sessions, r \in Requests, k \in Kinds :
              \E t, u : Asking(s, r, t, u, k)
  BY <1>2, AskKind, HostFacts DEF StepKind
<1> QED BY <1>1, <1>2, AppServerHost

\* Steps that change at most the thread or the stop mark of a turn.
LEMMA TurnsHost ==
    ASSUME SystemTypeOK, AsksSane, UNCHANGED <<hosts, asks, inbox>>, ThreadsKept,
           \A q \in Sessions : turns'[q].on = turns[q].on /\ turns'[q].number = turns[q].number
    PROVE  HostPart
  BY SameAsks, SameQueues DEF SystemTypeOK, HostPart

LEMMA ThreadHost ==
    ASSUME SystemTypeOK, AsksSane, NEW s \in Sessions, NEW t \in Threads \cap FirstThreads(s),
           turns[s].thread \in {NoValue, t},
           turns' = [turns EXCEPT ![s] = [@ EXCEPT !.thread = t]],
           UNCHANGED <<hosts, asks, inbox>>
    PROVE  HostPart
<1> DEFINE y == [turns[s] EXCEPT !.thread = t]
<1>0. TurnTypeOK /\ t # NoValue
  BY NoValueAssumption DEF SystemTypeOK
<1>1. y.on = turns[s].on /\ y.number = turns[s].number /\ y.thread = t
  BY <1>0 DEF TurnTypeOK, TurnRecord
<1>2. turns' = [turns EXCEPT ![s] = y]
  OBVIOUS
<1> HIDE DEF y
<1>3. turns'[s] = y /\ \A q \in Sessions \ {s} : turns'[q] = turns[q]
  BY <1>0, <1>2, TurnOf
<1>4. ThreadsKept
  BY <1>0, <1>1, <1>3 DEF ThreadsKept
<1>5. \A q \in Sessions : turns'[q].on = turns[q].on /\ turns'[q].number = turns[q].number
  BY <1>1, <1>3
<1> QED BY <1>4, <1>5, TurnsHost

LEMMA InterruptHost ==
    ASSUME SystemTypeOK, AsksSane, NEW s \in Sessions, Interrupt(s),
           UNCHANGED <<hosts, asks, inbox>>
    PROVE  HostPart
<1> DEFINE y == [turns[s] EXCEPT !.stop = TRUE]
<1>0. TurnTypeOK
  BY DEF SystemTypeOK
<1>1. y.on = turns[s].on /\ y.number = turns[s].number /\ y.thread = turns[s].thread
  BY <1>0 DEF TurnTypeOK, TurnRecord
<1>2. turns' = turns \/ turns' = [turns EXCEPT ![s] = y]
  BY DEF Interrupt
<1> HIDE DEF y
<1>3. \A q \in Sessions : /\ turns'[q].on = turns[q].on /\ turns'[q].number = turns[q].number
                          /\ turns'[q].thread = turns[q].thread
  BY <1>0, <1>1, <1>2, TurnOf
<1> QED BY <1>3, TurnsHost DEF ThreadsKept

\* An app-server that is not up is opened, found dead or closed.
LEMMA DownHost ==
    ASSUME SystemTypeOK, AsksSane, NEW h \in Hosts, NEW x, hosts[h] # "up",
           hosts' = [hosts EXCEPT ![h] = x], UNCHANGED <<turns, asks, inbox>>
    PROVE  HostPart
<1>1. \A g \in Hosts : hosts[g] = "up" => hosts'[g] = hosts[g]
  BY DEF SystemTypeOK, HostTypeOK
<1>2. QueuesKept
  BY SameQueues
<1> QED BY <1>1, <1>2, SameAsks DEF SystemTypeOK, HostPart, ThreadsKept


\* Tasks that leave the gateways alone.
LEMMA TaskKind ==
    ASSUME HostPart, RowsKept, WritesKept, UNCHANGED gateVars, UNCHANGED asker
    PROVE  StepKind
  BY SameGates DEF StepKind, Plain, RowPart

LEMMA CreationKind == ASSUME SystemTypeOK, AsksSane, Creation PROVE StepKind
<1>0. OrchTypeOK
  BY DEF SystemTypeOK
<1>1. WritesKept /\ UNCHANGED gateVars /\ UNCHANGED asker
  BY SameWrites DEF Creation, BeginCreate, ThreadStarted, TurnBound, StartupFails
<1>2. ASSUME NEW s \in Sessions \ Interactive, ThreadStarted(s) PROVE HostPart /\ RowsKept
  <2>1. s \in Threads
    BY ThreadsAssumption
  <2>2. HostPart
    <3>1. s \in FirstThreads(s) /\ turns[s].thread \in {NoValue, s}
      BY DEF FirstThreads, AsksSane
    <3> QED BY <1>2, <2>1, <3>1, ThreadHost DEF ThreadStarted
  <2> QED BY <1>0, <1>2, <2>2, RowsFail, RowsIdle
          DEF ThreadStarted, BindThread, UpdateSessionIfStatus
<1>3. ASSUME NEW s \in Sessions, BeginCreate(s) \/ TurnBound(s) \/ StartupFails(s)
      PROVE  HostPart /\ RowsKept
  <2>1. UNCHANGED <<hosts, turns, asks, inbox>>
    BY <1>3 DEF BeginCreate, TurnBound, StartupFails, hostVars
  <2> QED BY <1>0, <1>3, <2>1, SameHosts, RowsFail, RowsIdle
          DEF BeginCreate, TurnBound, StartupFails, CreateSession, BindTurn,
              UpdateSessionIfStatus
<1> QED BY <1>1, <1>2, <1>3, TaskKind DEF Creation

LEMMA ConsumeNotificationKind ==
    ASSUME SystemTypeOK, AsksSane, ConsumeNotification PROVE StepKind
<1>0. /\ OrchTypeOK /\ InboxTypeOK /\ AskTypeOK /\ Managed \in Hosts
      /\ AskTypeOK' /\ AsksGrow
  BY HostFacts, KeptAsks DEF SystemTypeOK, ConsumeNotification
<1>1. PICK k \in 1 .. Len(inbox[Managed]) :
          /\ ~ IsRequest(inbox[Managed][k])
          /\ HandleNotification(inbox[Managed][k])
          /\ inbox' = [inbox EXCEPT ![Managed] = Without(inbox[Managed], k)]
          /\ UNCHANGED <<hosts, turns, asks, gateVars, taskVars, asker, restarts>>
  BY DEF ConsumeNotification
<1>2. QueuesKept
  BY <1>0, <1>1, PickQueue
<1>3. inbox[Managed][k] \in Message(Managed)
  BY <1>0, <1>1, PickType
<1>4. RowsKept
  BY <1>0, <1>1, <1>3, RowsNotification
<1>5. HostPart
  BY <1>0, <1>1, <1>2, SameAsks DEF HostPart, ThreadsKept
<1> QED BY <1>1, <1>4, <1>5, SameWrites, TaskKind DEF taskVars

LEMMA AllEnded ==
    ASSUME OrchTypeOK, InterruptAll, NEW s \in Sessions
    PROVE  sessions'[s].status \notin ActiveStatus
<1> DEFINE S == {q \in Sessions : Active(q)}
<1>1. CASE S = {}
  BY <1>1 DEF InterruptAll, orchVars, Active
<1>2. CASE S # {}
  <2>1. ClaimTerminal(S, "interrupted", "cancelled")
    BY <1>2 DEF InterruptAll, EndSessions
  <2>2. "interrupted" \in TerminalStatus /\ S \in SUBSET Sessions
    BY DEF TerminalStatus
  <2>3. Moved(S, "interrupted")
    BY <2>1, <2>2, ClaimFacts DEF OrchTypeOK
  <2> QED BY <2>3 DEF Moved, Active, ActiveStatus
<1> QED BY <1>1, <1>2

LEMMA ConsumerFailedKind == ASSUME SystemTypeOK, AsksSane, ConsumerFailed PROVE StepKind
<1>1. HostPart /\ RowsKept
  BY SameHosts, RowsInterruptAll DEF ConsumerFailed, hostVars, SystemTypeOK
<1>2. WritesKept
  <2>1. writing[Consumer].session \in Sessions /\ OrchTypeOK
    BY WriteFacts, WorkerFacts DEF ConsumerFailed, SystemTypeOK
  <2>2. sessions'[writing[Consumer].session].status \notin ActiveStatus
    BY <2>1, AllEnded DEF ConsumerFailed
  <2> QED BY <2>2 DEF ConsumerFailed, WritesKept, Lost, SystemTypeOK, TaskTypeOK
<1> QED BY <1>1, <1>2, TaskKind DEF ConsumerFailed

LEMMA MonitorKind == ASSUME SystemTypeOK, AsksSane, MonitorClosed PROVE StepKind
<1>1. HostPart
  BY DownHost, HostFacts DEF MonitorClosed
<1>2. RowsKept
  BY RowsInterruptAll DEF MonitorClosed, SystemTypeOK
<1> QED BY <1>1, <1>2, SameWrites, TaskKind DEF MonitorClosed, taskVars

\* A request that the consumer takes is made live, or turned down.
LEMMA ConsumeRequestKind == ASSUME SystemTypeOK, AsksSane, ConsumeRequest PROVE StepKind
<1>0. /\ OrchTypeOK /\ InboxTypeOK /\ AskTypeOK /\ Managed \in Hosts /\ Managed \notin Interactive
      /\ AskTypeOK' /\ AsksGrow
  BY HostFacts, KeptAsks DEF SystemTypeOK, ConsumeRequest
<1>1. PICK k \in 1 .. Len(inbox[Managed]) :
          /\ inbox[Managed][k] \in Message(Managed) /\ IsRequest(inbox[Managed][k])
          /\ TakeRequest(inbox[Managed][k][2])
          /\ inbox' = [inbox EXCEPT ![Managed] = Without(inbox[Managed], k)]
          /\ IsIdle(Consumer)
          /\ UNCHANGED <<hosts, turns, asks, gateVars>>
  BY <1>0, ConsumedFacts
<1>2. PICK r \in Asked(Managed) : inbox[Managed][k] = RequestMsg(r)
  BY <1>1 DEF IsRequest, RequestMsg, Message
<1> DEFINE ask == asks[Managed][r]
           found == SessionOfThread(ask.thread)
<1>3. r \in Requests /\ ask \in AskRecord /\ inbox[Managed][k][2] = r
  BY <1>0, <1>2, AskedFacts DEF Asked, RequestMsg
<1>4. \/ /\ \E i \in Interactions, s \in found :
                OpenLive(i, s, r, ask.kind) /\ asker' = [asker EXCEPT ![i] = Managed]
         /\ UNCHANGED writing
      \/ /\ writing' = [writing EXCEPT ![Consumer] =
                           Awaiting(ask.session, Managed, r, "refused")]
         /\ UNCHANGED <<orchVars, asker>>
         /\ \A s \in found : ~ Accepts(s, ask.turn, r)
  BY <1>1, <1>3 DEF TakeRequest
<1>5. ask.kind \in Kinds /\ found \subseteq Sessions
  BY <1>3 DEF AskRecord, SessionOfThread
<1> HIDE DEF found
<1>6. QueuesKept /\ Unqueued(Managed, r)
  <2>1. /\ QueuesKept /\ inbox[Managed][k] \in In(inbox[Managed])
        /\ Once(inbox[Managed], inbox[Managed][k]) => inbox[Managed][k] \notin In(inbox'[Managed])
    BY <1>0, <1>1, PickQueue
  <2> QED BY <1>2, <2>1 DEF Unqueued, Queued
<1>7. HostPart /\ GatePart /\ Taken(Managed, r)
  BY <1>0, <1>1, <1>6, SameAsks, SameGates DEF HostPart, ThreadsKept, Taken
<1>8. CASE \E i \in Interactions, s \in found :
                OpenLive(i, s, r, ask.kind) /\ asker' = [asker EXCEPT ![i] = Managed]
           /\ UNCHANGED writing
  <2>1. PICK i \in Interactions, s \in Sessions, x \in Kinds :
                OpenLive(i, s, r, x) /\ asker' = [asker EXCEPT ![i] = Managed]
                /\ UNCHANGED writing
    BY <1>5, <1>8
  <2>2. Opens(Managed, r, i, s, x)
    BY <1>0, <1>2, <1>7, <2>1 DEF Opens
  <2> QED BY <1>0, <1>3, <2>2 DEF StepKind
<1>9. CASE /\ writing' = [writing EXCEPT ![Consumer] =
                           Awaiting(ask.session, Managed, r, "refused")]
           /\ UNCHANGED <<orchVars, asker>>
           /\ \A s \in found : ~ Accepts(s, ask.turn, r)
  <2>1. RowPart
    BY <1>9, RowsIdle DEF RowPart, orchVars
  <2>2. Refuses(r)
    BY <1>1, <1>2, <1>7, <1>9, <2>1 DEF Refuses, found
  <2> QED BY <1>3, <2>2 DEF StepKind
<1> QED BY <1>4, <1>8, <1>9

LEMMA OrchestratorKind == ASSUME SystemTypeOK, AsksSane, Orchestrator PROVE StepKind
  BY ConsumeRequestKind, ConsumeNotificationKind, MonitorKind, ConsumerFailedKind
  DEF Orchestrator

-----------------------------------------------------------------------------
(* Answers. *)

LEMMA ReceiveFacts ==
    ASSUME SystemTypeOK, NEW h \in Hosts, NEW r \in Asked(h), NEW v \in Replies,
           Receive(h, r, v)
    PROVE  Received(h, r, v) /\ QueuesKept
<1> DEFINE x == asks[h][r]
           y == [x EXCEPT !.replies = Append(x.replies, v),
                          !.state = IF x.state = "open" THEN "answered" ELSE x.state]
<1>0. AskTypeOK /\ InboxTypeOK /\ r \in Requests /\ x \in AskRecord
  BY AskedFacts DEF SystemTypeOK, Asked
<1>1. asks' = [asks EXCEPT ![h][r] = y]
  BY DEF Receive
<1>2. y.replies = Append(x.replies, v)
  BY <1>0 DEF AskRecord
<1>3. Append(x.replies, v) # <<>>
  <2>1. x.replies \in Seq(Replies)
    BY <1>0 DEF AskRecord
  <2> QED BY <2>1, AppendProperties
<1>4. x.state = "open" => Post(h, ResolvedMsg(r))
  BY DEF Receive, ResolvedMsg
<1>5. ~ (x.state = "open") => UNCHANGED inbox
  BY DEF Receive
<1>6. Received(h, r, v) <=> /\ asks'[h][r] = y
                            /\ \A g \in Hosts : \A q \in Requests : g # h \/ q # r =>
                                   asks'[g][q] = asks[g][q]
  BY DEF Received
<1> HIDE DEF x, y
<1>7. /\ asks'[h][r] = y
      /\ \A g \in Hosts : \A q \in Requests : g # h \/ q # r => asks'[g][q] = asks[g][q]
  BY <1>0, <1>1 DEF AskTypeOK
<1>8. ResolvedMsg(r)[1] # "request" /\ \A q \in Requests : ResolvedMsg(r) = ResolvedMsg(q) => q = r
  BY DEF ResolvedMsg
<1>9. QueuesKept
  BY <1>0, <1>2, <1>3, <1>4, <1>5, <1>7, <1>8, PostQueue, SameQueues DEF Settled
<1> QED BY <1>6, <1>7, <1>9

\* A gateway sends nothing for a request it counts as responded.
LEMMA SendFacts ==
    ASSUME SystemTypeOK, NEW h \in Hosts, NEW r \in Asked(h), NEW v \in Replies,
           Send(h, r, v), UNCHANGED <<orchVars, hosts, turns>>, UNCHANGED asker, CallsKept
    PROVE  \/ Answers(h, r, v)
           \/ h \in Interactive /\ r \in responded[h] /\ UNCHANGED <<asks, inbox, responded>>
<1>1. RowPart
  BY RowsIdle DEF RowPart, orchVars
<1>2. CASE h = Managed \/ r \notin responded[h]
  <2>1. Receive(h, r, v)
    BY <1>2 DEF Send
  <2>2. Received(h, r, v) /\ QueuesKept
    BY <2>1, ReceiveFacts
  <2> QED BY <1>1, <1>2, <2>2 DEF Answers, Send
<1>3. CASE h # Managed /\ r \in responded[h]
  BY <1>3 DEF Send, Hosts
<1> QED BY <1>2, <1>3

\* The end of a session is the end of what it waits for.
LEMMA EndedFacts ==
    ASSUME OrchTypeOK, NEW s \in Sessions, EndIfActive(s, "interrupted")
    PROVE  sessions'[s].status \notin ActiveStatus
<1>1. CASE Active(s)
  <2>1. ClaimTerminal({s}, "interrupted", "cancelled")
    BY <1>1 DEF EndIfActive, EndSessions
  <2>2. "interrupted" \in TerminalStatus /\ {s} \in SUBSET Sessions
    BY DEF TerminalStatus
  <2>3. Moved({s}, "interrupted")
    BY <2>1, <2>2, ClaimFacts DEF OrchTypeOK
  <2> QED BY <2>3 DEF Moved, Active, ActiveStatus
<1>2. CASE ~ Active(s)
  BY <1>2 DEF EndIfActive, orchVars, Active
<1> QED BY <1>1, <1>2

LEMMA FinishInterruptKind == ASSUME SystemTypeOK, AsksSane, FinishInterrupt PROVE StepKind
<1>1. HostPart /\ RowsKept
  BY SameHosts, RowsEndIfActive DEF FinishInterrupt, hostVars, SystemTypeOK
<1>2. WritesKept
  <2>1. Timeout \in Workers /\ OrchTypeOK
    BY DEF Workers, SystemTypeOK
  <2>2. writing[Timeout].session \in Sessions
    BY <2>1, WriteFacts DEF FinishInterrupt, SystemTypeOK
  <2>3. sessions'[writing[Timeout].session].status \notin ActiveStatus
    BY <2>1, <2>2, EndedFacts DEF FinishInterrupt
  <2> QED BY <2>3 DEF FinishInterrupt, WritesKept, Lost, SystemTypeOK, TaskTypeOK
<1> QED BY <1>1, <1>2, TaskKind DEF FinishInterrupt

LEMMA FailWriteKind ==
    ASSUME SystemTypeOK, AsksSane, NEW w \in Workers, FailWrite(w) PROVE StepKind
<1>1. HostPart /\ RowsKept
  BY SameHosts, RowsEndIfActive DEF FailWrite, hostVars, SystemTypeOK
<1>2. sessions'[writing[w].session].status \notin ActiveStatus
  <2>1. writing[w].session \in Sessions /\ OrchTypeOK
    BY WriteFacts DEF FailWrite, SystemTypeOK
  <2>2. EndIfActive(writing[w].session, "interrupted")
    BY DEF FailWrite
  <2> QED BY <2>1, <2>2, EndedFacts
<1>3. writing' = [writing EXCEPT ![w] = Idle] /\ DOMAIN writing = Workers
  BY DEF FailWrite, SystemTypeOK, TaskTypeOK
<1>4. WritesKept
  BY <1>2, <1>3 DEF WritesKept, Lost
<1> QED BY <1>1, <1>4, TaskKind DEF FailWrite


LEMMA FinishWriteKind ==
    ASSUME SystemTypeOK, AsksSane, NEW w \in Workers, FinishWrite(w) PROVE StepKind
<1> DEFINE h == writing[w].host
           r == writing[w].request
           v == writing[w].reply
<1>0. DOMAIN writing = Workers /\ TaskTypeOK
  BY DEF SystemTypeOK, TaskTypeOK
<1>1. h \in Hosts /\ r \in Asked(h) /\ v \in Replies
  BY <1>0, WriteFacts DEF FinishWrite
<1>2. /\ IF hosts[h] = "up" THEN Send(h, r, v) ELSE UNCHANGED <<asks, inbox, responded>>
      /\ writing' = [writing EXCEPT ![w] = Idle]
      /\ UNCHANGED <<orchVars, hosts, turns, callbacks, shown, asker>>
  BY DEF FinishWrite
<1>3. CallsKept
  BY <1>2 DEF CallsKept
<1>4. CASE Answers(h, r, v)
  BY <1>1, <1>2, <1>4 DEF Forwards, StepKind
<1>5. ASSUME hosts[h] # "up" \/ (h \in Interactive /\ r \in responded[h]),
             UNCHANGED <<asks, inbox, responded>>
      PROVE  StepKind
  <2>1. HostPart
    BY <1>2, <1>5, SameHosts
  <2>2. WritesKept
    BY <1>0, <1>2, <1>5 DEF WritesKept, Lost
  <2>3. RowsKept /\ UNCHANGED gateVars
    BY <1>2, <1>5, RowsIdle DEF orchVars, gateVars
  <2> QED BY <1>2, <2>1, <2>2, <2>3, TaskKind
<1>6. CASE hosts[h] = "up"
  BY <1>1, <1>2, <1>3, <1>4, <1>5, <1>6, SendFacts
<1> QED BY <1>2, <1>5, <1>6

\* A claim that is won, and the worker that is to forward the decision.
LEMMA DecidesKind ==
    ASSUME SystemTypeOK, AsksSane, HostPart, NEW i \in Interactions, NEW d, NEW a \in Actors,
           NEW st \in {"resolved", "expired"}, Decide(i, d, a, st),
           NEW w \in Workers \ {Consumer}, IsIdle(w), NEW v,
           v = d \/ (v = "interrupt" /\ st = "expired"),
           writing' = [writing EXCEPT ![w] = AwaitingFor(i, v)], GatePart,
           UNCHANGED <<asker, asks, inbox>>
    PROVE  StepKind
<1>1. i \in live /\ d \in Decisions
  BY DecideFacts
<1>2. RowDecided(i, d, st)
  BY RowDecide DEF SystemTypeOK
<1>3. Decides(i, d, st, w, v)
  BY <1>1, <1>2 DEF Decides
<1>4. v \in Replies \cup {"interrupt"}
  BY <1>1 DEF Replies
<1> QED BY <1>1, <1>3, <1>4 DEF StepKind

LEMMA WorkersDiffer ==
    /\ Lark \in Workers \ {Consumer} /\ Timeout \in Workers \ {Consumer}
    /\ \A s \in Interactive : Terminal(s) \in Workers \ {Consumer}
  BY WorkerFacts DEF Lark, Timeout, Consumer, Terminal

LEMMA LarkKind ==
    ASSUME SystemTypeOK, AsksSane, NEW i \in Interactions, NEW d, LarkAnswers(i, d)
    PROVE  StepKind
<1>1. /\ Decide(i, d, "lark", "resolved") /\ IsIdle(Lark)
      /\ writing' = [writing EXCEPT ![Lark] = AwaitingFor(i, d)]
      /\ UNCHANGED <<hosts, turns, asks, inbox>> /\ UNCHANGED <<asker, asks, inbox>>
      /\ UNCHANGED gateVars
  BY DEF LarkAnswers, hostVars
<1>2. HostPart /\ GatePart /\ "lark" \in Actors
  BY <1>1, SameHosts, SameGates, ActorsAssumption
<1> QED BY <1>1, <1>2, WorkersDiffer, DecidesKind

LEMMA ExpireKind ==
    ASSUME SystemTypeOK, AsksSane, NEW i \in Interactions, Expire(i) PROVE StepKind
<1> DEFINE k == interactions[i].kind
           d == DenialDecision(k)
           v == IF k = "user_input" THEN "interrupt" ELSE d
<1>1. /\ Decide(i, d, "timeout", "expired") /\ IsIdle(Timeout)
      /\ writing' = [writing EXCEPT ![Timeout] = AwaitingFor(i, v)]
      /\ UNCHANGED <<hosts, asks, inbox>> /\ UNCHANGED <<asker, asks, inbox>>
      /\ UNCHANGED gateVars
      /\ Interrupt(interactions[i].session) \/ UNCHANGED turns
  BY DEF Expire
<1>2. v = d \/ (v = "interrupt" /\ "expired" = "expired")
  OBVIOUS
<1> HIDE DEF d, v
<1>3. GatePart /\ "timeout" \in Actors
  BY <1>1, SameGates, ActorsAssumption
<1>4. HostPart
  <2>1. interactions[i].session \in Sessions
    BY <1>1, <1>3, DecideFacts
  <2> QED BY <1>1, <2>1, SameHosts, InterruptHost
<1> QED BY <1>1, <1>2, <1>3, <1>4, WorkersDiffer, DecidesKind

LEMMA ResponsesKind == ASSUME SystemTypeOK, AsksSane, Responses PROVE StepKind
  BY LarkKind, ExpireKind, FinishInterruptKind, FinishWriteKind, FailWriteKind DEF Responses

LEMMA CancelKind ==
    ASSUME SystemTypeOK, AsksSane, NEW s \in Sessions, CancelSession(s) PROVE StepKind
<1>1. HostPart
  BY InterruptHost DEF CancelSession
<1>2. RowsKept
  BY RowsEnd DEF CancelSession, SystemTypeOK
<1> QED BY <1>1, <1>2, SameWrites, TaskKind DEF CancelSession, taskVars

-----------------------------------------------------------------------------
(* Native TUIs and their gateways. *)

LEMMA OpenTuiKind ==
    ASSUME SystemTypeOK, AsksSane, NEW s \in Interactive, OpenTui(s) PROVE StepKind
<1>1. HostPart
  BY DownHost, HostFacts DEF OpenTui
<1>2. RowsKept
  BY RowsIdle DEF OpenTui, CreateSession
<1> QED BY <1>1, <1>2, SameWrites, TaskKind DEF OpenTui, taskVars

LEMMA TuiThreadKind ==
    ASSUME SystemTypeOK, AsksSane, NEW s \in Interactive, NEW t \in {s} \cup Resumable,
           TuiThread(s, t)
    PROVE  StepKind
<1>1. s \in Sessions /\ t \in Threads
  BY HostFacts, ThreadsAssumption, BoundsAssumption
<1>2. HostPart
  <2>1. t \in FirstThreads(s)
    BY DEF FirstThreads
  <2> QED BY <1>1, <2>1, ThreadHost DEF TuiThread
<1>3. RowsKept
  BY RowsIdle DEF TuiThread, BindThread, UpdateSessionIfStatus, storeVars
<1> QED BY <1>2, <1>3, SameWrites, TaskKind DEF TuiThread, taskVars

LEMMA HandleUpstreamKind ==
    ASSUME SystemTypeOK, AsksSane, NEW s \in Interactive, HandleUpstream(s) PROVE StepKind
<1> DEFINE msg == Head(inbox[s])
<1>0. /\ OrchTypeOK /\ InboxTypeOK /\ AskTypeOK /\ s \in Hosts
      /\ AskTypeOK' /\ AsksGrow
  BY HostFacts, KeptAsks DEF SystemTypeOK, HandleUpstream
<1>1. /\ \/ msg[1] = "request" /\ GatewayRequest(s, msg[2])
         \/ msg[1] = "resolved" /\ GatewayResolved(s, msg[2])
         \/ /\ msg[1] \notin {"request", "resolved"}
            /\ HandleNotification(msg) /\ UNCHANGED gateVars
      /\ UNCHANGED <<hosts, turns, asks, taskVars, asker, restarts>>
      /\ inbox[s] # <<>> /\ inbox' = [inbox EXCEPT ![s] = Tail(@)]
  BY DEF HandleUpstream
<1>2. msg \in Message(s)
  BY <1>0, <1>1, TakeType
<1>3. HostPart /\ WritesKept
  <2>1. QueuesKept
    BY <1>0, <1>1, TakeQueue
  <2> QED BY <1>0, <1>1, <2>1, SameAsks, SameWrites DEF HostPart, ThreadsKept, taskVars
<1>4. msg \in In(inbox[s]) /\ \A m : Once(inbox[s], m) /\ m = msg => m \notin In(inbox'[s])
  BY <1>0, <1>1, TakeFacts
<1> HIDE DEF msg
<1>5. CASE msg[1] = "request" /\ GatewayRequest(s, msg[2])
  <2>1. PICK r \in Asked(s) : msg = RequestMsg(r)
    BY <1>2, <1>5 DEF RequestMsg, Message
  <2>2. r \in Requests /\ msg[2] = r
    BY <2>1 DEF Asked, RequestMsg
  <2>3. Unqueued(s, r)
    BY <1>4, <2>1 DEF Unqueued, Queued
  <2>4. /\ RowPart /\ RespondedKept
        /\ \A q \in Interactive : \A p \in callbacks'[q] : p \in callbacks[q] \/ (q = s /\ p = r)
    <3>1. /\ callbacks' = [callbacks EXCEPT ![s] = @ \cup {r}]
          /\ UNCHANGED <<orchVars, responded>>
      BY <1>5, <2>2 DEF GatewayRequest
    <3>2. callbacks \in [Interactive -> SUBSET Requests]
      BY GateFacts
    <3> QED BY <1>1, <3>1, <3>2, RowsIdle DEF RowPart, RespondedKept, orchVars
  <2>5. Calls(s, r)
    BY <1>1, <1>3, <2>1, <2>3, <2>4 DEF Calls, msg
  <2> QED BY <1>0, <2>2, <2>5 DEF StepKind
<1>6. CASE msg[1] = "resolved" /\ GatewayResolved(s, msg[2])
  <2>1. PICK r \in Asked(s) : msg = ResolvedMsg(r)
    BY <1>2, <1>6 DEF ResolvedMsg, Message
  <2>2. r \in Requests /\ msg[2] = r
    BY <2>1 DEF Asked, ResolvedMsg
  <2>3. /\ responded' = [responded EXCEPT ![s] = @ \cup {r}]
        /\ callbacks' = [callbacks EXCEPT ![s] = @ \ {r}]
        /\ RequestResolved(r)
    BY <1>6, <2>2 DEF GatewayResolved
  <2>4. RowsKept
    BY <1>0, <2>2, <2>3, RowsResolved
  <2>5. CallsKept /\ RespondedKept
    BY <1>4, <2>1, <2>3, GateFacts DEF CallsKept, RespondedKept
  <2> QED BY <1>1, <1>3, <2>4, <2>5 DEF StepKind, Plain, GatePart, RowPart
<1>7. CASE msg[1] # "request" /\ HandleNotification(msg) /\ UNCHANGED gateVars
  <2>1. RowsKept
    BY <1>0, <1>2, <1>7, RowsNotification DEF IsRequest
  <2> QED BY <1>1, <1>3, <1>7, <2>1, TaskKind
<1> QED BY <1>1, <1>5, <1>6, <1>7

LEMMA RunCallbackKind ==
    ASSUME SystemTypeOK, AsksSane, NEW s \in Interactive, NEW r \in Requests, RunCallback(s, r)
    PROVE  StepKind
<1> DEFINE k == asks[s][r].kind
<1>0. AskTypeOK /\ s \in Hosts /\ s \in Sessions /\ s # Managed
  BY HostFacts DEF SystemTypeOK
<1>1. r \in Asked(s) /\ k \in Kinds /\ r \in callbacks[s]
  <2>1. r \in Asked(s) /\ r \in callbacks[s]
    BY GateFacts DEF RunCallback
  <2>2. asks[s][r] \in AskRecord
    BY <1>0, <2>1, AskedFacts
  <2> QED BY <2>1, <2>2 DEF AskRecord
<1>2. /\ callbacks' = [callbacks EXCEPT ![s] = @ \ {r}]
      /\ UNCHANGED <<hosts, turns>> /\ UNCHANGED writing
  BY DEF RunCallback, taskVars
<1>3. Uncalled(s, r) /\ CallsKept
  BY <1>1, <1>2, GateFacts DEF Uncalled, CallsKept
<1>4. \/ UNCHANGED <<orchVars, asks, asker, inbox, responded>>
      \/ /\ r \notin responded[s]
         /\ \E i \in Interactions : OpenLive(i, s, r, k) /\ asker' = [asker EXCEPT ![i] = s]
         /\ UNCHANGED <<asks, inbox, responded>>
      \/ /\ r \notin responded[s] /\ Send(s, r, "refused") /\ UNCHANGED <<orchVars, asker>>
         /\ ~ (sessions[s].thread = asks[s][r].thread /\ Accepts(s, asks[s][r].turn, r))
  BY DEF RunCallback
<1>5. WritesKept
  BY <1>2, SameWrites
<1> HIDE DEF k
<1>6. UNCHANGED responded => RespondedKept
  BY DEF RespondedKept
<1>7. CASE UNCHANGED <<orchVars, asks, asker, inbox, responded>>
  <2>1. HostPart
    BY <1>2, <1>7, SameHosts
  <2> QED BY <1>3, <1>5, <1>6, <1>7, <2>1, RowsIdle
          DEF StepKind, Plain, GatePart, RowPart, orchVars
<1>8. CASE /\ r \notin responded[s]
           /\ \E i \in Interactions : OpenLive(i, s, r, k) /\ asker' = [asker EXCEPT ![i] = s]
           /\ UNCHANGED <<asks, inbox, responded>>
  <2>1. PICK i \in Interactions : OpenLive(i, s, r, k) /\ asker' = [asker EXCEPT ![i] = s]
    BY <1>8
  <2>2. HostPart
    BY <1>2, <1>8, SameHosts
  <2>3. Opens(s, r, i, s, k)
    BY <1>1, <1>2, <1>3, <1>6, <1>8, <2>1, <2>2 DEF Opens, Taken, GatePart
  <2> QED BY <1>0, <1>1, <2>3 DEF StepKind
<1>9. CASE /\ r \notin responded[s] /\ Send(s, r, "refused") /\ UNCHANGED <<orchVars, asker>>
           /\ ~ (sessions[s].thread = asks[s][r].thread /\ Accepts(s, asks[s][r].turn, r))
  <2>1. Answers(s, r, "refused")
    BY <1>0, <1>1, <1>2, <1>3, <1>9, SendFacts DEF Replies
  <2>2. TurnsAway(s, r)
    BY <1>0, <1>2, <1>3, <1>9, <2>1 DEF TurnsAway
  <2> QED BY <1>0, <2>2 DEF StepKind
<1> QED BY <1>4, <1>7, <1>8, <1>9

LEMMA TerminalKind ==
    ASSUME SystemTypeOK, AsksSane, NEW s \in Interactive, NEW r \in Requests
    PROVE  /\ \A d \in Decisions : TerminalAnswers(s, r, d) => StepKind
           /\ TerminalErrs(s, r) => StepKind
<1>1. ASSUME NEW d \in Decisions, TerminalAnswers(s, r, d) PROVE StepKind
  <2>0. LiveByRequest(r) \subseteq Interactions /\ "terminal" \in Actors
    BY ActorsAssumption DEF LiveByRequest, SystemTypeOK, OrchTypeOK
  <2>1. /\ UNCHANGED <<hosts, turns, asks, inbox>> /\ UNCHANGED <<asker, asks, inbox>>
        /\ UNCHANGED <<callbacks, responded>> /\ IsIdle(Terminal(s))
        /\ \/ \E i \in LiveByRequest(r) :
                /\ Decide(i, d, "terminal", "resolved")
                /\ writing' = [writing EXCEPT ![Terminal(s)] = AwaitingFor(i, d)]
           \/ UNCHANGED <<orchVars, writing>>
    BY <1>1 DEF TerminalAnswers, hostVars
  <2>2. HostPart /\ GatePart
    BY <2>1, SameHosts DEF GatePart, CallsKept, RespondedKept
  <2>3. CASE UNCHANGED <<orchVars, writing>>
    BY <2>1, <2>2, <2>3, RowsIdle, SameWrites DEF StepKind, Plain, RowPart, orchVars
  <2>4. CASE \E i \in LiveByRequest(r) :
                /\ Decide(i, d, "terminal", "resolved")
                /\ writing' = [writing EXCEPT ![Terminal(s)] = AwaitingFor(i, d)]
    BY <2>0, <2>1, <2>2, <2>4, WorkersDiffer, DecidesKind
  <2> QED BY <2>1, <2>3, <2>4
<1>2. ASSUME TerminalErrs(s, r) PROVE StepKind
  <2>0. s \in Hosts /\ s # Managed /\ r \in Asked(s)
    BY <1>2, HostFacts, GateFacts DEF TerminalErrs
  <2>1. /\ Send(s, r, "error") /\ "terminal_error" \in Faults
        /\ UNCHANGED <<orchVars, hosts, turns>> /\ UNCHANGED asker
        /\ UNCHANGED callbacks /\ UNCHANGED writing
    BY <1>2 DEF TerminalErrs, taskVars
  <2>2. CallsKept
    BY <2>1 DEF CallsKept
  <2>3. CASE Answers(s, r, "error")
    BY <2>0, <2>1, <2>3 DEF Errs, StepKind
  <2>4. CASE UNCHANGED <<asks, inbox, responded>>
    <3>1. HostPart /\ GatePart
      BY <2>1, <2>4, SameHosts DEF GatePart, CallsKept, RespondedKept
    <3> QED BY <2>1, <3>1, RowsIdle, SameWrites DEF StepKind, Plain, RowPart, orchVars
  <2> QED BY <2>0, <2>1, <2>2, <2>3, <2>4, SendFacts DEF Replies
<1> QED BY <1>1, <1>2

LEMMA CloseKind ==
    ASSUME SystemTypeOK, AsksSane, NEW s \in Interactive
    PROVE  (BeginClose(s) => StepKind) /\ (EndClose(s) => StepKind)
<1>1. ASSUME BeginClose(s) PROVE StepKind
  <2>1. HostPart
    BY <1>1, BeginCloseHost
  <2>2. GatePart
    <3>1. callbacks' = [callbacks EXCEPT ![s] = {}] /\ UNCHANGED responded
      BY <1>1 DEF BeginClose
    <3> QED BY <3>1, GateFacts DEF GatePart, CallsKept, RespondedKept
  <2>3. UNCHANGED <<orchVars, writing, asker>>
    BY <1>1 DEF BeginClose, taskVars
  <2> QED BY <2>1, <2>2, <2>3, RowsIdle, SameWrites DEF StepKind, Plain, RowPart, orchVars
<1>2. ASSUME EndClose(s) PROVE StepKind
  <2>1. HostPart
    BY <1>2, DownHost, HostFacts DEF EndClose
  <2>2. RowsKept
    BY <1>2, RowsEndIfActive DEF EndClose, SystemTypeOK
  <2> QED BY <1>2, <2>1, <2>2, SameWrites, TaskKind DEF EndClose, taskVars
<1> QED BY <1>1, <1>2

LEMMA TuiKind == ASSUME SystemTypeOK, AsksSane, Tui PROVE StepKind
  BY OpenTuiKind, TuiThreadKind, HandleUpstreamKind, RunCallbackKind, TerminalKind, CloseKind
  DEF Tui

\* Every step is of one of the kinds.
LEMMA StepKinds == SystemTypeOK /\ AsksSane /\ [SystemNext]_vars => StepKind
<1>1. ASSUME SystemTypeOK, AsksSane, UNCHANGED vars PROVE StepKind
  <2>1. HostPart
    BY <1>1, SameHosts DEF vars, hostVars
  <2> QED BY <1>1, <2>1, RowsIdle, SameWrites, TaskKind DEF vars, orchVars, taskVars
<1>2. ASSUME SystemTypeOK, AsksSane, SystemNext PROVE StepKind
  <2>1. Restart => StepKind
    BY DEF StepKind
  <2> QED BY <1>2, <2>1, AppServerKind, CreationKind, OrchestratorKind, TuiKind, ResponsesKind,
             CancelKind DEF SystemNext
<1> QED BY <1>1, <1>2


-----------------------------------------------------------------------------
(* Requests and their records. *)

\* What is recorded of a request stays, until the daemon restarts.
AskStays(h, r) ==
    /\ asks[h][r].state # "none" =>
         /\ asks'[h][r].state # "none"
         /\ asks'[h][r].session = asks[h][r].session
         /\ asks'[h][r].thread = asks[h][r].thread /\ asks'[h][r].turn = asks[h][r].turn
         /\ asks[h][r].state # "open" => asks'[h][r].state = asks[h][r].state
    /\ asks'[h][r].state = "open" =>
         asks'[h][r].replies = asks[h][r].replies \/ asks'[h][r].replies = <<>>

LEMMA KeptStays ==
    ASSUME AskTypeOK, NEW h \in Hosts, NEW r \in Requests, AskKept(h, r)
    PROVE  AskStays(h, r) /\ asks'[h][r].replies = asks[h][r].replies
           /\ (asks[h][r].state = "none" => asks'[h][r] = asks[h][r])
<1>1. CASE asks'[h][r] = asks[h][r]
  BY <1>1 DEF AskStays
<1>2. CASE /\ asks[h][r].state = "open"
           /\ asks'[h][r] = [asks[h][r] EXCEPT !.state = "withdrawn"]
  <2>1. asks[h][r] \in AskRecord
    BY <1>2, AskedFacts
  <2> QED BY <1>2, <2>1 DEF AskRecord, AskStays
<1> QED BY <1>1, <1>2 DEF AskKept

LEMMA ReceivedStays ==
    ASSUME AskTypeOK, NEW h \in Hosts, NEW r \in Asked(h), NEW v, Received(h, r, v)
    PROVE  /\ AskStays(h, r)
           /\ asks'[h][r].replies = Append(asks[h][r].replies, v)
           /\ asks'[h][r].state \in {"answered", "withdrawn"}
           /\ asks'[h][r].state = IF asks[h][r].state = "open" THEN "answered"
                                                              ELSE asks[h][r].state
           /\ Len(asks'[h][r].replies) = Len(asks[h][r].replies) + 1
           /\ Len(asks[h][r].replies) \in Nat
           /\ \A k \in 1 .. Len(asks[h][r].replies) :
                  asks'[h][r].replies[k] = asks[h][r].replies[k]
           /\ asks'[h][r].replies[Len(asks[h][r].replies) + 1] = v
           /\ asks'[h][r].replies # <<>>
<1> DEFINE x == asks[h][r]
           st == IF x.state = "open" THEN "answered" ELSE x.state
<1>1. x \in AskRecord /\ r \in Requests
  BY AskedFacts DEF Asked
<1>2. asks'[h][r] = [x EXCEPT !.replies = Append(x.replies, v), !.state = st]
  BY DEF Received
<1>3. /\ asks'[h][r].state = st /\ asks'[h][r].session = x.session
      /\ asks'[h][r].thread = x.thread /\ asks'[h][r].turn = x.turn
      /\ asks'[h][r].replies = Append(x.replies, v)
  BY <1>1, <1>2 DEF AskRecord
<1>4. x.replies \in Seq(Replies \cup {v}) /\ v \in Replies \cup {v}
  <2>1. x.replies \in Seq(Replies) /\ Replies \subseteq Replies \cup {v}
    BY <1>1 DEF AskRecord
  <2> QED BY <2>1, SeqMonotonic
<1>5. /\ Len(Append(x.replies, v)) = Len(x.replies) + 1 /\ Len(x.replies) \in Nat
      /\ \A k \in 1 .. Len(x.replies) : Append(x.replies, v)[k] = x.replies[k]
      /\ Append(x.replies, v)[Len(x.replies) + 1] = v
  <2> DEFINE q == x.replies
             S == Replies \cup {v}
  <2>1. q \in Seq(S) /\ v \in S
    BY <1>4
  <2> HIDE DEF q, S
  <2>2. /\ Len(Append(q, v)) = Len(q) + 1 /\ Len(q) \in Nat
        /\ \A k \in 1 .. Len(q) : Append(q, v)[k] = q[k]
        /\ Append(q, v)[Len(q) + 1] = v
    BY <2>1, AppendFacts
  <2> QED BY <2>2 DEF q
<1>a. Append(x.replies, v) # <<>>
  BY <1>4, AppendProperties
<1>6. st \in {"answered", "withdrawn"}
  BY <1>1 DEF AskRecord
<1>7. AskStays(h, r)
  BY <1>3, <1>6 DEF AskStays
<1> QED BY <1>3, <1>5, <1>a, <1>6, <1>7

\* The steps at which a request gets a reply, and those at which it does not.
LEMMA AskSteps ==
    ASSUME SystemTypeOK, StepKind, ~ Restart, NEW h \in Hosts, NEW r \in Requests
    PROVE  \/ AskKept(h, r)
           \/ Asks(h, r)
           \/ \E v \in Replies : Answers(h, r, v)
<1>1. CASE HostPart
  BY <1>1 DEF HostPart, AsksKept
<1>2. ASSUME NEW g \in Hosts, NEW q \in Requests, Asks(g, q) PROVE AskKept(h, r) \/ Asks(h, r)
  BY <1>2 DEF Asks, AskKept
<1>3. ASSUME NEW g, NEW q, NEW v, Answers(g, q, v)
      PROVE  AskKept(h, r) \/ \E x \in Replies : Answers(h, r, x)
  <2>1. v \in Replies
    BY <1>3 DEF Answers
  <2>2. CASE g # h \/ q # r
    BY <1>3, <2>2 DEF Answers, Received, AskKept
  <2> QED BY <1>3, <2>1, <2>2
<1> QED BY <1>1, <1>2, <1>3 DEF StepKind, Plain, Calls, TurnsAway, Errs, Opens, Refuses, Decides,
           Forwards

LEMMA AskStaysStep ==
    ASSUME SystemTypeOK, StepKind, ~ Restart
    PROVE  \A h \in Hosts : \A r \in Requests : AskStays(h, r)
<1> SUFFICES ASSUME NEW h \in Hosts, NEW r \in Requests PROVE AskStays(h, r)
  OBVIOUS
<1>0. AskTypeOK
  BY DEF SystemTypeOK
<1>1. CASE AskKept(h, r)
  BY <1>0, <1>1, KeptStays
<1>2. CASE Asks(h, r)
  BY <1>2 DEF Asks, AskStays
<1>3. ASSUME NEW v, Answers(h, r, v) PROVE AskStays(h, r)
  BY <1>0, <1>3, ReceivedStays DEF Answers
<1> QED BY <1>1, <1>2, <1>3, AskSteps

LEMMA AsksGrowStep == ASSUME SystemTypeOK, StepKind, ~ Restart PROVE AsksGrow
  BY AskStaysStep DEF AsksGrow, Asked, AskStays

\* A request that stays, in a session whose turn goes on, stays sane.
LEMMA KeptSane ==
    ASSUME SystemTypeOK, AsksSane, NEW h \in Hosts, NEW r \in Requests, AskKept(h, r),
           OpenKept(h, r), ThreadsKept
    PROVE  AskSane(h, r)'
<1>0. AskTypeOK /\ AskSane(h, r)
  BY DEF SystemTypeOK, AsksSane
<1>1. CASE asks[h][r].state = "none"
  <2>1. asks'[h][r] = NoAsk
    BY <1>0, <1>1, KeptStays DEF AskSane
  <2>2. NoAsk.state = "none"
    BY DEF NoAsk
  <2> QED BY <2>1, <2>2 DEF AskSane
<1>2. CASE asks[h][r].state # "none"
  <2> DEFINE q == asks[h][r].session
             x == asks'[h][r]
  <2>1. q \in Sessions /\ asks[h][r].state \in {"open", "answered", "withdrawn"}
    BY <1>0, <1>2, AskedFacts DEF AskRecord
  <2>2. /\ x.state # "none" /\ x.session = q
        /\ x.turn = asks[h][r].turn /\ x.thread = asks[h][r].thread
        /\ x.replies = asks[h][r].replies
        /\ asks[h][r].state # "open" => x.state = asks[h][r].state
    BY <1>0, <1>2, KeptStays DEF AskStays
  <2>3. x.state \in {asks[h][r].state, "withdrawn"}
    <3>1. asks[h][r] \in AskRecord
      BY <1>0, <1>2, AskedFacts
    <3> QED BY <3>1 DEF AskKept, AskRecord
  <2>4. /\ HostOf(q) = h
        /\ x.turn = NoValue => q \in Interactive /\ x.thread \in OtherThreads
        /\ x.turn # NoValue =>
              x.turn[1] = q /\ turns'[q].thread # NoValue /\ x.thread = turns'[q].thread
    BY <1>0, <1>2, <2>1, <2>2 DEF AskSane, Elsewhere, ThreadsKept
  <2>5. x.state = "open" =>
          /\ x.replies = <<>> /\ hosts'[h] = "up"
          /\ x.turn # NoValue => turns'[q].on /\ x.turn = <<q, turns'[q].number>>
    BY <1>0, <1>2, <2>2, <2>3 DEF AskSane, OpenKept, Elsewhere, CurrentTurn
  <2>6. x.state = "answered" => x.replies # <<>>
    BY <1>0, <1>2, <2>2, <2>3 DEF AskSane
  <2> HIDE DEF q, x
  <2> QED BY <2>2, <2>4, <2>5, <2>6 DEF AskSane, CurrentTurn, Elsewhere, x
<1> QED BY <1>1, <1>2

LEMMA AsksSaneStep == ASSUME SystemTypeOK, AsksSane, StepKind PROVE AsksSane'
<1>0. AskTypeOK /\ TurnTypeOK
  BY DEF SystemTypeOK
<1>t. ThreadsKept => \A q \in Sessions : turns'[q].thread \in {NoValue} \cup FirstThreads(q)
  BY DEF AsksSane, ThreadsKept
<1>1. CASE HostPart
  BY <1>1, <1>t, KeptSane DEF HostPart, AsksKept, AsksSane
<1>2. ASSUME NEW h \in Hosts, NEW r \in Requests, Asks(h, r) PROVE AsksSane'
  <2>1. PICK s \in Sessions, k \in Kinds : \E t, u :
          /\ h = HostOf(s) /\ MayAsk(s, t, u)
          /\ asks'[h][r] = [state |-> "open", session |-> s, thread |-> t, turn |-> u,
                            kind |-> k, replies |-> <<>>]
    BY <1>2 DEF Asks
  <2>a. PICK t, u :
          /\ h = HostOf(s) /\ MayAsk(s, t, u)
          /\ asks'[h][r] = [state |-> "open", session |-> s, thread |-> t, turn |-> u,
                            kind |-> k, replies |-> <<>>]
    BY <2>1
  <2>2. UNCHANGED <<hosts, turns>> /\ ThreadsKept
    BY <1>2 DEF Asks, ThreadsKept
  <2>3. AskSane(h, r)'
    <3> DEFINE x == asks'[h][r]
    <3>1. /\ x.state = "open" /\ x.session = s /\ x.thread = t /\ x.turn = u
          /\ x.replies = <<>>
      BY <2>a
    <3>2. hosts'[h] = "up"
      BY <2>a, <2>2 DEF MayAsk
    <3>3. CASE turns[s].on /\ t = turns[s].thread /\ u = CurrentTurn(s)
      <4>1. turns'[s].thread # NoValue /\ turns'[s].on /\ t = turns'[s].thread
        BY <1>0, <2>2, <3>3 DEF TurnTypeOK, SaneTurn
      <4>2. u = <<s, turns'[s].number>> /\ u # NoValue
        <5>1. u \in Turns
          BY <1>0, <3>3, TurnFacts DEF TurnTypeOK, SaneTurn
        <5> QED BY <2>2, <3>3, <5>1, NoValueAssumption DEF CurrentTurn
      <4> HIDE DEF x
      <4> QED BY <2>a, <3>1, <3>2, <4>1, <4>2 DEF AskSane, Elsewhere, CurrentTurn, x
    <3>4. CASE s \in Interactive /\ t \in OtherThreads /\ u = NoValue
      <4> HIDE DEF x
      <4> QED BY <2>a, <3>1, <3>2, <3>4 DEF AskSane, Elsewhere, x
    <3> QED BY <2>a, <3>3, <3>4 DEF MayAsk
  <2>4. ASSUME NEW g \in Hosts, NEW q \in Requests, g # h \/ q # r PROVE AskSane(g, q)'
    <3>1. AskKept(g, q) /\ OpenKept(g, q) /\ ThreadsKept
      BY <1>2, <2>2, <2>4 DEF Asks, AskKept, OpenKept, ThreadsKept
    <3> QED BY <3>1, KeptSane
  <2> QED BY <1>t, <2>2, <2>3, <2>4 DEF AsksSane
<1>3. ASSUME NEW h \in Hosts, NEW r, NEW v, Answers(h, r, v) PROVE AsksSane'
  <2>1. r \in Asked(h) /\ r \in Requests /\ Received(h, r, v) /\ UNCHANGED <<hosts, turns>>
    BY <1>3 DEF Answers, Asked
  <2>2. AskSane(h, r)'
    <3>1. AskStays(h, r) /\ asks'[h][r].state \in {"answered", "withdrawn"}
          /\ asks'[h][r].replies # <<>>
      BY <1>0, <2>1, ReceivedStays
    <3>2. asks[h][r].state # "none" /\ AskSane(h, r)
      BY <2>1 DEF Asked, AsksSane
    <3> QED BY <2>1, <3>1, <3>2 DEF AskSane, AskStays, Elsewhere
  <2>3. ASSUME NEW g \in Hosts, NEW q \in Requests, g # h \/ q # r PROVE AskSane(g, q)'
    <3>1. AskKept(g, q) /\ OpenKept(g, q) /\ ThreadsKept
      BY <2>1, <2>3 DEF Received, AskKept, OpenKept, ThreadsKept
    <3> QED BY <3>1, KeptSane
  <2>4. ThreadsKept
    BY <2>1 DEF ThreadsKept
  <2> QED BY <1>t, <2>1, <2>2, <2>3, <2>4 DEF AsksSane
<1>4. ASSUME Restart PROVE AsksSane'
  <2>1. \A h \in Hosts : \A r \in Requests : asks'[h][r] = NoAsk
    BY <1>4 DEF Restart
  <2>2. \A q \in Sessions : turns'[q].thread = turns[q].thread
    BY <1>0, <1>4, TurnsOff DEF Restart
  <2> QED BY <2>1, <2>2 DEF AsksSane, AskSane, NoAsk
<1> QED BY <1>1, <1>2, <1>3, <1>4 DEF StepKind, Plain, Calls, TurnsAway, Errs, Opens, Refuses,
           Decides, Forwards


-----------------------------------------------------------------------------
(* Rows, and the app-servers they are answered to. *)

\* A row that the process holds is answered to the app-server that made its request;
\* those it does not hold any more are of sessions that ended.
RowSane(i) ==
    LET row == interactions[i] IN
    /\ row.status = "absent" => asker[i] = NoValue
    /\ row.status # "absent" =>
         /\ sessions[row.session].status # "absent"
         /\ asker[i] = NoValue => ~ Active(row.session)
    /\ \A h \in Hosts : \A r \in Requests : For(i, h, r) => r \in Asked(h)

RowsSane == \A i \in Interactions : RowSane(i)

LEMMA NoHost == NoValue \notin Hosts
  BY NoValueAssumption, InteractiveAssumption, ThreadsAssumption DEF Hosts

\* The steps at which a row is inserted or decided, and those at which it is not.
LEMMA RowSteps ==
    ASSUME SystemTypeOK, StepKind, ~ Restart, NEW i \in Interactions
    PROVE  \/ SameRow(i) /\ asker'[i] = asker[i]
           \/ /\ asker'[i] = asker[i]
              /\ \E d \in Decisions, st \in {"resolved", "expired"} :
                   /\ RowDecided(i, d, st)
                   /\ \E w \in Workers, v \in Replies \cup {"interrupt"} : Decides(i, d, st, w, v)
           \/ \E h \in Hosts, r \in Requests, s \in Sessions, k \in Kinds : Opens(h, r, i, s, k)
<1>1. CASE RowsKept /\ UNCHANGED asker
  BY <1>1 DEF RowsKept
<1>2. ASSUME NEW j, NEW d, NEW st \in {"resolved", "expired"}, NEW w \in Workers,
             NEW v \in Replies \cup {"interrupt"}, Decides(j, d, st, w, v)
      PROVE  \/ SameRow(i) /\ asker'[i] = asker[i]
             \/ /\ asker'[i] = asker[i]
                /\ \E x \in Decisions, y \in {"resolved", "expired"} :
                     /\ RowDecided(i, x, y)
                     /\ \E a \in Workers, b \in Replies \cup {"interrupt"} : Decides(i, x, y, a, b)
  <2>1. RowDecided(j, d, st) /\ UNCHANGED asker /\ d \in Decisions
    BY <1>2 DEF Decides
  <2>2. CASE i = j
    BY <1>2, <2>1, <2>2
  <2>3. CASE i # j
    BY <2>1, <2>3 DEF RowDecided, SameRow, SameRequest, SameDecision
  <2> QED BY <2>2, <2>3
<1>3. ASSUME NEW h \in Hosts, NEW r \in Requests, NEW j \in Interactions, NEW s \in Sessions,
             NEW k \in Kinds, Opens(h, r, j, s, k)
      PROVE  i = j \/ (SameRow(i) /\ asker'[i] = asker[i])
  <2>1. Opened(j, s, r, k) /\ asker' = [asker EXCEPT ![j] = h]
    BY <1>3, RowOpened DEF Opens, SystemTypeOK
  <2> QED BY <1>3, <2>1 DEF Opened, SameRow, SameRequest, SameDecision, SystemTypeOK, AskerTypeOK
<1>4. CASE \E h \in Hosts, r \in Requests, s \in Sessions, k \in Kinds, j \in Interactions :
               Opens(h, r, j, s, k)
  <2>1. PICK h \in Hosts, r \in Requests, s \in Sessions, k \in Kinds, j \in Interactions :
               Opens(h, r, j, s, k)
    BY <1>4
  <2> QED BY <1>3, <2>1
<1>5. CASE UNCHANGED orchVars /\ UNCHANGED asker
  BY <1>1, <1>5, RowsIdle DEF orchVars
<1> QED BY <1>1, <1>2, <1>4, <1>5 DEF StepKind, Plain, RowPart, Asks, Calls, TurnsAway, Errs,
           Refuses, Forwards, Answers

\* What is inserted, and where.
LEMMA OpensFacts ==
    ASSUME SystemTypeOK, NEW h \in Hosts, NEW r \in Requests, NEW i \in Interactions,
           NEW s \in Sessions, NEW k \in Kinds, Opens(h, r, i, s, k)
    PROVE  /\ interactions[i].status = "absent" /\ Active(s) /\ RequestFree(r)
           /\ Opened(i, s, r, k) /\ live' = live \cup {i}
           /\ asker'[i] = h /\ \A j \in Interactions \ {i} : asker'[j] = asker[j]
<1>1. asker' = [asker EXCEPT ![i] = h]
  BY DEF Opens
<1> QED BY <1>1, RowOpened DEF Opens, SystemTypeOK, AskerTypeOK

LEMMA RowsSaneStep ==
    ASSUME SystemTypeOK, RowsSane, SessionsKept, OrchTypeOK', StepKind PROVE RowsSane'
<1>0. \A i \in Interactions : interactions[i].status # "absent" => interactions[i].session \in Sessions
  BY DEF SystemTypeOK, OrchTypeOK, TypeOK
<1>1. ASSUME Restart, NEW i \in Interactions PROVE RowSane(i)'
  <2>1. Reconcile /\ asker'[i] = NoValue
    BY <1>1 DEF Restart
  <2>2. TypeOK /\ ReconcileStartup
    BY <2>1 DEF Reconcile, SystemTypeOK, OrchTypeOK
  <2>3. /\ Moved({s \in Sessions : Active(s)}, "interrupted")
        /\ Closed({j \in Interactions : Pending(j)}, "expired")
    BY <2>2, ReconcileFacts
  <2>4. \A s \in Sessions : sessions'[s].status \notin ActiveStatus
    BY <2>3 DEF Moved, Active, ActiveStatus
  <2>5. /\ interactions'[i].session = interactions[i].session
        /\ interactions'[i].status = "absent" <=> interactions[i].status = "absent"
    BY <2>3 DEF Closed, SameRequest, Pending
  <2>6. interactions'[i].status # "absent" => sessions'[interactions[i].session].status # "absent"
    BY <1>0, <2>5 DEF RowsSane, RowSane, SessionsKept
  <2> QED BY <1>0, <2>1, <2>4, <2>5, <2>6, NoHost DEF RowSane, For, Active
<1>2. ASSUME ~ Restart, NEW i \in Interactions, asker'[i] = asker[i],
             SameRequest(interactions'[i], interactions[i]),
             interactions'[i].status = "absent" <=> interactions[i].status = "absent"
      PROVE  RowSane(i)'
  <2>1. RowSane(i) /\ AsksGrow
    BY <1>2, AsksGrowStep DEF RowsSane
  <2>2. interactions'[i].session = interactions[i].session /\ interactions'[i].request = interactions[i].request
    BY <1>2 DEF SameRequest
  <2>3. interactions[i].status # "absent" =>
          /\ sessions'[interactions[i].session].status # "absent"
          /\ asker[i] = NoValue => sessions'[interactions[i].session].status \notin ActiveStatus
    BY <1>0, <2>1 DEF RowSane, SessionsKept, Active
  <2>4. \A h \in Hosts : \A r \in Requests : For(i, h, r)' => r \in Asked(h)'
    BY <1>2, <2>1, <2>2 DEF RowSane, For, AsksGrow
  <2> QED BY <1>2, <2>1, <2>2, <2>3, <2>4 DEF RowSane, Active
<1>3. ASSUME ~ Restart, NEW i \in Interactions, NEW h \in Hosts, NEW r \in Requests,
             NEW s \in Sessions, NEW k \in Kinds, Opens(h, r, i, s, k)
      PROVE  RowSane(i)'
  <2>1. Active(s) /\ Opened(i, s, r, k) /\ asker'[i] = h
    BY <1>3, OpensFacts
  <2>2. AsksGrow /\ r \in Asked(h)
    BY <1>3, AsksGrowStep DEF Opens
  <2>3. sessions'[s].status # "absent"
    BY <2>1 DEF Active, ActiveStatus, SessionsKept
  <2>4. interactions'[i].session = s /\ interactions'[i].request = r /\ interactions'[i].status = "pending"
    BY <2>1 DEF Opened
  <2> QED BY <2>1, <2>2, <2>3, <2>4, NoHost DEF RowSane, For, AsksGrow
<1>4. ASSUME ~ Restart, NEW i \in Interactions PROVE RowSane(i)'
  <2>1. CASE SameRow(i) /\ asker'[i] = asker[i]
    <3>1. interactions'[i].status = "absent" <=> interactions[i].status = "absent"
      BY <2>1 DEF SameRow, Pending
    <3> QED BY <1>2, <1>4, <2>1, <3>1 DEF SameRow
  <2>2. ASSUME asker'[i] = asker[i], NEW d, NEW st \in {"resolved", "expired"},
               RowDecided(i, d, st)
        PROVE  RowSane(i)'
    BY <1>2, <1>4, <2>2 DEF RowDecided, Pending
  <2> QED BY <1>3, <1>4, <2>1, <2>2, RowSteps
<1> QED BY <1>1, <1>4 DEF RowsSane

\* Together with what the store and the orchestrator keep.
Sane == SystemTypeOK /\ AsksSane /\ RowsSane

LEMMA SaneStep ==
    Sane /\ [SystemNext]_vars => Sane' /\ StepKind /\ SessionsKept
<1> SUFFICES ASSUME Sane, [SystemNext]_vars PROVE Sane' /\ StepKind /\ SessionsKept
  OBVIOUS
<1>1. SystemTypeOK /\ AsksSane /\ RowsSane
  BY DEF Sane
<1>2. StepKind /\ [OrchNext]_orchVars /\ SystemTypeOK'
  BY <1>1, StepKinds, SystemStep DEF SafeStep
<1>3. SessionsKept /\ OrchTypeOK'
  BY <1>1, <1>2, SessionsStep DEF SystemTypeOK
<1>4. AsksSane' /\ RowsSane'
  BY <1>1, <1>2, <1>3, AsksSaneStep, RowsSaneStep
<1> QED BY <1>2, <1>3, <1>4 DEF Sane

LEMMA SaneInit == SystemInit => Sane
<1>1. SystemInit => AsksSane
  BY DEF SystemInit, AsksSane, AskSane, NoAsk, NoTurn
<1>2. SystemInit => RowsSane
  <2> SUFFICES ASSUME SystemInit PROVE RowsSane
    OBVIOUS
  <2>1. \A i \in Interactions : interactions[i] = NoInteraction /\ asker[i] = NoValue
    BY DEF SystemInit, OrchInit, StoreInit
  <2> QED BY <2>1, NoHost DEF RowsSane, RowSane, For, NoInteraction
<1> QED BY <1>1, <1>2, SystemInitType DEF Sane

LEMMA SystemSane == SystemSpec => []Sane
<1>1. Sane /\ [SystemNext]_vars => Sane'
  BY SaneStep
<1> QED BY <1>1, SaneInit, PTL DEF SystemSpec


-----------------------------------------------------------------------------
(* What is resolved is settled. *)

\* Nobody waits for an answer that a gateway counts as given, or that a message says
\* is resolved: it was given, or the request was withdrawn.
ResolvedIsSettled ==
    /\ \A h \in Interactive : \A r \in responded[h] : Settled(asks[h][r])
    /\ \A h \in Hosts : \A r \in Requests :
           ResolvedMsg(r) \in In(inbox[h]) => Settled(asks[h][r])

LEMMA SettledStays ==
    ASSUME Sane, StepKind, ~ Restart, NEW h \in Hosts, NEW r \in Requests, Settled(asks[h][r])
    PROVE  Settled(asks'[h][r])
<1>0. SystemTypeOK /\ AskTypeOK /\ AskSane(h, r)
  BY DEF Sane, SystemTypeOK, AsksSane
<1>1. asks[h][r].state # "none"
  BY <1>0 DEF Settled, AskSane, NoAsk
<1>2. CASE AskKept(h, r)
  BY <1>0, <1>1, <1>2, KeptStays, AskedFacts DEF AskStays, Settled, AskRecord
<1>3. CASE Asks(h, r)
  BY <1>1, <1>3 DEF Asks
<1>4. ASSUME NEW v, Answers(h, r, v) PROVE Settled(asks'[h][r])
  BY <1>0, <1>4, ReceivedStays DEF Answers, Settled
<1> QED BY <1>0, <1>2, <1>3, <1>4, AskSteps

LEMMA GateTypes == SystemTypeOK' => \A s \in Interactive : responded'[s] \subseteq Requests
  BY DEF SystemTypeOK, GateTypeOK

LEMMA SettledStep ==
    ASSUME Sane, Sane', ResolvedIsSettled, StepKind PROVE ResolvedIsSettled'
<1>0. InboxTypeOK /\ \A h \in Interactive : h \in Hosts /\ responded[h] \subseteq Requests
  BY HostFacts, GateFacts DEF Sane, SystemTypeOK
<1>r. \A h \in Interactive : responded'[h] \subseteq Requests
  BY GateTypes DEF Sane
<1>1. ASSUME ~ Restart, NEW h \in Interactive, NEW r \in responded[h]
      PROVE  Settled(asks'[h][r])
  BY <1>0, <1>1, SettledStays DEF ResolvedIsSettled
<1>2. ASSUME ~ Restart, NEW h \in Hosts, NEW r \in Requests,
             ResolvedMsg(r) \in In(inbox[h])
      PROVE  Settled(asks'[h][r])
  BY <1>2, SettledStays DEF ResolvedIsSettled
<1>3. ASSUME ~ Restart, QueuesKept, NEW h \in Hosts, NEW r \in Requests,
             ResolvedMsg(r) \in In(inbox'[h])
      PROVE  Settled(asks'[h][r])
  BY <1>2, <1>3 DEF QueuesKept, QueueKept
<1>4. ASSUME ~ Restart, RespondedKept, NEW h \in Interactive, NEW r \in responded'[h]
      PROVE  Settled(asks'[h][r])
  <2>1. r \in Requests
    BY <1>r
  <2>2. CASE r \in responded[h]
    BY <1>1, <1>4, <2>2
  <2>3. CASE ResolvedMsg(r) \in In(inbox[h])
    BY <1>0, <1>2, <1>4, <2>1, <2>3
  <2> QED BY <1>4, <2>1, <2>2, <2>3 DEF RespondedKept
<1>5. ASSUME ~ Restart, QueuesKept, RespondedKept PROVE ResolvedIsSettled'
  BY <1>3, <1>4, <1>5 DEF ResolvedIsSettled
<1>6. ASSUME ~ Restart, NEW h \in Hosts, NEW r \in Requests, Asks(h, r)
      PROVE  ResolvedIsSettled'
  <2>1. Post(h, RequestMsg(r)) /\ UNCHANGED responded
    BY <1>6 DEF Asks, gateVars
  <2>2. In(inbox'[h]) = In(inbox[h]) \cup {RequestMsg(r)}
        /\ \A g \in Hosts \ {h} : inbox'[g] = inbox[g]
    BY <1>0, <2>1, PostFacts
  <2>3. \A q \in Requests : ResolvedMsg(q) # RequestMsg(r)
    BY DEF ResolvedMsg, RequestMsg
  <2>4. \A g \in Hosts : \A q \in Requests :
           ResolvedMsg(q) \in In(inbox'[g]) => ResolvedMsg(q) \in In(inbox[g])
    BY <2>2, <2>3
  <2> QED BY <1>1, <1>2, <1>6, <2>1, <2>4 DEF ResolvedIsSettled
<1>7. ASSUME ~ Restart, NEW h \in Hosts, NEW r, NEW v, Answers(h, r, v)
      PROVE  ResolvedIsSettled'
  <2>1. QueuesKept /\ r \in Requests /\ r \in Asked(h)
    BY <1>7 DEF Answers, Asked
  <2>2. asks'[h][r].replies # <<>>
    BY <1>7, ReceivedStays DEF Answers, Sane, SystemTypeOK
  <2>3. \A g \in Interactive : \A q \in responded'[g] : q \in responded[g] \/ (g = h /\ q = r)
    BY <1>7, GateFacts, HostFacts DEF Answers, Sane
  <2>4. \A g \in Interactive : \A q \in responded'[g] : Settled(asks'[g][q])
    BY <1>1, <1>7, <2>2, <2>3 DEF Settled
  <2> QED BY <1>3, <1>7, <2>1, <2>4 DEF ResolvedIsSettled
<1>8. ASSUME Restart PROVE ResolvedIsSettled'
  <2>1. \A h \in Hosts : inbox'[h] = <<>>
    BY <1>8 DEF Restart
  <2>2. \A h \in Interactive : responded'[h] = {}
    BY <1>8 DEF Restart
  <2>3. In(<<>>) = {}
    BY EmptySeq DEF In
  <2> QED BY <2>1, <2>2, <2>3 DEF ResolvedIsSettled
<1> QED BY <1>5, <1>6, <1>7, <1>8 DEF StepKind, Plain, GatePart, HostPart, Calls, TurnsAway, Errs,
           Opens, Refuses, Decides, Forwards

LEMMA SystemSettled == SystemSpec => []ResolvedIsSettled
<1>1. SystemInit => ResolvedIsSettled
  <2>1. In(<<>>) = {}
    BY EmptySeq DEF In
  <2> QED BY <2>1 DEF SystemInit, ResolvedIsSettled
<1>2. Sane /\ ResolvedIsSettled /\ [SystemNext]_vars => ResolvedIsSettled'
  BY SaneStep, SettledStep
<1> QED BY <1>1, <1>2, SystemSane, PTL DEF SystemSpec


-----------------------------------------------------------------------------
(* What is forwarded is on record. *)

Recorded(h, r, d) == \E i \in Interactions : For(i, h, r) /\ interactions[i].decision = d

\* Worker w holds reply v to request r of h.
Holds(w, h, r, v) ==
    writing[w].host = h /\ writing[w].request = r /\ writing[w].reply = v

WrittenIsRecorded ==
    \A w \in Workers, h \in Hosts, r \in Requests, d \in Decisions :
        Holds(w, h, r, d) => Recorded(h, r, d)

LEMMA NoDecision == NoValue \notin Decisions /\ Idle.reply = NoValue /\ Idle.host = NoValue
  BY NoValueAssumption DEF Idle

\* Until a restart, what is on record stays, and remains attributed.
LEMMA RecordedStays ==
    ASSUME Sane, TablesOK, StepKind, ~ Restart, NEW h \in Hosts, NEW r \in Requests,
           NEW d \in Decisions, Recorded(h, r, d)
    PROVE  Recorded(h, r, d)'
<1>1. PICK i \in Interactions : For(i, h, r) /\ interactions[i].decision = d
  BY DEF Recorded
<1>2. interactions[i].status # "absent"
  BY <1>1, NoHost DEF Sane, RowsSane, RowSane, For
<1>3. CASE SameRow(i) /\ asker'[i] = asker[i]
  BY <1>1, <1>3 DEF SameRow, SameRequest, SameDecision, For, Recorded
<1>4. ~ Pending(i)
  BY <1>1, NoDecision DEF TablesOK, DecisionOnRecord, Pending
<1>5. ~ \E x, st : RowDecided(i, x, st)
  BY <1>4 DEF RowDecided
<1>6. ~ \E g \in Hosts, q \in Requests, s \in Sessions, k \in Kinds : Opens(g, q, i, s, k)
  BY <1>2, OpensFacts DEF Sane
<1> QED BY <1>3, <1>5, <1>6, RowSteps DEF Sane

\* What a worker is given to forward, or to turn down, and what it goes on with.
LEMMA WriteSteps ==
    ASSUME Sane, StepKind, ~ Restart, NEW w \in Workers
    PROVE  \/ writing'[w] = writing[w]
           \/ writing'[w] = Idle
           \/ \E r \in Requests : Refuses(r) /\ w = Consumer
           \/ \E i \in Interactions, d \in Decisions, st \in {"resolved", "expired"},
                 v \in Replies \cup {"interrupt"} :
                Decides(i, d, st, w, v) /\ writing'[w] = AwaitingFor(i, v)
<1>0. DOMAIN writing = Workers
  BY DEF Sane, SystemTypeOK, TaskTypeOK
<1>1. CASE WritesKept
  BY <1>1 DEF WritesKept
<1>2. CASE UNCHANGED writing
  BY <1>2
<1>3. ASSUME NEW r \in Requests, Refuses(r)
      PROVE  writing'[w] = writing[w] \/ w = Consumer
  BY <1>0, <1>3 DEF Refuses
<1>4. ASSUME NEW i \in Interactions, NEW d \in Decisions, NEW st \in {"resolved", "expired"},
             NEW x \in Workers, NEW v \in Replies \cup {"interrupt"}, Decides(i, d, st, x, v)
      PROVE  writing'[w] = writing[w] \/ (x = w /\ writing'[w] = AwaitingFor(i, v))
  BY <1>0, <1>4 DEF Decides
<1>5. ASSUME NEW x \in Workers, Forwards(x) PROVE writing'[w] = writing[w] \/ writing'[w] = Idle
  BY <1>0, <1>5 DEF Forwards
<1> QED BY <1>1, <1>2, <1>3, <1>4, <1>5
        DEF StepKind, Plain, Asks, Calls, TurnsAway, Errs, Opens, taskVars

LEMMA WrittenStep ==
    ASSUME Sane, TablesOK, WrittenIsRecorded, StepKind PROVE WrittenIsRecorded'
<1>1. ASSUME Restart PROVE WrittenIsRecorded'
  BY <1>1, NoDecision DEF Restart, WrittenIsRecorded, Holds
<1>2. ASSUME ~ Restart, NEW w \in Workers, NEW h \in Hosts, NEW r \in Requests,
             NEW x \in Decisions, Holds(w, h, r, x)'
      PROVE  Recorded(h, r, x)'
  <2>0. writing'[w].host = h /\ writing'[w].request = r /\ writing'[w].reply = x
    BY <1>2 DEF Holds
  <2>1. CASE writing'[w] = writing[w]
    BY <1>2, <2>0, <2>1, RecordedStays DEF WrittenIsRecorded, Holds
  <2>2. CASE writing'[w] = Idle
    BY <2>0, <2>2, NoDecision
  <2>3. ASSUME NEW q, Refuses(q), w = Consumer PROVE FALSE
    <3>1. writing'[w].reply = "refused"
      BY <2>3 DEF Refuses, Awaiting, Sane, SystemTypeOK, TaskTypeOK
    <3> QED BY <2>0, <3>1 DEF Decisions
  <2>4. ASSUME NEW i \in Interactions, NEW d \in Decisions, NEW st \in {"resolved", "expired"},
               NEW v, Decides(i, d, st, w, v), writing'[w] = AwaitingFor(i, v)
        PROVE  Recorded(h, r, x)'
    <3>1. h = asker[i] /\ r = interactions[i].request /\ x = v
      BY <2>0, <2>4 DEF AwaitingFor, Awaiting
    <3>2. v = d
      BY <2>4, <3>1 DEF Decides, Decisions
    <3>3. /\ interactions'[i].decision = d /\ interactions'[i].request = interactions[i].request
          /\ asker'[i] = asker[i]
      BY <2>4 DEF Decides, RowDecided, SameRequest
    <3> QED BY <3>1, <3>2, <3>3 DEF Recorded, For
  <2> QED BY <1>2, <2>1, <2>2, <2>3, <2>4, WriteSteps
<1> QED BY <1>1, <1>2 DEF WrittenIsRecorded

\* Who gives the answers.
LEMMA AnswerSteps ==
    ASSUME SystemTypeOK, StepKind, ~ Restart, NEW h \in Hosts, NEW r \in Requests
    PROVE  \/ AskKept(h, r)
           \/ Asks(h, r)
           \/ TurnsAway(h, r)
           \/ Errs(h, r)
           \/ \E w \in Workers : Forwards(w) /\ writing[w].host = h /\ writing[w].request = r
<1>1. CASE HostPart
  BY <1>1 DEF HostPart, AsksKept
<1>2. ASSUME NEW g \in Hosts, NEW q \in Requests, Asks(g, q) PROVE AskKept(h, r) \/ Asks(h, r)
  BY <1>2 DEF Asks, AskKept
<1>3. ASSUME NEW g, NEW q, NEW v, Answers(g, q, v) PROVE AskKept(h, r) \/ (g = h /\ q = r)
  BY <1>3 DEF Answers, Received, AskKept
<1>4. ASSUME NEW g \in Hosts, NEW q \in Requests, TurnsAway(g, q) \/ Errs(g, q)
      PROVE  AskKept(h, r) \/ TurnsAway(h, r) \/ Errs(h, r)
  BY <1>3, <1>4 DEF TurnsAway, Errs
<1>5. ASSUME NEW w \in Workers, Forwards(w)
      PROVE  \/ AskKept(h, r)
             \/ Forwards(w) /\ writing[w].host = h /\ writing[w].request = r
  BY <1>3, <1>5 DEF Forwards
<1> QED BY <1>1, <1>2, <1>4, <1>5 DEF StepKind, Plain, Calls, Opens, Refuses, Decides

LEMMA ReplyRecordedStep ==
    ASSUME Sane, TablesOK, WrittenIsRecorded, ReplyIsRecorded, StepKind PROVE ReplyIsRecorded'
<1>0. SystemTypeOK /\ AskTypeOK
  BY DEF Sane, SystemTypeOK
<1>1. ASSUME Restart PROVE ReplyIsRecorded'
  <2>1. \A h \in Hosts : \A r \in Requests : asks'[h][r].replies = <<>>
    BY <1>1 DEF Restart, NoAsk
  <2> QED BY <2>1, EmptySeq DEF ReplyIsRecorded
<1>2. ASSUME ~ Restart, NEW h \in Hosts, NEW r \in Requests,
             NEW k \in 1 .. Len(asks'[h][r].replies), NEW d \in Decisions,
             asks'[h][r].replies[k] = d
      PROVE  Recorded(h, r, d)'
  <2>0. asks'[h][r].replies[k] = d
    BY <1>2
  <2>1. ASSUME k \in 1 .. Len(asks[h][r].replies), asks'[h][r].replies[k] = asks[h][r].replies[k]
        PROVE  Recorded(h, r, d)'
    <3>1. Recorded(h, r, d)
      BY <2>0, <2>1 DEF ReplyIsRecorded, Recorded
    <3> QED BY <1>2, <3>1, RecordedStays
  <2>2. CASE AskKept(h, r)
    BY <1>0, <2>1, <2>2, KeptStays
  <2>3. CASE Asks(h, r)
    BY <2>3, EmptySeq DEF Asks
  <2>4. ASSUME NEW v, Answers(h, r, v), v = d => Recorded(h, r, d) PROVE Recorded(h, r, d)'
    <3>1. r \in Asked(h) /\ Received(h, r, v)
      BY <2>4 DEF Answers
    <3>2. CASE k \in 1 .. Len(asks[h][r].replies)
      BY <1>0, <2>1, <3>1, <3>2, ReceivedStays
    <3>3. CASE k \notin 1 .. Len(asks[h][r].replies)
      <4>1. /\ Len(asks'[h][r].replies) = Len(asks[h][r].replies) + 1
            /\ Len(asks[h][r].replies) \in Nat
            /\ asks'[h][r].replies[Len(asks[h][r].replies) + 1] = v
        BY <1>0, <3>1, ReceivedStays, SMTT(30)
      <4>2. k = Len(asks[h][r].replies) + 1
        BY <3>3, <4>1
      <4>3. Recorded(h, r, d)
        BY <2>0, <2>4, <4>1, <4>2
      <4> QED BY <1>2, <4>3, RecordedStays
    <3> QED BY <3>2, <3>3
  <2>5. "refused" # d /\ "error" # d
    BY DEF Decisions
  <2>6. CASE TurnsAway(h, r)
    BY <2>4, <2>5, <2>6 DEF TurnsAway
  <2>7. CASE Errs(h, r)
    BY <2>4, <2>5, <2>7 DEF Errs
  <2>8. ASSUME NEW w \in Workers, Forwards(w), writing[w].host = h, writing[w].request = r
        PROVE  Recorded(h, r, d)'
    <3>1. Answers(h, r, writing[w].reply)
      BY <2>8 DEF Forwards
    <3>2. writing[w].reply = d => Recorded(h, r, d)
      BY <2>8 DEF WrittenIsRecorded, Holds
    <3> QED BY <2>4, <3>1, <3>2
  <2> QED BY <1>0, <1>2, <2>2, <2>3, <2>6, <2>7, <2>8, AnswerSteps
<1> QED BY <1>1, <1>2 DEF ReplyIsRecorded, Recorded, For

\* What an app-server is told was decided by the claim on a row that is answered to
\* it: respond forwards the decision that resolve_interaction, resolve_terminal_request
\* or expire_due_interactions put on record, in every run of the whole system.
THEOREM SystemReplyRecorded == SystemSpec => []ReplyIsRecorded
<1>1. SystemInit => WrittenIsRecorded /\ ReplyIsRecorded
  <2> SUFFICES ASSUME SystemInit PROVE WrittenIsRecorded /\ ReplyIsRecorded
    OBVIOUS
  <2>1. \A w \in Workers : writing[w] = Idle
    BY DEF SystemInit
  <2>2. \A h \in Hosts : \A r \in Requests : asks[h][r].replies = <<>>
    BY DEF SystemInit, NoAsk
  <2>3. WrittenIsRecorded
    BY <2>1, NoDecision DEF WrittenIsRecorded, Holds
  <2>4. ReplyIsRecorded
    BY <2>2, EmptySeq DEF ReplyIsRecorded
  <2> QED BY <2>3, <2>4
<1>2. Sane /\ TablesOK /\ WrittenIsRecorded /\ ReplyIsRecorded /\ [SystemNext]_vars
        => WrittenIsRecorded' /\ ReplyIsRecorded'
  BY SaneStep, WrittenStep, ReplyRecordedStep
<1> QED BY <1>1, <1>2, SystemSane, SystemTables, PTL DEF SystemSpec


-----------------------------------------------------------------------------
(* A request is in one hand at a time. *)

HasRow(h, r) == \E i \in Interactions : For(i, h, r)
Offered(h, r) == \E i \in Interactions : Pending(i) /\ For(i, h, r)
Sending(w, h, r) == writing[w].host = h /\ writing[w].request = r
Unhandled(h, r) == Queued(h, r) \/ Called(h, r)

\* A terminal may answer with an error beside the claim on a row, and only there.
Orderly(h) == h = Managed \/ "terminal_error" \notin Faults

\* A request waits in a queue or in a callback, then it has a row, then a worker holds
\* the answer, then its app-server has it: never two of these, and never two rows.
InOneHand(h, r) ==
    /\ Once(inbox[h], RequestMsg(r))
    /\ Queued(h, r) => ~ Called(h, r)
    /\ Unhandled(h, r) => ~ HasRow(h, r) /\ ~ BeingWritten(h, r)
    /\ Offered(h, r) => ~ BeingWritten(h, r)
    /\ Orderly(h) /\ (Unhandled(h, r) \/ Offered(h, r) \/ BeingWritten(h, r))
           => asks[h][r].replies = <<>>
    /\ \A i, j \in Interactions : For(i, h, r) /\ For(j, h, r) => i = j
    /\ \A v, w \in Workers : Sending(v, h, r) /\ Sending(w, h, r) => v = w

OneHand == \A h \in Hosts : \A r \in Requests : InOneHand(h, r)

\* Nobody takes hold of request r of h, and nobody answers it.
CallLess(h, r) == Called(h, r)' => Called(h, r)
RowLess(h, r) ==
    \A i \in Interactions : For(i, h, r)' => For(i, h, r) /\ (Pending(i)' => Pending(i))
WriteLess(h, r) == \A w \in Workers : Sending(w, h, r)' => Sending(w, h, r)
SameReplies(h, r) == asks'[h][r].replies = asks[h][r].replies

LEMMA QuietHands ==
    ASSUME NEW h \in Hosts, NEW r \in Requests,
           Once(inbox[h], RequestMsg(r)) => Once(inbox'[h], RequestMsg(r)),
           Queued(h, r)' => Queued(h, r), CallLess(h, r), RowLess(h, r),
           WriteLess(h, r), Orderly(h) => SameReplies(h, r), InOneHand(h, r)
    PROVE  InOneHand(h, r)'
<1>1. /\ Once(inbox'[h], RequestMsg(r))
      /\ Queued(h, r)' => Queued(h, r)
  BY DEF InOneHand
<1>2. /\ HasRow(h, r)' => HasRow(h, r)
      /\ Offered(h, r)' => Offered(h, r)
  BY DEF RowLess, HasRow, Offered
<1>3. BeingWritten(h, r)' => BeingWritten(h, r)
  BY DEF WriteLess, Sending, BeingWritten
<1>4. Unhandled(h, r)' => Unhandled(h, r)
  BY <1>1 DEF CallLess, Unhandled
<1>5. \A i, j \in Interactions : For(i, h, r)' /\ For(j, h, r)' => i = j
  BY DEF RowLess, InOneHand
<1>6. \A v, w \in Workers : Sending(v, h, r)' /\ Sending(w, h, r)' => v = w
  BY DEF WriteLess, InOneHand
<1>7. Queued(h, r)' => ~ Called(h, r)'
  BY <1>1 DEF CallLess, InOneHand
<1>8. Unhandled(h, r)' => ~ HasRow(h, r)' /\ ~ BeingWritten(h, r)'
  BY <1>2, <1>3, <1>4 DEF InOneHand
<1>9. Offered(h, r)' => ~ BeingWritten(h, r)'
  BY <1>2, <1>3 DEF InOneHand
<1>10. Orderly(h) /\ (Unhandled(h, r)' \/ Offered(h, r)' \/ BeingWritten(h, r)')
          => asks'[h][r].replies = <<>>
  BY <1>2, <1>3, <1>4 DEF InOneHand, SameReplies
<1> QED BY <1>1, <1>5, <1>6, <1>7, <1>8, <1>9, <1>10 DEF InOneHand, Orderly

LEMMA QuietHand ==
    ASSUME NEW h \in Hosts, NEW r \in Requests, QueueKept(h), CallLess(h, r), RowLess(h, r),
           WriteLess(h, r), Orderly(h) => SameReplies(h, r), InOneHand(h, r)
    PROVE  InOneHand(h, r)'
<1>1. /\ Once(inbox[h], RequestMsg(r)) => Once(inbox'[h], RequestMsg(r))
      /\ Queued(h, r)' => Queued(h, r)
  BY DEF QueueKept, Queued
<1> QED BY <1>1, QuietHands

\* A request that was not made is in no hand.
LEMMA InNoHand ==
    ASSUME Sane, NEW h \in Hosts, NEW r \in Requests, asks[h][r].state = "none"
    PROVE  ~ Unhandled(h, r) /\ ~ HasRow(h, r) /\ ~ BeingWritten(h, r) /\ asks[h][r].replies = <<>>
<1>0. r \notin Asked(h) /\ SystemTypeOK /\ TaskTypeOK
  BY DEF Asked, Sane, SystemTypeOK
<1>1. ~ Queued(h, r)
  <2> SUFFICES ASSUME NEW k \in 1 .. Len(inbox[h]), inbox[h][k] = RequestMsg(r) PROVE FALSE
    BY DEF Queued, In
  <2>1. inbox[h] \in Seq(Message(h))
    BY <1>0 DEF SystemTypeOK, InboxTypeOK
  <2>2. inbox[h][k] \in Message(h)
    BY <2>1, ElementOfSeq
  <2> QED BY <1>0, <2>2 DEF RequestMsg, Message
<1>2. ~ Called(h, r)
  BY <1>0, GateFacts DEF Called
<1>3. ~ HasRow(h, r)
  BY <1>0 DEF HasRow, Sane, RowsSane, RowSane
<1>4. ~ BeingWritten(h, r)
  <2> SUFFICES ASSUME NEW w \in Workers, writing[w].request = r, writing[w].host = h PROVE FALSE
    BY DEF BeingWritten
  <2>1. ~ IsIdle(w)
    BY NoHost, NoDecision DEF IsIdle
  <2> QED BY <1>0, <2>1, WriteFacts
<1>5. asks[h][r].replies = <<>>
  BY DEF Sane, AsksSane, AskSane, NoAsk
<1> QED BY <1>1, <1>2, <1>3, <1>4, <1>5 DEF Unhandled

\* Which steps take hold of nothing.
LEMMA KeptCalls == CallsKept => \A h \in Hosts : \A r \in Requests : CallLess(h, r)
  BY DEF CallsKept, CallLess, Called

LEMMA KeptRows == RowPart => \A h \in Hosts : \A r \in Requests : RowLess(h, r)
  BY DEF RowPart, RowsKept, SameRow, SameRequest, RowLess, For, Pending

LEMMA KeptWrites ==
    ASSUME NEW w \in Workers, writing'[w] = writing[w] \/ writing'[w] = Idle,
           NEW h \in Hosts, NEW r
    PROVE  Sending(w, h, r)' => Sending(w, h, r)
  BY NoHost, NoDecision DEF Sending

LEMMA LessWritten == WritesKept => \A h \in Hosts : \A r \in Requests : WriteLess(h, r)
<1> SUFFICES ASSUME WritesKept, NEW h \in Hosts, NEW r \in Requests, NEW w \in Workers
             PROVE  Sending(w, h, r)' => Sending(w, h, r)
  BY DEF WriteLess
<1> QED BY KeptWrites DEF WritesKept

LEMMA SameWritten == UNCHANGED writing => \A h \in Hosts : \A r \in Requests : WriteLess(h, r)
  BY DEF WriteLess, Sending

LEMMA KeptReplies ==
    ASSUME SystemTypeOK, AsksKept PROVE \A h \in Hosts : \A r \in Requests : SameReplies(h, r)
  BY KeptStays DEF AsksKept, SameReplies, SystemTypeOK

\* Request r of h leaves the queue, or the callback, where it waited.
LEMMA TakenHand ==
    ASSUME NEW h \in Hosts, NEW r \in Requests, InOneHand(h, r), QueueKept(h), CallLess(h, r),
           Taken(h, r)
    PROVE  /\ Unhandled(h, r) /\ ~ HasRow(h, r) /\ ~ BeingWritten(h, r)
           /\ Orderly(h) => asks[h][r].replies = <<>>
           /\ Once(inbox'[h], RequestMsg(r)) /\ ~ Unhandled(h, r)'
<1>1. Once(inbox'[h], RequestMsg(r)) /\ (Queued(h, r)' => Queued(h, r))
  BY DEF QueueKept, InOneHand, Queued
<1>2. CASE Unqueued(h, r)
  BY <1>1, <1>2 DEF Unqueued, InOneHand, Unhandled, CallLess
<1>3. CASE Uncalled(h, r)
  <2>1. Called(h, r) /\ ~ Called(h, r)'
    BY <1>3 DEF Uncalled, Called
  <2> QED BY <1>1, <2>1 DEF InOneHand, Unhandled
<1> QED BY <1>2, <1>3 DEF Taken


\* Each kind of step moves a request from one hand to the next.
LEMMA AsksHand ==
    ASSUME Sane, OneHand, NEW g \in Hosts, NEW q \in Requests, Asks(g, q) PROVE OneHand'
<1>0. InboxTypeOK /\ Post(g, RequestMsg(q)) /\ UNCHANGED <<orchVars, gateVars, asker>>
      /\ UNCHANGED writing
  BY DEF Sane, SystemTypeOK, Asks, taskVars
<1>1. /\ In(inbox'[g]) = In(inbox[g]) \cup {RequestMsg(q)}
      /\ \A m : Once(inbox[g], m) /\ (m = RequestMsg(q) => m \notin In(inbox[g]))
                  => Once(inbox'[g], m)
      /\ \A h \in Hosts \ {g} : inbox'[h] = inbox[h]
  BY <1>0, PostFacts
<1>2. ASSUME NEW h \in Hosts, NEW r \in Requests
      PROVE  CallLess(h, r) /\ RowLess(h, r) /\ WriteLess(h, r)
  <2>1. RowPart /\ CallsKept
    BY <1>0, RowsIdle DEF RowPart, CallsKept, orchVars, gateVars
  <2> QED BY <1>0, <2>1, KeptCalls, KeptRows, SameWritten
<1>3. ASSUME NEW h \in Hosts, NEW r \in Requests, h # g \/ r # q
      PROVE  InOneHand(h, r)'
  <2>1. InOneHand(h, r)
    BY <1>3 DEF OneHand
  <2>2. RequestMsg(r) = RequestMsg(q) => r = q
    BY DEF RequestMsg
  <2>3. /\ Once(inbox[h], RequestMsg(r)) => Once(inbox'[h], RequestMsg(r))
        /\ Queued(h, r)' => Queued(h, r)
    BY <1>1, <1>3, <2>2 DEF Queued
  <2>4. SameReplies(h, r)
    BY <1>3 DEF Asks, SameReplies
  <2> QED BY <1>2, <2>1, <2>3, <2>4, QuietHands
<1>4. InOneHand(g, q)'
  <2>1. ~ Unhandled(g, q) /\ ~ HasRow(g, q) /\ ~ BeingWritten(g, q)
    BY InNoHand DEF Asks
  <2>2. Once(inbox'[g], RequestMsg(q))
    BY <1>1, <2>1 DEF Unhandled, Queued, OneHand, InOneHand
  <2>3. ~ Called(g, q)' /\ ~ HasRow(g, q)' /\ ~ BeingWritten(g, q)' /\ ~ Offered(g, q)'
    BY <1>2, <2>1 DEF CallLess, RowLess, WriteLess, Unhandled, HasRow, BeingWritten, Sending,
                       Offered
  <2>4. asks'[g][q].replies = <<>>
    BY DEF Asks
  <2> QED BY <2>2, <2>3, <2>4 DEF InOneHand, Unhandled, HasRow, BeingWritten, Sending
<1> QED BY <1>3, <1>4 DEF OneHand

LEMMA CallsHand ==
    ASSUME Sane, OneHand, NEW g \in Hosts, NEW q \in Requests, Calls(g, q) PROVE OneHand'
<1>1. ASSUME NEW h \in Hosts, NEW r \in Requests
      PROVE  QueueKept(h) /\ RowLess(h, r) /\ WriteLess(h, r) /\ SameReplies(h, r)
  BY KeptRows, LessWritten, KeptReplies DEF Calls, HostPart, QueuesKept, Sane
<1>2. ASSUME NEW h \in Hosts, NEW r \in Requests, h # g \/ r # q
      PROVE  InOneHand(h, r)'
  <2>1. CallLess(h, r)
    BY <1>2 DEF Calls, CallLess, Called
  <2> QED BY <1>1, <1>2, <2>1, QuietHand DEF OneHand
<1>3. InOneHand(g, q)'
  <2>1. InOneHand(g, q) /\ Unqueued(g, q)
    BY DEF OneHand, Calls
  <2>2. Once(inbox'[g], RequestMsg(q)) /\ ~ Queued(g, q)'
    BY <1>1, <2>1 DEF InOneHand, Unqueued, QueueKept
  <2>3. ~ HasRow(g, q)' /\ ~ BeingWritten(g, q)' /\ ~ Offered(g, q)'
    BY <1>1, <2>1 DEF InOneHand, Unqueued, Unhandled, RowLess, WriteLess, HasRow, Offered,
                       BeingWritten, Sending
  <2>4. Orderly(g) => asks'[g][q].replies = <<>>
    BY <1>1, <2>1 DEF InOneHand, Unqueued, Unhandled, SameReplies
  <2> QED BY <2>2, <2>3, <2>4 DEF InOneHand, HasRow, BeingWritten, Sending, Orderly
<1> QED BY <1>2, <1>3 DEF OneHand

LEMMA OpensHand ==
    ASSUME Sane, OneHand, NEW g \in Hosts, NEW q \in Requests, NEW i \in Interactions,
           NEW s \in Sessions, NEW k \in Kinds, Opens(g, q, i, s, k)
    PROVE  OneHand'
<1>0. /\ Opened(i, s, q, k) /\ asker'[i] = g /\ interactions[i].status = "absent"
      /\ \A j \in Interactions \ {i} : asker'[j] = asker[j]
  BY OpensFacts DEF Sane
<1>1. ASSUME NEW h \in Hosts, NEW r \in Requests
      PROVE  QueueKept(h) /\ CallLess(h, r) /\ WriteLess(h, r) /\ SameReplies(h, r)
  BY KeptCalls, SameWritten, KeptReplies
     DEF Opens, HostPart, GatePart, QueuesKept, Sane
<1>2. ASSUME NEW h \in Hosts, NEW r \in Requests, NEW j \in Interactions, For(j, h, r)'
      PROVE  \/ j = i /\ h = g /\ r = q
             \/ For(j, h, r) /\ (Pending(j)' => Pending(j))
  <2>1. CASE j = i
    BY <1>0, <1>2, <2>1 DEF For, Opened
  <2>2. CASE j # i
    BY <1>0, <1>2, <2>2 DEF For, Opened, Pending
  <2> QED BY <2>1, <2>2
<1>3. ASSUME NEW h \in Hosts, NEW r \in Requests, h # g \/ r # q
      PROVE  InOneHand(h, r)'
  <2>1. RowLess(h, r)
    BY <1>2, <1>3 DEF RowLess
  <2> QED BY <1>1, <1>3, <2>1, QuietHand DEF OneHand
<1>4. InOneHand(g, q)'
  <2>1. /\ Unhandled(g, q) /\ ~ HasRow(g, q) /\ ~ BeingWritten(g, q)
        /\ Orderly(g) => asks[g][q].replies = <<>>
        /\ Once(inbox'[g], RequestMsg(q)) /\ ~ Unhandled(g, q)'
    BY <1>1, TakenHand DEF OneHand, Opens
  <2>2. \A j, l \in Interactions : For(j, g, q)' /\ For(l, g, q)' => j = l
    BY <1>2, <2>1 DEF HasRow
  <2>3. ~ BeingWritten(g, q)' /\ (Orderly(g) => asks'[g][q].replies = <<>>)
    BY <1>1, <2>1 DEF WriteLess, SameReplies, BeingWritten, Sending
  <2> QED BY <2>1, <2>2, <2>3 DEF InOneHand, Unhandled, BeingWritten, Sending, Orderly
<1> QED BY <1>3, <1>4 DEF OneHand

LEMMA RefusesHand ==
    ASSUME Sane, OneHand, NEW q \in Requests, Refuses(q) PROVE OneHand'
<1>0. Managed \in Hosts /\ Consumer \in Workers /\ DOMAIN writing = Workers
  BY HostFacts, WorkerFacts DEF Sane, SystemTypeOK, TaskTypeOK
<1>1. ASSUME NEW h \in Hosts, NEW r \in Requests
      PROVE  QueueKept(h) /\ CallLess(h, r) /\ RowLess(h, r) /\ SameReplies(h, r)
  BY KeptCalls, KeptRows, KeptReplies
     DEF Refuses, HostPart, GatePart, QueuesKept, Sane
<1>2. /\ writing'[Consumer].host = Managed /\ writing'[Consumer].request = q
      /\ \A w \in Workers \ {Consumer} : writing'[w] = writing[w]
  BY <1>0 DEF Refuses, Awaiting
<1>3. ASSUME NEW h \in Hosts, NEW r \in Requests, h # Managed \/ r # q
      PROVE  InOneHand(h, r)'
  <2>1. WriteLess(h, r)
    BY <1>2, <1>3 DEF WriteLess, Sending
  <2> QED BY <1>1, <1>3, <2>1, QuietHand DEF OneHand
<1>4. InOneHand(Managed, q)'
  <2>1. /\ Unhandled(Managed, q) /\ ~ HasRow(Managed, q) /\ ~ BeingWritten(Managed, q)
        /\ asks[Managed][q].replies = <<>>
        /\ Once(inbox'[Managed], RequestMsg(q)) /\ ~ Unhandled(Managed, q)'
    BY <1>0, <1>1, TakenHand DEF OneHand, Refuses, Orderly
  <2>2. ~ HasRow(Managed, q)' /\ ~ Offered(Managed, q)'
    BY <1>0, <1>1, <2>1 DEF RowLess, HasRow, Offered
  <2>3. \A v, w \in Workers : Sending(v, Managed, q)' /\ Sending(w, Managed, q)' => v = w
    BY <1>2, <2>1 DEF Sending, BeingWritten
  <2>4. asks'[Managed][q].replies = <<>>
    BY <1>0, <1>1, <2>1 DEF SameReplies
  <2> QED BY <2>1, <2>2, <2>3, <2>4 DEF InOneHand, Unhandled, HasRow
<1> QED BY <1>0, <1>3, <1>4 DEF OneHand

LEMMA DecidesHand ==
    ASSUME Sane, OneHand, NEW i \in Interactions, NEW d, NEW st \in {"resolved", "expired"},
           NEW x \in Workers, NEW v, Decides(i, d, st, x, v)
    PROVE  OneHand'
<1>0. /\ DOMAIN writing = Workers /\ RowDecided(i, d, st) /\ UNCHANGED asker
      /\ UNCHANGED asks
  BY DEF Decides, Sane, SystemTypeOK, TaskTypeOK
<1>1. ASSUME NEW h \in Hosts, NEW r \in Requests
      PROVE  QueueKept(h) /\ CallLess(h, r) /\ RowLess(h, r) /\ SameReplies(h, r)
  <2>1. QueueKept(h) /\ CallLess(h, r)
    BY KeptCalls DEF Decides, HostPart, GatePart, QueuesKept
  <2>2. SameReplies(h, r)
    BY <1>0 DEF SameReplies
  <2>3. RowLess(h, r)
    BY <1>0 DEF RowDecided, RowLess, For, Pending, SameRequest
  <2> QED BY <2>1, <2>2, <2>3
<1>2. /\ writing'[x].host = asker[i] /\ writing'[x].request = interactions[i].request
      /\ \A w \in Workers \ {x} : writing'[w] = writing[w]
  BY <1>0 DEF Decides, AwaitingFor, Awaiting
<1>3. ASSUME NEW h \in Hosts, NEW r \in Requests, ~ For(i, h, r)
      PROVE  InOneHand(h, r)'
  <2>1. WriteLess(h, r)
    BY <1>2, <1>3 DEF WriteLess, Sending, For
  <2> QED BY <1>1, <1>3, <2>1, QuietHand DEF OneHand
<1>4. ASSUME NEW h \in Hosts, NEW r \in Requests, For(i, h, r)
      PROVE  InOneHand(h, r)'
  <2>1. InOneHand(h, r) /\ Offered(h, r) /\ HasRow(h, r)
    BY <1>0, <1>4 DEF OneHand, Offered, HasRow, RowDecided
  <2>2. Once(inbox'[h], RequestMsg(r)) /\ ~ Unhandled(h, r)'
    BY <1>1, <2>1 DEF InOneHand, QueueKept, CallLess, Unhandled, Queued
  <2>3. ~ Offered(h, r)'
    <3> SUFFICES ASSUME NEW j \in Interactions, Pending(j)', For(j, h, r)' PROVE FALSE
      BY DEF Offered
    <3>1. For(j, h, r) /\ j = i
      BY <1>1, <1>4, <2>1 DEF RowLess, InOneHand
    <3> QED BY <1>0, <3>1 DEF RowDecided, Pending
  <2>4. \A a, b \in Workers : Sending(a, h, r)' /\ Sending(b, h, r)' => a = b
    BY <1>2, <2>1 DEF InOneHand, Sending, BeingWritten
  <2>5. \A a, b \in Interactions : For(a, h, r)' /\ For(b, h, r)' => a = b
    BY <1>1, <2>1 DEF InOneHand, RowLess
  <2>6. Orderly(h) => asks'[h][r].replies = <<>>
    BY <1>0, <2>1 DEF InOneHand
  <2> QED BY <2>2, <2>3, <2>4, <2>5, <2>6 DEF InOneHand, Unhandled, Orderly
<1> QED BY <1>3, <1>4 DEF OneHand

\* An answer leaves a worker, or a callback, that held its request.
LEMMA AnswersHand ==
    ASSUME Sane, OneHand, NEW g \in Hosts, NEW q, NEW v, Answers(g, q, v),
           \A h \in Hosts : \A r \in Requests : WriteLess(h, r),
           Orderly(g) => /\ InOneHand(g, q) => Unhandled(g, q) \/ BeingWritten(g, q)
                         /\ InOneHand(g, q) => ~ Unhandled(g, q)' /\ ~ BeingWritten(g, q)'
    PROVE  OneHand'
<1>0. q \in Requests
  BY DEF Answers, Asked
<1>1. ASSUME NEW h \in Hosts, NEW r \in Requests
      PROVE  QueueKept(h) /\ CallLess(h, r) /\ RowLess(h, r) /\ WriteLess(h, r)
  BY KeptCalls, KeptRows DEF Answers, QueuesKept
<1>2. ASSUME NEW h \in Hosts, NEW r \in Requests, h # g \/ r # q
      PROVE  InOneHand(h, r)'
  <2>1. SameReplies(h, r)
    BY <1>2 DEF Answers, Received, SameReplies
  <2> QED BY <1>1, <1>2, <2>1, QuietHand DEF OneHand
<1>3. ASSUME ~ Orderly(g) PROVE InOneHand(g, q)'
  BY <1>0, <1>1, <1>3, QuietHand DEF OneHand
<1>4. ASSUME Orderly(g) PROVE InOneHand(g, q)'
  <2>1. InOneHand(g, q)
    BY <1>0 DEF OneHand
  <2>2. ~ Unhandled(g, q)' /\ ~ BeingWritten(g, q)'
    BY <1>4, <2>1
  <2>3. ~ Offered(g, q)
    BY <1>4, <2>1 DEF InOneHand, HasRow, Offered
  <2>4. ~ Offered(g, q)'
    BY <1>0, <1>1, <2>3 DEF Offered, RowLess
  <2>5. Once(inbox'[g], RequestMsg(q))
    BY <1>0, <1>1, <2>1 DEF QueueKept, InOneHand
  <2>6. \A a, b \in Interactions : For(a, g, q)' /\ For(b, g, q)' => a = b
    BY <1>0, <1>1, <2>1 DEF InOneHand, RowLess
  <2>7. \A a, b \in Workers : Sending(a, g, q)' /\ Sending(b, g, q)' => a = b
    BY <1>0, <1>1, <2>1 DEF InOneHand, WriteLess
  <2> QED BY <2>2, <2>4, <2>5, <2>6, <2>7 DEF InOneHand, Unhandled
<1> QED BY <1>0, <1>2, <1>3, <1>4 DEF OneHand


LEMMA ForwardsHand ==
    ASSUME Sane, OneHand, NEW w \in Workers, Forwards(w) PROVE OneHand'
<1>1. PICK g \in Hosts, q \in Requests : g = writing[w].host /\ q = writing[w].request
  BY DEF Forwards, Answers, Asked
<1>2. Answers(g, q, writing[w].reply) /\ writing' = [writing EXCEPT ![w] = Idle]
  BY <1>1 DEF Forwards
<1>3. writing'[w] = Idle /\ \A x \in Workers \ {w} : writing'[x] = writing[x]
  BY <1>2 DEF Sane, SystemTypeOK, TaskTypeOK
<1>4. \A h \in Hosts : \A r \in Requests : WriteLess(h, r)
  BY <1>3, KeptWrites DEF WriteLess
<1>5. ASSUME InOneHand(g, q)
      PROVE  BeingWritten(g, q) /\ ~ Unhandled(g, q)' /\ ~ BeingWritten(g, q)'
  <2>1. Sending(w, g, q) /\ BeingWritten(g, q)
    BY <1>1 DEF Sending, BeingWritten
  <2>2. ~ Unhandled(g, q)
    BY <1>5, <2>1 DEF InOneHand
  <2>3. ~ Unhandled(g, q)'
    BY <1>2, <2>2, KeptCalls DEF Answers, QueuesKept, QueueKept, CallLess, Unhandled, Queued
  <2>4. ~ BeingWritten(g, q)'
    <3> SUFFICES ASSUME NEW x \in Workers, Sending(x, g, q)' PROVE FALSE
      BY DEF BeingWritten, Sending
    <3>1. Sending(x, g, q) /\ x = w
      BY <1>4, <1>5, <2>1 DEF WriteLess, InOneHand
    <3> QED BY <1>3, <3>1, NoHost, NoDecision DEF Sending
  <2> QED BY <2>1, <2>3, <2>4
<1> QED BY <1>2, <1>4, <1>5, AnswersHand

LEMMA TurnsAwayHand ==
    ASSUME Sane, OneHand, NEW g \in Hosts, NEW q \in Requests, TurnsAway(g, q) PROVE OneHand'
<1>1. \A h \in Hosts : \A r \in Requests : WriteLess(h, r)
  BY SameWritten DEF TurnsAway
<1>2. ASSUME InOneHand(g, q)
      PROVE  Unhandled(g, q) /\ ~ Unhandled(g, q)' /\ ~ BeingWritten(g, q)'
  <2>1. QueueKept(g) /\ CallLess(g, q) /\ Taken(g, q)
    BY KeptCalls DEF TurnsAway, Answers, QueuesKept, Taken
  <2>2. Unhandled(g, q) /\ ~ Unhandled(g, q)' /\ ~ BeingWritten(g, q)
    BY <1>2, <2>1, TakenHand
  <2> QED BY <1>1, <2>2 DEF WriteLess, Sending, BeingWritten
<1> QED BY <1>1, <1>2, AnswersHand DEF TurnsAway

LEMMA ErrsHand ==
    ASSUME Sane, OneHand, NEW g \in Hosts, NEW q \in Requests, Errs(g, q) PROVE OneHand'
<1>1. \A h \in Hosts : \A r \in Requests : WriteLess(h, r)
  BY SameWritten DEF Errs
<1>2. ~ Orderly(g)
  BY HostFacts DEF Errs, Orderly
<1> QED BY <1>1, <1>2, AnswersHand DEF Errs

LEMMA RestartHand == ASSUME Restart PROVE OneHand'
<1>1. /\ \A h \in Hosts : inbox'[h] = <<>>
      /\ \A s \in Interactive : callbacks'[s] = {}
      /\ \A i \in Interactions : asker'[i] = NoValue
      /\ \A w \in Workers : writing'[w] = Idle
      /\ \A h \in Hosts : \A r \in Requests : asks'[h][r] = NoAsk
  BY DEF Restart
<1>2. ASSUME NEW h \in Hosts, NEW r \in Requests PROVE InOneHand(h, r)'
  <2>1. Once(inbox'[h], RequestMsg(r)) /\ ~ Unhandled(h, r)'
    BY <1>1, EmptySeq DEF Once, Unhandled, Queued, Called, In
  <2>2. ~ HasRow(h, r)' /\ ~ Offered(h, r)'
    BY <1>1, NoHost DEF HasRow, Offered, For
  <2>3. \A w \in Workers : ~ Sending(w, h, r)'
    BY <1>1, NoHost, NoDecision DEF Sending
  <2>4. asks'[h][r].replies = <<>>
    BY <1>1 DEF NoAsk
  <2>5. ~ BeingWritten(h, r)'
    BY <2>3 DEF BeingWritten, Sending
  <2> QED BY <2>1, <2>2, <2>3, <2>4, <2>5 DEF InOneHand, Unhandled, HasRow
<1> QED BY <1>2 DEF OneHand

LEMMA OneHandStep == ASSUME Sane, OneHand, StepKind PROVE OneHand'
<1>1. CASE Plain
  <2>1. ASSUME NEW h \in Hosts, NEW r \in Requests
        PROVE  /\ QueueKept(h) /\ CallLess(h, r) /\ RowLess(h, r)
               /\ WriteLess(h, r) /\ SameReplies(h, r)
    BY <1>1, KeptCalls, KeptRows, LessWritten, KeptReplies
       DEF Plain, HostPart, GatePart, QueuesKept, Sane
  <2> QED BY <2>1, QuietHand DEF OneHand
<1> QED BY <1>1, AsksHand, CallsHand, OpensHand, RefusesHand, DecidesHand, ForwardsHand,
           TurnsAwayHand, ErrsHand, RestartHand DEF StepKind

LEMMA SystemOneHand == SystemSpec => []OneHand
<1>1. SystemInit => OneHand
  <2> SUFFICES ASSUME SystemInit, NEW h \in Hosts, NEW r \in Requests PROVE InOneHand(h, r)
    BY DEF OneHand
  <2>1. Sane
    BY SaneInit
  <2>2. asks[h][r].state = "none" /\ inbox[h] = <<>>
    BY DEF SystemInit, NoAsk
  <2>3. Once(inbox[h], RequestMsg(r))
    BY <2>2, EmptySeq DEF Once
  <2>4. ~ Unhandled(h, r) /\ ~ HasRow(h, r) /\ ~ BeingWritten(h, r)
    BY <2>1, <2>2, InNoHand
  <2> QED BY <2>3, <2>4 DEF InOneHand, Unhandled, HasRow, Offered, BeingWritten, Sending
<1>2. Sane /\ OneHand /\ [SystemNext]_vars => OneHand'
  BY SaneStep, OneHandStep
<1> QED BY <1>1, <1>2, SystemSane, PTL DEF SystemSpec

\* A gateway remembers what it answered, and answers nothing twice.
GatewayAnswersOnce ==
    \A h \in Interactive : \A r \in Requests :
        asks[h][r].replies # <<>> => r \in responded[h] /\ Len(asks[h][r].replies) <= 1

LEMMA GatewayOnceStep ==
    ASSUME Sane, GatewayAnswersOnce, StepKind PROVE GatewayAnswersOnce'
<1>0. SystemTypeOK /\ AskTypeOK /\ \A h \in Interactive : h \in Hosts /\ h # Managed
  BY HostFacts DEF Sane, SystemTypeOK
<1>1. ASSUME ~ Restart, NEW h \in Interactive PROVE responded[h] \subseteq responded'[h]
  <2>1. ASSUME NEW g \in Hosts, NEW q, NEW v, Answers(g, q, v)
        PROVE  responded[h] \subseteq responded'[h]
    BY <1>0, <1>1, <2>1, GateFacts DEF Answers
  <2> QED BY <1>1, <2>1
          DEF StepKind, Plain, GatePart, RespondedKept, Asks, Calls, TurnsAway, Errs, Opens,
              Refuses, Decides, Forwards, gateVars
<1>2. ASSUME ~ Restart, NEW h \in Interactive, NEW r \in Requests, asks'[h][r].replies # <<>>
      PROVE  r \in responded'[h] /\ Len(asks'[h][r].replies) <= 1
  <2>1. CASE SameReplies(h, r)
    BY <1>1, <1>2, <2>1 DEF SameReplies, GatewayAnswersOnce
  <2>2. CASE AskKept(h, r)
    BY <1>0, <2>1, <2>2, KeptStays DEF SameReplies
  <2>3. CASE Asks(h, r)
    BY <1>2, <2>3 DEF Asks
  <2>4. ASSUME NEW v, Answers(h, r, v)
        PROVE  r \in responded'[h] /\ Len(asks'[h][r].replies) <= 1
    <3>1. /\ r \in Asked(h) /\ Received(h, r, v)
          /\ r \notin responded[h] /\ r \in responded'[h]
      BY <1>0, <2>4, GateFacts DEF Answers
    <3>2. asks[h][r].replies = <<>>
      BY <3>1 DEF GatewayAnswersOnce
    <3>3. Len(asks'[h][r].replies) = Len(asks[h][r].replies) + 1
      BY <1>0, <3>1, ReceivedStays
    <3>4. Len(asks'[h][r].replies) = 1
      BY <3>2, <3>3, EmptySeq
    <3> QED BY <3>1, <3>4
  <2> QED BY <1>0, <1>2, <2>2, <2>3, <2>4, AskSteps
<1>3. ASSUME Restart PROVE GatewayAnswersOnce'
  <2>1. \A h \in Hosts : \A r \in Requests : asks'[h][r].replies = <<>>
    BY <1>3 DEF Restart, NoAsk
  <2> QED BY <1>0, <2>1 DEF GatewayAnswersOnce
<1> QED BY <1>2, <1>3 DEF GatewayAnswersOnce

LEMMA OnceStep ==
    ASSUME Sane, OneHand, GatewayAnswersOnce', AtMostOneReply, StepKind PROVE AtMostOneReply'
<1>0. SystemTypeOK /\ AskTypeOK /\ Managed \in Hosts
  BY HostFacts DEF Sane, SystemTypeOK
<1>1. ASSUME NEW h \in Interactive, NEW r \in Requests PROVE Len(asks'[h][r].replies) <= 1
  <2>1. CASE asks'[h][r].replies = <<>>
    BY <2>1, EmptySeq
  <2>2. CASE asks'[h][r].replies # <<>>
    BY <2>2 DEF GatewayAnswersOnce
  <2> QED BY <2>1, <2>2
<1>2. ASSUME ~ Restart, NEW r \in Requests PROVE Len(asks'[Managed][r].replies) <= 1
  <2>1. CASE AskKept(Managed, r)
    BY <1>0, <2>1, KeptStays DEF AtMostOneReply
  <2>2. CASE Asks(Managed, r)
    BY <2>2, EmptySeq DEF Asks
  <2>3. ~ TurnsAway(Managed, r) /\ ~ Errs(Managed, r)
    BY HostFacts DEF TurnsAway, Uncalled, Errs
  <2>4. ASSUME NEW w \in Workers, Forwards(w), writing[w].host = Managed, writing[w].request = r
        PROVE  Len(asks'[Managed][r].replies) <= 1
    <3>1. /\ r \in Asked(Managed) /\ Received(Managed, r, writing[w].reply)
      BY <2>4 DEF Forwards, Answers
    <3>2. asks[Managed][r].replies = <<>>
      BY <1>0, <2>4 DEF OneHand, Orderly, InOneHand, BeingWritten
    <3>3. Len(asks'[Managed][r].replies) = Len(asks[Managed][r].replies) + 1
      BY <1>0, <3>1, ReceivedStays
    <3> QED BY <3>2, <3>3, EmptySeq
  <2> QED BY <1>0, <1>2, <2>1, <2>2, <2>3, <2>4, AnswerSteps
<1>3. ASSUME Restart PROVE AtMostOneReply'
  <2>1. \A h \in Hosts : \A r \in Requests : asks'[h][r].replies = <<>>
    BY <1>3 DEF Restart, NoAsk
  <2> QED BY <2>1, EmptySeq DEF AtMostOneReply
<1> QED BY <1>1, <1>2, <1>3 DEF AtMostOneReply, Hosts

\* An app-server gets one reply to a request, whoever gives it: the terminal, Lark,
\* the expiry worker, or the daemon that turns it down.  The managed link counts on
\* the claim of the row (a request is in one hand at a time), a gateway on what it
\* remembers to have answered, which holds even where a terminal answers with an error
\* behind the back of the claim.
THEOREM SystemOneReply == SystemSpec => []AtMostOneReply
<1>1. SystemInit => GatewayAnswersOnce /\ AtMostOneReply
  <2> SUFFICES ASSUME SystemInit PROVE GatewayAnswersOnce /\ AtMostOneReply
    OBVIOUS
  <2>1. \A h \in Hosts : \A r \in Requests : asks[h][r].replies = <<>>
    BY DEF SystemInit, NoAsk
  <2> QED BY <2>1, EmptySeq, HostFacts DEF GatewayAnswersOnce, AtMostOneReply
<1>2. Sane /\ OneHand /\ GatewayAnswersOnce /\ AtMostOneReply /\ [SystemNext]_vars
        => GatewayAnswersOnce' /\ AtMostOneReply'
  BY SaneStep, GatewayOnceStep, OnceStep
<1> QED BY <1>1, <1>2, SystemSane, SystemOneHand, PTL DEF SystemSpec


-----------------------------------------------------------------------------
(* What is on record is forwarded. *)

\* Row i of session s holds the decision d on request r of h, and session s goes on.
Owed(i, s, h, r, d) ==
    /\ For(i, h, r) /\ interactions[i].status = "resolved"
    /\ interactions[i].decision = d /\ interactions[i].session = s
    /\ Active(s)

\* It is on its way, or was given, or nobody waits for it.
Sent(s, h, r, d) ==
    \/ \E w \in Workers : writing[w] = Awaiting(s, h, r, d)
    \/ asks[h][r].state = "withdrawn"
    \/ asks[h][r].replies = <<d>>

OwedIsSent ==
    \A i \in Interactions, s \in Sessions, h \in Hosts, r \in Requests, d \in Decisions :
        Owed(i, s, h, r, d) => Sent(s, h, r, d)

\* An answer that is given up has nobody who waits for it.
LEMMA LostIsWithdrawn ==
    ASSUME Sane, OneHand, ResolvedIsSettled, "terminal_error" \notin Faults,
           NEW w \in Workers, NEW s \in Sessions, NEW h \in Hosts, NEW r \in Requests,
           NEW d \in Decisions, writing[w] = Awaiting(s, h, r, d), Lost(w),
           sessions'[s].status \in ActiveStatus
    PROVE  asks[h][r].state = "withdrawn"
<1>0. SystemTypeOK /\ AskTypeOK /\ TaskTypeOK
  BY DEF Sane, SystemTypeOK
<1>1. /\ writing[w].session = s /\ writing[w].host = h /\ writing[w].request = r
      /\ writing[w].reply = d /\ d # "interrupt" /\ d # "refused"
  BY DEF Awaiting, Decisions
<1>2. ~ IsIdle(w)
  BY <1>1, NoHost, NoDecision DEF IsIdle
<1>3. r \in Asked(h)
  BY <1>0, <1>1, <1>2, WriteFacts
<1>4. asks[h][r].replies = <<>>
  BY <1>1 DEF OneHand, Orderly, InOneHand, BeingWritten
<1>5. asks[h][r].state \in {"open", "withdrawn"}
  <2>1. asks[h][r].state \in {"open", "answered", "withdrawn"}
    BY <1>0, <1>3, AskedFacts DEF AskRecord
  <2> QED BY <1>4, <2>1 DEF Sane, AsksSane, AskSane
<1>7. hosts[h] # "up" \/ (h \in Interactive /\ r \in responded[h])
  BY <1>1 DEF Lost
<1>8. CASE hosts[h] # "up"
  BY <1>5, <1>8 DEF Sane, AsksSane, AskSane
<1>9. CASE h \in Interactive /\ r \in responded[h]
  BY <1>4, <1>9 DEF ResolvedIsSettled, Settled
<1> QED BY <1>7, <1>8, <1>9

\* What is sent stays sent.
LEMMA SentStays ==
    ASSUME Sane, OneHand, ResolvedIsSettled, AtMostOneReply',
           "terminal_error" \notin Faults, StepKind, ~ Restart,
           NEW s \in Sessions, NEW h \in Hosts, NEW r \in Requests, NEW d \in Decisions,
           Sent(s, h, r, d), sessions'[s].status \in ActiveStatus
    PROVE  Sent(s, h, r, d)'
<1>0. SystemTypeOK /\ AskTypeOK /\ DOMAIN writing = Workers
  BY DEF Sane, SystemTypeOK, TaskTypeOK
<1>1. CASE asks[h][r].state = "withdrawn"
  BY <1>0, <1>1, AskStaysStep DEF AskStays, Sent
<1>2. CASE asks[h][r].replies = <<d>>
  <2>0. Len(asks[h][r].replies) = 1 /\ asks[h][r].replies # <<>>
    BY <1>2, EmptySeq
  <2>1. CASE AskKept(h, r)
    BY <1>0, <1>2, <2>1, KeptStays DEF Sent
  <2>2. ~ Asks(h, r)
    BY <2>0 DEF Asks, Sane, AsksSane, AskSane, NoAsk
  <2>3. ASSUME NEW v, Answers(h, r, v) PROVE FALSE
    <3>1. Len(asks'[h][r].replies) = Len(asks[h][r].replies) + 1
      BY <1>0, <2>3, ReceivedStays DEF Answers
    <3>2. Len(asks'[h][r].replies) <= 1
      BY DEF AtMostOneReply
    <3> QED BY <2>0, <3>1, <3>2
  <2> QED BY <1>0, <2>1, <2>2, <2>3, AskSteps
<1>3. ASSUME NEW w \in Workers, writing[w] = Awaiting(s, h, r, d) PROVE Sent(s, h, r, d)'
  <2>0. /\ ~ IsIdle(w) /\ writing[w].host = h /\ writing[w].request = r /\ writing[w].reply = d
    BY <1>3, NoHost, NoDecision DEF IsIdle, Awaiting
  <2>1. CASE writing'[w] = writing[w]
    BY <1>3, <2>1 DEF Sent, Awaiting
  <2>2. CASE Lost(w)
    <3>1. asks[h][r].state = "withdrawn"
      BY <1>3, <2>2, LostIsWithdrawn
    <3> QED BY <1>1, <3>1
  <2>3. ASSUME Forwards(w) PROVE Sent(s, h, r, d)'
    <3>1. r \in Asked(h) /\ Received(h, r, d)
      BY <2>0, <2>3 DEF Forwards, Answers
    <3>2. asks[h][r].replies = <<>>
      BY <2>0 DEF OneHand, Orderly, InOneHand, BeingWritten
    <3>3. asks'[h][r].replies = Append(<<>>, d)
      BY <1>0, <3>1, <3>2, ReceivedStays
    <3>4. Append(<<>>, d) = <<d>>
      OBVIOUS
    <3> QED BY <3>3, <3>4 DEF Sent
  <2>4. ASSUME NEW q, Refuses(q) PROVE writing'[w] = writing[w]
    <3>1. w # Consumer
      BY <2>0, <2>4 DEF Refuses
    <3> QED BY <1>0, <2>4, <3>1 DEF Refuses
  <2>5. ASSUME NEW i, NEW x, NEW st, NEW y, NEW v, Decides(i, x, st, y, v)
        PROVE  writing'[w] = writing[w]
    <3>1. w # y
      BY <2>0, <2>5 DEF Decides
    <3> QED BY <1>0, <2>5, <3>1 DEF Decides
  <2>6. ASSUME NEW x \in Workers, Forwards(x), x # w PROVE writing'[w] = writing[w]
    BY <1>0, <2>6 DEF Forwards
  <2>7. WritesKept => writing'[w] = writing[w] \/ Lost(w)
    BY DEF WritesKept
  <2> QED BY <2>1, <2>2, <2>3, <2>4, <2>5, <2>6, <2>7
          DEF StepKind, Plain, Asks, Calls, TurnsAway, Errs, Opens, taskVars
<1> QED BY <1>1, <1>2, <1>3 DEF Sent

LEMMA OwedStep ==
    ASSUME Sane, OneHand, ResolvedIsSettled, AtMostOneReply',
           "terminal_error" \notin Faults, OwedIsSent, StepKind, SessionsKept
    PROVE  OwedIsSent'
<1> SUFFICES ASSUME NEW i \in Interactions, NEW s \in Sessions, NEW h \in Hosts,
                    NEW r \in Requests, NEW d \in Decisions, Owed(i, s, h, r, d)'
             PROVE  Sent(s, h, r, d)'
  BY DEF OwedIsSent
<1>1. /\ asker'[i] = h /\ interactions'[i].request = r /\ interactions'[i].status = "resolved"
      /\ interactions'[i].decision = d /\ interactions'[i].session = s
      /\ sessions'[s].status \in ActiveStatus
  BY DEF Owed, For, Active
<1>2. ~ Restart
  BY <1>1, NoHost DEF Restart
<1>3. CASE SameRow(i) /\ asker'[i] = asker[i]
  <2>1. For(i, h, r) /\ interactions[i].status = "resolved" /\ interactions[i].decision = d
        /\ interactions[i].session = s
    BY <1>1, <1>3 DEF SameRow, SameRequest, SameDecision, For
  <2>2. sessions[s].status # "absent"
    BY <2>1 DEF Sane, RowsSane, RowSane
  <2>3. Active(s)
    BY <1>1, <2>2 DEF SessionsKept, Active
  <2>4. Sent(s, h, r, d)
    BY <2>1, <2>3 DEF OwedIsSent, Owed
  <2> QED BY <1>1, <1>2, <2>4, SentStays
<1>4. ASSUME NEW x, NEW st, NEW w \in Workers, NEW v, Decides(i, x, st, w, v)
      PROVE  Sent(s, h, r, d)'
  <2>1. v = d
    BY <1>1, <1>4 DEF Decides, RowDecided
  <2>2. asker[i] = h /\ interactions[i].request = r /\ interactions[i].session = s
    BY <1>1, <1>4 DEF Decides, RowDecided, SameRequest
  <2>3. writing'[w] = Awaiting(s, h, r, d)
    BY <1>4, <2>1, <2>2 DEF Decides, AwaitingFor, Sane, SystemTypeOK, TaskTypeOK
  <2> QED BY <2>3 DEF Sent, Awaiting
<1>5. ASSUME NEW g \in Hosts, NEW q \in Requests, NEW x \in Sessions, NEW k \in Kinds,
             Opens(g, q, i, x, k)
      PROVE  FALSE
  BY <1>1, <1>5, OpensFacts DEF Sane, Opened
<1> QED BY <1>2, <1>3, <1>4, <1>5, RowSteps DEF Sane

LEMMA OwedForwarded ==
    ASSUME Sane, TablesOK, OwedIsSent PROVE RecordedIsForwarded
<1> SUFFICES ASSUME NEW i \in Interactions, interactions[i].status = "resolved",
                    Active(interactions[i].session)
             PROVE  LET h == asker[i]
                        r == interactions[i].request
                    IN \/ BeingWritten(h, r)
                       \/ asks[h][r].state = "withdrawn"
                       \/ asks[h][r].replies = <<interactions[i].decision>>
  BY DEF RecordedIsForwarded
<1>1. asker[i] \in Hosts
  <2>1. asker[i] # NoValue
    BY DEF Sane, RowsSane, RowSane
  <2> QED BY <2>1 DEF Sane, SystemTypeOK, AskerTypeOK
<1>2. /\ interactions[i].session \in Sessions /\ interactions[i].request \in Requests
      /\ interactions[i].decision \in Decisions
  BY DEF TablesOK, TypeOK, DecisionOnRecord, InteractionRow
<1>3. PICK s \in Sessions, h \in Hosts, r \in Requests, d \in Decisions :
        /\ s = interactions[i].session /\ h = asker[i] /\ r = interactions[i].request
        /\ d = interactions[i].decision
  BY <1>1, <1>2
<1>4. Sent(s, h, r, d)
  BY <1>3 DEF OwedIsSent, Owed, For
<1>5. (\E w \in Workers : writing[w] = Awaiting(s, h, r, d)) => BeingWritten(h, r)
  BY DEF BeingWritten, Awaiting
<1> QED BY <1>3, <1>4, <1>5 DEF Sent

\* A decision on record is forwarded, or is on its way, as long as its session is
\* active and its app-server waits for it.  A terminal that answers with an error (in
\* Faults, "terminal_error") sends it without a claim, so the decision that is on
\* record may never be forwarded: the statement is false there.
THEOREM SystemForwarded ==
    ASSUME "terminal_error" \notin Faults PROVE SystemSpec => []RecordedIsForwarded
<1>1. SystemInit => OwedIsSent
  <2> SUFFICES ASSUME SystemInit PROVE OwedIsSent
    OBVIOUS
  <2>1. \A i \in Interactions : interactions[i] = NoInteraction
    BY DEF SystemInit, OrchInit, StoreInit
  <2> QED BY <2>1 DEF OwedIsSent, Owed, NoInteraction
<1>2. Sane /\ OneHand /\ ResolvedIsSettled /\ AtMostOneReply' /\ OwedIsSent /\ [SystemNext]_vars
        => OwedIsSent'
  BY SaneStep, OwedStep
<1>3. Sane /\ TablesOK /\ OwedIsSent => RecordedIsForwarded
  BY OwedForwarded
<1> QED BY <1>1, <1>2, <1>3, SystemSane, SystemTables, SystemOneHand, SystemSettled,
           SystemOneReply, PTL DEF SystemSpec


-----------------------------------------------------------------------------
(* The order in which turns begin and end, as a gateway sees it.            *)

Begins(m, u) == m[1] = "started" /\ m[3] = u
Finishes(m, u) == m[1] = "completed" /\ m[3] = u
FinishesIn(q, j, k, u) == \E n \in j .. k : Finishes(q[n], u)

\* Position 0 of a queue stands for the turn on record.
BegunAt(turn, q, p, u) == IF p = 0 THEN turn = u ELSE Begins(q[p], u)

\* A turn on record, or begun by a message of the queue, ends later in the queue or is
\* one of those in open; it ends before the next one begins.
Ordered(turn, q, open) ==
    \A p \in 0 .. Len(q) : \A u \in Turns : BegunAt(turn, q, p, u) =>
        /\ u \in open \/ FinishesIn(q, p + 1, Len(q), u)
        /\ \A n \in p + 1 .. Len(q) : q[n][1] = "started" => FinishesIn(q, p + 1, n - 1, u)

LEMMA OrderedAppend ==
    ASSUME NEW S, NEW q \in Seq(S), NEW m \in S, NEW turn, NEW open, NEW now,
           Ordered(turn, q, open),
           m[1] = "started" => m[3] \in now /\ \A u \in Turns : u \notin open,
           \A u \in Turns : u \in open => u \in now \/ Finishes(m, u)
    PROVE  Ordered(turn, Append(q, m), now)
<1> DEFINE a == Append(q, m)
           L == Len(q)
<1>1. /\ Len(a) = L + 1 /\ L \in Nat
      /\ \A k \in 1 .. L : a[k] = q[k]
      /\ a[L + 1] = m
  BY AppendFacts
<1> HIDE DEF a
<1>2. ASSUME NEW j \in Nat, j > 0, NEW k \in 0 .. L, NEW u, FinishesIn(q, j, k, u)
      PROVE  FinishesIn(a, j, k, u)
  BY <1>1, <1>2 DEF FinishesIn
<1>3. ASSUME NEW p \in 0 .. L + 1, NEW u \in Turns, BegunAt(turn, a, p, u)
      PROVE  /\ u \in now \/ FinishesIn(a, p + 1, L + 1, u)
             /\ \A n \in p + 1 .. L + 1 : a[n][1] = "started" => FinishesIn(a, p + 1, n - 1, u)
  <2>1. CASE p = L + 1
    <3>1. Begins(m, u)
      BY <1>1, <1>3, <2>1 DEF BegunAt
    <3>2. u \in now
      BY <3>1 DEF Begins
    <3>3. p + 1 .. L + 1 = {}
      BY <1>1, <2>1
    <3> QED BY <3>2, <3>3
  <2>2. CASE p # L + 1
    <3>0. p \in 0 .. L /\ p + 1 \in Nat /\ p + 1 > 0
      BY <1>1, <2>2
    <3>1. BegunAt(turn, q, p, u)
      BY <1>1, <1>3, <3>0 DEF BegunAt
    <3>2. /\ u \in open \/ FinishesIn(q, p + 1, L, u)
          /\ \A n \in p + 1 .. L : q[n][1] = "started" => FinishesIn(q, p + 1, n - 1, u)
      BY <3>0, <3>1 DEF Ordered
    <3>3. Finishes(m, u) => FinishesIn(a, p + 1, L + 1, u)
      BY <1>1, <3>0 DEF FinishesIn
    <3>4. FinishesIn(q, p + 1, L, u) => FinishesIn(a, p + 1, L, u) /\ FinishesIn(a, p + 1, L + 1, u)
      <4>1. FinishesIn(q, p + 1, L, u) => FinishesIn(a, p + 1, L, u)
        BY <1>1, <1>2, <3>0
      <4>2. FinishesIn(a, p + 1, L, u) => FinishesIn(a, p + 1, L + 1, u)
        BY <1>1, <3>0 DEF FinishesIn
      <4> QED BY <4>1, <4>2
    <3>5. ASSUME NEW n \in p + 1 .. L + 1, a[n][1] = "started" PROVE FinishesIn(a, p + 1, n - 1, u)
      <4>1. CASE n = L + 1
        <5>1. FinishesIn(q, p + 1, L, u)
          BY <1>1, <3>2, <3>5, <4>1
        <5> QED BY <1>1, <3>4, <4>1, <5>1
      <4>2. CASE n # L + 1
        <5>1. n \in p + 1 .. L /\ n - 1 \in 0 .. L
          BY <1>1, <3>0, <4>2
        <5>2. FinishesIn(q, p + 1, n - 1, u)
          BY <1>1, <3>0, <3>2, <3>5, <5>1
        <5> QED BY <1>2, <3>0, <5>1, <5>2
      <4> QED BY <4>1, <4>2
    <3> QED BY <3>2, <3>3, <3>4, <3>5
  <2> QED BY <2>1, <2>2
<1> QED BY <1>1, <1>3 DEF Ordered, a

LEMMA OrderedTail ==
    ASSUME NEW S, NEW q \in Seq(S), q # <<>>, NEW turn, NEW open, NEW next,
           Ordered(turn, q, open),
           \A u \in Turns : next = u => Begins(q[1], u) \/ (turn = u /\ ~ Finishes(q[1], u))
    PROVE  Ordered(next, Tail(q), open)
<1> DEFINE t == Tail(q)
           L == Len(q)
<1>1. /\ Len(t) = L - 1 /\ L \in Nat /\ L > 0
      /\ \A k \in 1 .. L - 1 : t[k] = q[k + 1]
  BY TailFacts
<1> HIDE DEF t
<1>2. ASSUME NEW p \in 0 .. L - 1, NEW u \in Turns, BegunAt(next, t, p, u)
      PROVE  /\ u \in open \/ FinishesIn(t, p + 1, L - 1, u)
             /\ \A n \in p + 1 .. L - 1 : t[n][1] = "started" => FinishesIn(t, p + 1, n - 1, u)
  <2>1. PICK o \in 0 .. L :
          /\ BegunAt(turn, q, o, u) /\ o \in {p, p + 1}
          /\ o = p => p = 0 /\ ~ Finishes(q[1], u)
    <3>1. CASE p = 0
      <4>1. next = u
        BY <1>2, <3>1 DEF BegunAt
      <4>2. CASE Begins(q[1], u)
        <5>1. BegunAt(turn, q, 1, u) /\ 1 \in 0 .. L
          BY <1>1, <4>2 DEF BegunAt
        <5> QED BY <3>1, <5>1
      <4>3. CASE turn = u /\ ~ Finishes(q[1], u)
        <5>1. BegunAt(turn, q, 0, u) /\ 0 \in 0 .. L
          BY <1>1, <4>3 DEF BegunAt
        <5> QED BY <3>1, <4>3, <5>1
      <4> QED BY <4>1, <4>2, <4>3
    <3>2. CASE p # 0
      <4>1. p + 1 \in 0 .. L /\ p + 1 # 0 /\ p \in 1 .. L - 1
        BY <1>1, <3>2
      <4>2. BegunAt(turn, q, p + 1, u)
        BY <1>1, <1>2, <3>2, <4>1 DEF BegunAt
      <4> QED BY <4>1, <4>2
    <3> QED BY <3>1, <3>2
  <2>2. ASSUME NEW k \in 0 .. L, FinishesIn(q, o + 1, k, u) PROVE FinishesIn(t, p + 1, k - 1, u)
    <3>1. PICK n \in o + 1 .. k : Finishes(q[n], u)
      BY <2>2 DEF FinishesIn
    <3>2. n # 1 \/ o # p
      BY <2>1, <3>1
    <3>3. n - 1 \in p + 1 .. k - 1 /\ n - 1 \in 1 .. L - 1 /\ n = (n - 1) + 1
      BY <1>1, <2>1, <3>1, <3>2
    <3>4. Finishes(t[n - 1], u)
      BY <1>1, <3>1, <3>3
    <3> QED BY <3>3, <3>4 DEF FinishesIn
  <2>3. /\ u \in open \/ FinishesIn(q, o + 1, L, u)
        /\ \A n \in o + 1 .. L : q[n][1] = "started" => FinishesIn(q, o + 1, n - 1, u)
    BY <2>1 DEF Ordered
  <2>4. u \in open \/ FinishesIn(t, p + 1, L - 1, u)
    BY <1>1, <2>2, <2>3
  <2>5. ASSUME NEW n \in p + 1 .. L - 1, t[n][1] = "started" PROVE FinishesIn(t, p + 1, n - 1, u)
    <3>1. n + 1 \in o + 1 .. L /\ n \in 1 .. L - 1 /\ n \in 0 .. L /\ (n + 1) - 1 = n
      BY <1>1, <2>1
    <3>2. q[n + 1][1] = "started"
      BY <1>1, <2>5, <3>1
    <3>3. FinishesIn(q, o + 1, n, u)
      BY <2>3, <3>1, <3>2
    <3> QED BY <2>2, <3>1, <3>3
  <2> QED BY <2>4, <2>5
<1> QED BY <1>1, <1>2 DEF Ordered, t

LEMMA OrderedOther ==
    ASSUME NEW turn, NEW q, NEW open, NEW S, q \in Seq(S)
    PROVE  /\ Ordered(turn, q, open) /\ q # <<>> /\ q[1][1] = "started" => turn \notin Turns
           /\ \A now : Ordered(turn, q, open) /\ (\A u \in Turns : u \in open => u \in now)
                         => Ordered(turn, q, now)
           /\ Ordered(turn, q, open) => Ordered(NoValue, q, open)
           /\ turn \notin Turns /\ (\A k \in 1 .. Len(q) : q[k][1] # "started")
                         => Ordered(turn, q, open)
<1>0. Len(q) \in Nat
  BY LenProperties
<1>1. ASSUME Ordered(turn, q, open), q # <<>>, q[1][1] = "started" PROVE turn \notin Turns
  <2>1. Len(q) > 0
    BY <1>0, <1>1, EmptySeq
  <2>2. 0 \in 0 .. Len(q) /\ 1 \in 0 + 1 .. Len(q)
    BY <1>0, <2>1
  <2>3. \A u \in Turns : BegunAt(turn, q, 0, u) => FinishesIn(q, 0 + 1, 1 - 1, u)
    BY <1>1, <2>2 DEF Ordered
  <2>4. \A u : ~ FinishesIn(q, 0 + 1, 1 - 1, u)
    BY DEF FinishesIn
  <2> QED BY <2>3, <2>4 DEF BegunAt
<1>2. ASSUME Ordered(turn, q, open) PROVE Ordered(NoValue, q, open)
  <2>1. \A p \in 0 .. Len(q) : \A u \in Turns : BegunAt(NoValue, q, p, u) => BegunAt(turn, q, p, u)
    BY NoValueAssumption DEF BegunAt
  <2> QED BY <1>2, <2>1 DEF Ordered
<1>3. ASSUME turn \notin Turns, \A k \in 1 .. Len(q) : q[k][1] # "started"
      PROVE  Ordered(turn, q, open)
  <2>1. \A p \in 0 .. Len(q) : \A u \in Turns : ~ BegunAt(turn, q, p, u)
    BY <1>0, <1>3 DEF BegunAt, Begins
  <2> QED BY <2>1 DEF Ordered
<1>4. ASSUME NEW now, Ordered(turn, q, open), \A u \in Turns : u \in open => u \in now
      PROVE  Ordered(turn, q, now)
  BY <1>4 DEF Ordered
<1> QED BY <1>1, <1>2, <1>3, <1>4


-----------------------------------------------------------------------------
(* Sessions, their threads and their turns. *)

\* No two sessions share a thread.
ThreadsApart ==
    \A s, q \in Sessions : turns[s].thread # NoValue /\ turns[s].thread = turns[q].thread => s = q

\* A row is bound as soon as its session has a thread, and has no turn before.
Threaded(q) ==
    /\ sessions[q].thread \in {NoValue, turns[q].thread}
    /\ Active(q) => sessions[q].thread = turns[q].thread
    /\ Active(q) /\ turns[q].thread = NoValue => sessions[q].status = "starting"
    /\ sessions[q].status \in {"absent", "starting"} => sessions[q].turn = NoValue
    /\ sessions[q].status = "absent" => turns[q].thread = NoValue /\ creating[q] = "no"
    /\ creating[q] = "turn" => turns[q].thread # NoValue
    /\ q \notin Interactive => turns[q].thread \in {NoValue, q}
    /\ q \in Interactive => creating[q] = "no" /\ (sessions[q].status = "absent" => hosts[q] = "off")

\* A row is of the session that its request was made for, in the thread of the session.
RowAttributed(i) ==
    \A h \in Hosts : \A r \in Requests :
        For(i, h, r) => interactions[i].session = asks[h][r].session /\ ~ Elsewhere(h, r)

RowThreaded(i) ==
    interactions[i].status # "absent" => turns[interactions[i].session].thread # NoValue

\* What an app-server says of a turn is about one of its sessions, and a turn that it
\* says is over is over.
IsTurn(m) == m[1] \in {"started", "completed"}
MessageSane(h, m) ==
    LET q == m[3][1] IN
    IsTurn(m) => /\ HostOf(q) = h
                 /\ m[2] = turns[q].thread /\ m[2] # NoValue
                 /\ m[3][2] <= turns[q].number
                 /\ m[1] = "completed" => ~ (turns[q].on /\ m[3] = CurrentTurn(q))

MessagesSane == \A h \in Hosts : \A m \in In(inbox[h]) : MessageSane(h, m)

\* The turns that need not have a message of their end in the queue.
OpenTurns(s) ==
    IF hosts[s] # "up" THEN Turns ELSE IF turns[s].on THEN {CurrentTurn(s)} ELSE {}

InOrder(s) == Active(s) => Ordered(sessions[s].turn, inbox[s], OpenTurns(s))

TurnsSane ==
    /\ \A q \in Sessions : Threaded(q)
    /\ \A i \in Interactions : RowThreaded(i) /\ RowAttributed(i)
    /\ MessagesSane
    /\ \A s \in Interactive : InOrder(s)
    /\ PendingOfCurrentTurn

-----------------------------------------------------------------------------
(* Handlers that leave threads, and the turns of TUIs, as they are. *)

RowSteady(q) ==
    /\ sessions'[q].thread = sessions[q].thread
    /\ q \in Interactive => sessions'[q].turn = sessions[q].turn
    /\ sessions'[q].status \in {"absent", "starting"} =>
         sessions'[q].turn = sessions[q].turn /\ sessions[q].status \in {"absent", "starting"}
    /\ sessions'[q].status = "absent" => sessions[q].status = "absent"
    /\ sessions'[q].status \in ActiveStatus =>
         \/ Active(q)
         \/ q \notin Interactive /\ sessions[q].status = "absent" /\ sessions'[q].status = "starting"
    /\ sessions'[q].status \in ActiveStatus /\ sessions[q].status = "starting" =>
         sessions'[q].status = "starting" \/ turns[q].thread # NoValue

\* No row is inserted into the table of interactions.
NoNewRow ==
    \A i \in Interactions : interactions'[i].status # "absent" => interactions[i].status # "absent"

RowsSteady == \A q \in Sessions : RowSteady(q)

LEMMA SameSteady == ASSUME NEW q \in Sessions, sessions'[q] = sessions[q] PROVE RowSteady(q)
  BY DEF RowSteady, Active

\* The status of a session changes: it ends, or it is active and has a thread.
LEMMA StatusSteady ==
    ASSUME TypeOK, NEW q \in Sessions, NEW st,
           sessions'[q] = [sessions[q] EXCEPT !.status = st],
           \/ st \in TerminalStatus
           \/ st \in ActiveStatus \ {"starting"} /\ Active(q) /\ turns[q].thread # NoValue
    PROVE  RowSteady(q)
<1>1. sessions[q] \in SessionRow
  BY RowsType
<1>2. /\ sessions'[q].status = st
      /\ sessions'[q].thread = sessions[q].thread /\ sessions'[q].turn = sessions[q].turn
  BY <1>1 DEF SessionRow
<1> QED BY <1>2 DEF RowSteady, Active, ActiveStatus, TerminalStatus

LEMMA KeptNoRow == RowsKept => NoNewRow
  BY DEF RowsKept, SameRow, NoNewRow, Pending

LEMMA SteadyClaim ==
    ASSUME OrchTypeOK, NEW S, NEW st, NEW ps, ClaimTerminal(S, st, ps) PROVE RowsSteady
<1>1. TypeOK /\ st \in TerminalStatus
  BY DEF OrchTypeOK, ClaimTerminal
<1>2. ASSUME NEW q \in Sessions PROVE RowSteady(q)
  <2>1. CASE q \in S
    <3>1. sessions'[q] = [sessions[q] EXCEPT !.status = st]
      BY <2>1 DEF ClaimTerminal
    <3> QED BY <1>1, <3>1, StatusSteady
  <2>2. CASE q \notin S
    <3>1. sessions'[q] = sessions[q]
      BY <2>2 DEF ClaimTerminal
    <3> QED BY <3>1, SameSteady
  <2> QED BY <2>1, <2>2
<1> QED BY <1>2 DEF RowsSteady

LEMMA SteadyIdle == UNCHANGED sessions => RowsSteady
  BY SameSteady DEF RowsSteady

LEMMA SteadyEnd ==
    ASSUME OrchTypeOK
    PROVE  /\ \A S, st : EndSessions(S, st) => RowsSteady /\ NoNewRow
           /\ \A s, st : EndIfActive(s, st) => RowsSteady /\ NoNewRow
           /\ \A s : FailStartup(s) => RowsSteady /\ NoNewRow
           /\ InterruptAll => RowsSteady /\ NoNewRow
<1>1. \A S, st : EndSessions(S, st) => RowsSteady
  BY SteadyClaim DEF EndSessions
<1>2. \A s : FailStartup(s) => RowsSteady
  BY SteadyClaim, SteadyIdle DEF FailStartup, orchVars
<1>3. \A s, st : EndIfActive(s, st) => RowsSteady
  BY <1>1, SteadyIdle DEF EndIfActive, orchVars
<1>4. InterruptAll => RowsSteady
  BY <1>1, SteadyIdle DEF InterruptAll, orchVars
<1> QED BY <1>1, <1>2, <1>3, <1>4, RowsEnd, RowsFail, RowsEndIfActive, RowsInterruptAll, KeptNoRow

\* A session has a thread when an interaction of it is closed or opened.
LEMMA SteadyMove ==
    ASSUME OrchTypeOK, NEW s \in Sessions, turns[s].thread # NoValue, Active(s),
           NEW st \in ActiveStatus \ {"starting"},
           sessions' = [sessions EXCEPT ![s] = [sessions[s] EXCEPT !.status = st]]
    PROVE  RowsSteady
<1>0. TypeOK /\ DOMAIN sessions = Sessions
  BY DEF OrchTypeOK, TypeOK
<1>1. sessions'[s] = [sessions[s] EXCEPT !.status = st]
  BY <1>0
<1>2. RowSteady(s)
  BY <1>0, <1>1, StatusSteady
<1>3. \A q \in Sessions \ {s} : sessions'[q] = sessions[q]
  BY <1>0
<1> QED BY <1>2, <1>3, SameSteady DEF RowsSteady

LEMMA SteadyClose ==
    ASSUME OrchTypeOK, NEW i \in Interactions, RowThreaded(i), NEW row, CloseAndRefresh(i, row)
    PROVE  RowsSteady
<1> DEFINE s == interactions[i].session
           st == RefreshedStatus(PendingOf(s) \ {i})
<1>1. s \in Sessions /\ turns[s].thread # NoValue
  BY DEF OrchTypeOK, TypeOK, RowThreaded, CloseAndRefresh, Pending
<1>2. st \in ActiveStatus \ {"starting"}
  BY DEF RefreshedStatus, ActiveStatus
<1>3. \/ Active(s) /\ sessions' = [sessions EXCEPT ![s] = [@ EXCEPT !.status = st]]
      \/ UNCHANGED sessions
  BY DEF CloseAndRefresh
<1> HIDE DEF s, st
<1> QED BY <1>1, <1>2, <1>3, SteadyMove, SteadyIdle

LEMMA SteadyDecide ==
    ASSUME OrchTypeOK, NEW i \in Interactions, RowThreaded(i), NEW d, NEW a \in Actors,
           NEW st \in {"resolved", "expired"}, Decide(i, d, a, st)
    PROVE  RowsSteady /\ NoNewRow
<1>1. RowDecided(i, d, st)
  BY RowDecide
<1>2. NoNewRow
  BY <1>1 DEF NoNewRow, RowDecided, Pending
<1>3. RowsSteady
  BY SteadyClose DEF Decide, Resolve
<1> QED BY <1>2, <1>3

LEMMA SteadyResolved ==
    ASSUME OrchTypeOK, \A i \in Interactions : RowThreaded(i), NEW r \in Requests,
           RequestResolved(r)
    PROVE  RowsSteady /\ NoNewRow
<1>1. NoNewRow
  BY RowsResolved, KeptNoRow
<1>2. RowsSteady
  <2>1. LiveByRequest(r) \subseteq Interactions
    BY DEF LiveByRequest, OrchTypeOK
  <2>2. CASE UNCHANGED sessions
    BY <2>2, SteadyIdle
  <2>3. CASE \E i \in LiveByRequest(r) : CancelInteraction(i)
    BY <2>1, <2>3, SteadyClose DEF CancelInteraction
  <2> QED BY <2>2, <2>3 DEF RequestResolved, storeVars, orchVars
<1> QED BY <1>1, <1>2

LEMMA SteadyOpen ==
    ASSUME OrchTypeOK, NEW i \in Interactions, NEW s \in Sessions, NEW r, NEW k,
           OpenLive(i, s, r, k), turns[s].thread # NoValue
    PROVE  RowsSteady
<1> DEFINE st == IF k = "user_input" THEN "waiting_for_input" ELSE "waiting_for_approval"
<1>1. Active(s) /\ sessions' = [sessions EXCEPT ![s] = [@ EXCEPT !.status = st]]
  BY DEF OpenLive, OpenInteraction
<1>2. st \in ActiveStatus \ {"starting"}
  BY DEF ActiveStatus
<1> HIDE DEF st
<1> QED BY <1>1, <1>2, SteadyMove

\* Managed sessions, which create_session inserts and whose turns it binds.
LEMMA SteadyManaged ==
    ASSUME OrchTypeOK, NEW s \in Sessions, s \notin Interactive
    PROVE  /\ CreateSession(s) => RowsSteady /\ NoNewRow
           /\ \A u : BindTurn(s, u) /\ turns[s].thread # NoValue => RowsSteady /\ NoNewRow
<1>0. TypeOK /\ DOMAIN sessions = Sessions /\ sessions[s] \in SessionRow
  BY RowsType DEF OrchTypeOK, TypeOK
<1>1. ASSUME NEW y \in SessionRow, sessions' = [sessions EXCEPT ![s] = y],
             y.thread = sessions[s].thread,
             \/ y.status = "starting" /\ y.turn = sessions[s].turn /\ sessions[s].status = "absent"
             \/ y.status = "running" /\ Active(s) /\ turns[s].thread # NoValue
      PROVE  RowsSteady
  <2>1. sessions'[s] = y /\ \A q \in Sessions \ {s} : sessions'[q] = sessions[q]
    BY <1>0, <1>1
  <2>2. RowSteady(s)
    BY <1>1, <2>1 DEF RowSteady, Active, ActiveStatus
  <2> QED BY <2>1, <2>2, SameSteady DEF RowsSteady
<1>2. ASSUME CreateSession(s) PROVE RowsSteady /\ NoNewRow
  <2> DEFINE y == [sessions[s] EXCEPT !.status = "starting"]
  <2>1. /\ y \in SessionRow /\ y.status = "starting"
        /\ y.thread = sessions[s].thread /\ y.turn = sessions[s].turn
    BY <1>0 DEF SessionRow, ActiveStatus
  <2>2. /\ sessions' = [sessions EXCEPT ![s] = y] /\ sessions[s].status = "absent"
        /\ UNCHANGED interactions
    BY <1>2 DEF CreateSession
  <2> HIDE DEF y
  <2> QED BY <1>1, <2>1, <2>2 DEF NoNewRow
<1>3. ASSUME NEW u, BindTurn(s, u), turns[s].thread # NoValue PROVE RowsSteady /\ NoNewRow
  <2> DEFINE y == [sessions[s] EXCEPT !.status = "running", !.turn = u]
  <2>1. /\ sessions' = [sessions EXCEPT ![s] = y] /\ Active(s) /\ UNCHANGED interactions
    BY <1>3 DEF BindTurn, UpdateSessionIfStatus, Active
  <2>2. y.thread = sessions[s].thread /\ y.status = "running"
    BY <1>0 DEF SessionRow
  <2> HIDE DEF y
  <2>3. sessions'[s] = y /\ \A q \in Sessions \ {s} : sessions'[q] = sessions[q]
    BY <1>0, <2>1
  <2>4. RowSteady(s)
    BY <1>3, <2>1, <2>2, <2>3 DEF RowSteady, Active, ActiveStatus
  <2> QED BY <2>1, <2>3, <2>4, SameSteady DEF RowsSteady, NoNewRow
<1> QED BY <1>2, <1>3


-----------------------------------------------------------------------------
(* Steps that leave threads, turns and what is said of them as they are.    *)

TurnsSteady ==
    \A q \in Sessions : /\ turns'[q].thread = turns[q].thread
                        /\ turns'[q].on = turns[q].on /\ turns'[q].number = turns[q].number

\* No gateway starts.
HostsSteady ==
    \A s \in Interactive : hosts'[s] = hosts[s] \/ (hosts[s] # "off" /\ hosts'[s] # "up")

\* The queue of a gateway gets, or loses, a message that is not about a turn.
BoxSteady(s) ==
    \/ inbox'[s] = inbox[s]
    \/ \E m : ~ IsTurn(m) /\ inbox'[s] = Append(inbox[s], m)
    \/ inbox[s] # <<>> /\ ~ IsTurn(Head(inbox[s])) /\ inbox'[s] = Tail(inbox[s])

BoxesSteady ==
    /\ \A s \in Interactive : BoxSteady(s)
    /\ \A h \in Hosts : \A m \in In(inbox'[h]) : IsTurn(m) => m \in In(inbox[h])

\* A row that is inserted is about the turn on record of its session.
RowFits(i) ==
    LET s == interactions'[i].session
        ask == asks[asker'[i]][interactions'[i].request]
    IN
    /\ turns[s].thread # NoValue /\ ask.session = s /\ ask.turn # NoValue
    /\ s \in Interactive => ask.turn = sessions[s].turn

NewRowsFit ==
    \A i \in Interactions :
        interactions[i].status = "absent" /\ interactions'[i].status # "absent" => RowFits(i)

CreationSteady ==
    \A q \in Sessions :
        \/ creating'[q] = creating[q]
        \/ q \notin Interactive /\ creating'[q] # "turn" /\ sessions'[q].status # "absent"

Steady ==
    RowsSteady /\ NewRowsFit /\ TurnsSteady /\ HostsSteady /\ BoxesSteady /\ CreationSteady

LEMMA NoRowFits == NoNewRow => NewRowsFit
  BY DEF NoNewRow, NewRowsFit

LEMMA SameRows == UNCHANGED orchVars => RowsSteady /\ NoNewRow
  BY SteadyIdle DEF orchVars, NoNewRow

LEMMA SameBoxes == UNCHANGED inbox => BoxesSteady
  BY DEF BoxesSteady, BoxSteady

LEMMA SameTurns == UNCHANGED turns => TurnsSteady
  BY DEF TurnsSteady

LEMMA InterruptSteady ==
    ASSUME TurnTypeOK, NEW s, Interrupt(s) PROVE TurnsSteady
<1>1. CASE UNCHANGED turns
  BY <1>1, SameTurns
<1>2. CASE s \in Sessions /\ turns' = [turns EXCEPT ![s] = [@ EXCEPT !.stop = TRUE]]
  <2> DEFINE y == [turns[s] EXCEPT !.stop = TRUE]
  <2>1. y.thread = turns[s].thread /\ y.on = turns[s].on /\ y.number = turns[s].number
    BY <1>2 DEF TurnTypeOK, TurnRecord
  <2>2. turns'[s] = y /\ \A q \in Sessions \ {s} : turns'[q] = turns[q]
    BY <1>2, TurnOf
  <2> QED BY <2>1, <2>2 DEF TurnsSteady
<1>3. CASE s \notin Sessions /\ turns' = [turns EXCEPT ![s] = [@ EXCEPT !.stop = TRUE]]
  BY <1>3 DEF TurnsSteady, TurnTypeOK
<1> QED BY <1>1, <1>2, <1>3 DEF Interrupt

LEMMA PostSteady ==
    ASSUME InboxTypeOK, NEW h \in Hosts, NEW m, ~ IsTurn(m), Post(h, m) PROVE BoxesSteady
<1>1. /\ inbox'[h] = Append(inbox[h], m) /\ In(inbox'[h]) = In(inbox[h]) \cup {m}
      /\ \A g \in Hosts \ {h} : inbox'[g] = inbox[g]
  BY PostFacts
<1>2. \A s \in Interactive : BoxSteady(s)
  BY <1>1, HostFacts DEF BoxSteady
<1>3. \A g \in Hosts : \A x \in In(inbox'[g]) : IsTurn(x) => x \in In(inbox[g])
  BY <1>1
<1> QED BY <1>2, <1>3 DEF BoxesSteady

LEMMA TakeSteady ==
    ASSUME InboxTypeOK, NEW h \in Hosts, inbox[h] # <<>>, inbox' = [inbox EXCEPT ![h] = Tail(@)],
           h = Managed \/ ~ IsTurn(Head(inbox[h]))
    PROVE  BoxesSteady
<1>1. In(inbox'[h]) \subseteq In(inbox[h]) /\ \A g \in Hosts \ {h} : inbox'[g] = inbox[g]
  BY TakeFacts
<1>2. inbox'[h] = Tail(inbox[h])
  BY DEF InboxTypeOK
<1>3. \A s \in Interactive : BoxSteady(s)
  BY <1>1, <1>2, HostFacts DEF BoxSteady
<1> QED BY <1>1, <1>3 DEF BoxesSteady

LEMMA PickSteady ==
    ASSUME InboxTypeOK, NEW k \in 1 .. Len(inbox[Managed]),
           inbox' = [inbox EXCEPT ![Managed] = Without(inbox[Managed], k)]
    PROVE  BoxesSteady /\ inbox[Managed][k] \in In(inbox[Managed])
<1> DEFINE q == inbox[Managed]
           n == Len(q)
           p == SubSeq(q, 1, k - 1) \o SubSeq(q, k + 1, n)
<1>0. Managed \in Hosts
  BY HostFacts
<1>1. q \in Seq(Message(Managed)) /\ n \in Nat
  BY <1>0, LenProperties DEF InboxTypeOK
<1>2. /\ Len(p) = n - 1
      /\ \A j \in 1 .. n - 1 : p[j] = IF j < k THEN q[j] ELSE q[j + 1]
  BY <1>1, WithoutFacts
<1>3. inbox'[Managed] = p /\ \A g \in Hosts \ {Managed} : inbox'[g] = inbox[g]
  BY <1>0 DEF InboxTypeOK, Without
<1>4. k \in 1 .. n /\ n = Len(q)
  OBVIOUS
<1> HIDE DEF p, n, q
<1>5. q[k] \in In(q) /\ In(p) \subseteq In(q)
  BY <1>1, <1>2, <1>4, PickFacts, ZenonT(30)
<1>6. \A s \in Interactive : BoxSteady(s)
  BY <1>3, HostFacts DEF BoxSteady
<1>7. \A g \in Hosts : In(inbox'[g]) \subseteq In(inbox[g])
  BY <1>3, <1>5 DEF q
<1> QED BY <1>5, <1>6, <1>7 DEF BoxesSteady, q

LEMMA SendSteady ==
    ASSUME InboxTypeOK, NEW h \in Hosts, NEW r, NEW v, Send(h, r, v) PROVE BoxesSteady
<1>1. ~ IsTurn(<<"resolved", r>>)
  BY DEF IsTurn
<1> QED BY <1>1, PostSteady, SameBoxes DEF Send, Receive

\* Steps of tasks that do not touch threads, gateways or what turns are created.
LEMMA TaskSteady ==
    ASSUME RowsSteady, NoNewRow, TurnsSteady, BoxesSteady, UNCHANGED <<hosts, creating>>
    PROVE  Steady
  BY NoRowFits DEF Steady, HostsSteady, CreationSteady

LEMMA AskSteady ==
    ASSUME SystemTypeOK, NEW s \in Sessions, NEW r \in Requests, NEW t, NEW u, NEW k,
           Asking(s, r, t, u, k)
    PROVE  Steady
<1>1. HostOf(s) \in Hosts /\ InboxTypeOK /\ ~ IsTurn(<<"request", r>>)
  BY HostFacts DEF SystemTypeOK, IsTurn
<1> QED BY <1>1, PostSteady, SameRows, SameTurns, TaskSteady DEF Asking, NewRequest, taskVars

LEMMA WithdrawSteady ==
    ASSUME SystemTypeOK, NEW h \in Hosts, NEW r \in Requests, Withdraw(h, r) PROVE Steady
<1>1. InboxTypeOK /\ ~ IsTurn(<<"resolved", r>>)
  BY DEF SystemTypeOK, IsTurn
<1> QED BY <1>1, PostSteady, SameRows, SameTurns, TaskSteady DEF Withdraw, taskVars

\* create_session, but for the step at which start_thread answers.
LEMMA CreateSteady ==
    ASSUME SystemTypeOK, TurnsSane, NEW s \in Sessions \ Interactive,
           BeginCreate(s) \/ TurnBound(s) \/ StartupFails(s)
    PROVE  Steady
<1>0. OrchTypeOK /\ Threaded(s) /\ DOMAIN creating = Sessions
  BY DEF SystemTypeOK, TurnsSane, TaskTypeOK
<1>1. s \notin Interactive
  OBVIOUS
<1>2. UNCHANGED <<hosts, turns, inbox>>
  BY DEF BeginCreate, TurnBound, StartupFails, hostVars
<1>3. /\ \A q \in Sessions \ {s} : creating'[q] = creating[q]
      /\ creating'[s] # "turn"
  BY <1>0 DEF BeginCreate, TurnBound, StartupFails
<1>4. CASE BeginCreate(s)
  <2>1. RowsSteady /\ NoNewRow
    BY <1>0, <1>1, <1>4, SteadyManaged DEF BeginCreate
  <2>2. CreationSteady
    <3>1. sessions'[s].status = "starting"
      BY <1>0, <1>4, RowsType DEF BeginCreate, CreateSession, OrchTypeOK, TypeOK, SessionRow
    <3> QED BY <1>1, <1>3, <3>1 DEF CreationSteady
  <2> QED BY <1>2, <2>1, <2>2, NoRowFits, SameTurns, SameBoxes
          DEF Steady, HostsSteady, CreationSteady
<1>5. CASE TurnBound(s) \/ StartupFails(s)
  <2>1. RowsSteady /\ NoNewRow
    <3>1. CASE FailStartup(s)
      BY <1>0, <3>1, SteadyEnd
    <3>2. CASE TurnBound(s) /\ BindTurn(s, CurrentTurn(s))
      <4>1. turns[s].thread # NoValue
        BY <1>0, <3>2 DEF TurnBound, Threaded
      <4> QED BY <1>0, <1>1, <3>2, <4>1, SteadyManaged
    <3> QED BY <1>5, <3>1, <3>2 DEF TurnBound, StartupFails
  <2>2. sessions'[s].status # "absent"
    BY <1>0, <1>5, <2>1 DEF TurnBound, StartupFails, Threaded, RowsSteady, RowSteady
  <2> QED BY <1>1, <1>2, <1>3, <2>1, <2>2, NoRowFits, SameTurns, SameBoxes
          DEF Steady, HostsSteady, CreationSteady
<1> QED BY <1>4, <1>5

LEMMA EndsSteady ==
    ASSUME SystemTypeOK, UNCHANGED creating, UNCHANGED inbox, HostsSteady, TurnsSteady,
           \/ \E s, st : EndIfActive(s, st) \/ EndSessions({s}, st)
           \/ InterruptAll
    PROVE  Steady
<1>1. RowsSteady /\ NoNewRow
  BY SteadyEnd DEF SystemTypeOK
<1> QED BY <1>1, NoRowFits, SameBoxes DEF Steady, CreationSteady

LEMMA SameHostsSteady == UNCHANGED hosts => HostsSteady
  BY DEF HostsSteady

LEMMA OrchestratorEndsSteady ==
    ASSUME SystemTypeOK, MonitorClosed \/ ConsumerFailed \/ FinishInterrupt
                         \/ (\E w \in Workers : FailWrite(w))
                         \/ (\E s \in Sessions : CancelSession(s))
    PROVE  Steady
<1>0. TurnTypeOK /\ HostTypeOK
  BY DEF SystemTypeOK
<1>1. CASE MonitorClosed
  <2>1. HostsSteady
    BY <1>0, <1>1, HostFacts DEF MonitorClosed, HostsSteady, HostTypeOK
  <2> QED BY <1>1, <2>1, SameTurns, EndsSteady DEF MonitorClosed, taskVars
<1>2. CASE ConsumerFailed
  BY <1>2, SameHostsSteady, SameTurns, EndsSteady DEF ConsumerFailed, hostVars
<1>3. CASE FinishInterrupt
  BY <1>3, SameHostsSteady, SameTurns, EndsSteady DEF FinishInterrupt, hostVars
<1>4. ASSUME NEW w \in Workers, FailWrite(w) PROVE Steady
  BY <1>4, SameHostsSteady, SameTurns, EndsSteady DEF FailWrite, hostVars
<1>5. ASSUME NEW s \in Sessions, CancelSession(s) PROVE Steady
  BY <1>0, <1>5, SameHostsSteady, InterruptSteady, EndsSteady DEF CancelSession, taskVars
<1> QED BY <1>1, <1>2, <1>3, <1>4, <1>5


-----------------------------------------------------------------------------
(* Steady steps that open, decide or answer. *)

LEMMA FoundByThread ==
    ASSUME TypeOK, ThreadsApart, TurnsSane, NEW s \in Sessions, turns[s].thread # NoValue
    PROVE  /\ SessionOfThread(turns[s].thread) \subseteq {s}
           /\ Active(s) => s \in SessionOfThread(turns[s].thread)
<1> DEFINE t == turns[s].thread
<1>1. \A q \in Sessions : sessions[q].thread = t => q = s
  BY DEF ThreadsApart, TurnsSane, Threaded
<1>2. Active(s) => sessions[s].thread = t
  BY DEF TurnsSane, Threaded
<1>3. s \in Nat
  BY KeysAssumption
<1> HIDE DEF t
<1>4. \A q \in Sessions : sessions[q].thread = t => s <= q
  BY <1>1, <1>3
<1>5. SessionOfThread(t) \subseteq {s}
  BY <1>1 DEF SessionOfThread
<1>6. Active(s) => s \in SessionOfThread(t)
  BY <1>2, <1>4 DEF SessionOfThread
<1> QED BY <1>5, <1>6 DEF t

LEMMA TuiOfHost ==
    ASSUME NEW s \in Interactive, NEW q, HostOf(q) = s PROVE q = s
  BY HostFacts DEF HostOf

LEMMA OneOfThread ==
    ASSUME NEW t, NEW s \in SessionOfThread(t), NEW q \in SessionOfThread(t) PROVE s = q
<1>1. s \in Nat /\ q \in Nat /\ s <= q /\ q <= s
  BY KeysAssumption DEF SessionOfThread
<1> QED BY <1>1

\* No session is bound to a thread that its TUI works in beside the first.
LEMMA ForeignThread ==
    ASSUME AsksSane, NEW q \in Sessions PROVE turns[q].thread \notin OtherThreads
  BY OthersAssumption, NoValueAssumption DEF AsksSane, FirstThreads

LEMMA OpenSteady ==
    ASSUME SystemTypeOK, NEW i \in Interactions, NEW s \in Sessions, NEW r \in Requests,
           NEW k \in Kinds, OpenLive(i, s, r, k), NEW h \in Hosts,
           asker' = [asker EXCEPT ![i] = h], turns[s].thread # NoValue,
           asks[h][r].session = s, ~ Elsewhere(h, r),
           s \in Interactive => asks[h][r].turn = sessions[s].turn
    PROVE  RowsSteady /\ NewRowsFit
<1>1. Opened(i, s, r, k) /\ asker'[i] = h /\ RowsSteady
  BY RowOpened, SteadyOpen DEF SystemTypeOK, AskerTypeOK
<1>2. RowFits(i)
  BY <1>1 DEF RowFits, Opened, Elsewhere
<1>3. \A j \in Interactions \ {i} : interactions'[j] = interactions[j]
  BY <1>1 DEF Opened
<1> QED BY <1>1, <1>2, <1>3 DEF NewRowsFit

LEMMA ConsumeRequestSteady ==
    ASSUME SystemTypeOK, AsksSane, ThreadsApart, TurnsSane, ConsumeRequest PROVE Steady
<1>0. InboxTypeOK /\ AskTypeOK /\ Managed \in Hosts /\ Managed \notin Interactive
  BY HostFacts DEF SystemTypeOK
<1>1. PICK k \in 1 .. Len(inbox[Managed]) :
          /\ inbox[Managed][k] \in Message(Managed) /\ IsRequest(inbox[Managed][k])
          /\ TakeRequest(inbox[Managed][k][2])
          /\ inbox' = [inbox EXCEPT ![Managed] = Without(inbox[Managed], k)]
          /\ UNCHANGED <<hosts, turns, asks, creating>>
  BY <1>0, ConsumedFacts DEF ConsumeRequest
<1>2. PICK r \in Asked(Managed) : inbox[Managed][k] = <<"request", r>>
  BY <1>1 DEF IsRequest, Message
<1> DEFINE ask == asks[Managed][r]
           found == SessionOfThread(ask.thread)
<1>3. r \in Requests /\ inbox[Managed][k][2] = r /\ AskSane(Managed, r)
  <2>1. r \in Requests
    BY DEF Asked
  <2> QED BY <1>0, <1>2, <2>1 DEF AsksSane
<1>4. /\ ask \in AskRecord /\ ask.session \in Sessions /\ ~ Elsewhere(Managed, r)
      /\ ask.thread = turns[ask.session].thread /\ ask.thread # NoValue
  <2>1. ask \in AskRecord /\ ask.session \in Sessions /\ ~ Elsewhere(Managed, r)
    BY <1>0, <1>2, <1>3, SaneFacts DEF Asked
  <2> QED BY <1>2, <1>3, <2>1, NoValueAssumption DEF AskSane, Asked, AskRecord
<1>5. HostsSteady /\ TurnsSteady /\ BoxesSteady /\ CreationSteady
  BY <1>0, <1>1, SameHostsSteady, SameTurns, PickSteady DEF CreationSteady
<1>c. \/ UNCHANGED orchVars
      \/ /\ \E s \in found : Accepts(s, ask.turn, r)
         /\ \E i \in Interactions, s \in found :
                  OpenLive(i, s, r, ask.kind) /\ asker' = [asker EXCEPT ![i] = Managed]
  BY <1>1, <1>3 DEF TakeRequest
<1>6. CASE UNCHANGED orchVars
  BY <1>5, <1>6, SameRows, NoRowFits DEF Steady
<1>7. CASE /\ \E s \in found : Accepts(s, ask.turn, r)
           /\ \E i \in Interactions, s \in found :
                  OpenLive(i, s, r, ask.kind) /\ asker' = [asker EXCEPT ![i] = Managed]
  <2>1. PICK q \in found : Accepts(q, ask.turn, r)
    BY <1>7
  <2>2. PICK i \in Interactions, s \in found :
                  OpenLive(i, s, r, ask.kind) /\ asker' = [asker EXCEPT ![i] = Managed]
    BY <1>7
  <2>3. s = q
    BY <2>1, <2>2, OneOfThread
  <2>4. s = ask.session /\ s \in Sessions
    <3>1. TypeOK
      BY DEF SystemTypeOK, OrchTypeOK
    <3> QED BY <1>4, <3>1, FoundByThread
  <2>5. turns[s].thread # NoValue
    BY <1>4, <2>4
  <2>6. s \in Interactive => ask.turn = sessions[s].turn
    BY <2>1, <2>3 DEF Accepts
  <2>7. ask.kind \in Kinds
    BY <1>4 DEF AskRecord
  <2> HIDE DEF found
  <2>8. RowsSteady /\ NewRowsFit
    BY <1>0, <1>3, <1>4, <2>2, <2>4, <2>5, <2>6, <2>7, OpenSteady
  <2> QED BY <1>5, <2>8 DEF Steady
<1> QED BY <1>c, <1>6, <1>7

LEMMA RunCallbackSteady ==
    ASSUME SystemTypeOK, AsksSane, TurnsSane, NEW s \in Interactive, NEW r \in Requests,
           RunCallback(s, r)
    PROVE  Steady
<1> DEFINE ask == asks[s][r]
<1>0. /\ InboxTypeOK /\ AskTypeOK /\ s \in Hosts /\ s \in Sessions
      /\ UNCHANGED <<hosts, turns, creating>>
  BY HostFacts DEF SystemTypeOK, RunCallback, taskVars
<1>1. HostsSteady /\ TurnsSteady /\ CreationSteady
  BY <1>0, SameHostsSteady, SameTurns DEF CreationSteady
<1>2. r \in Asked(s)
  BY GateFacts DEF RunCallback
<1>3. ask \in AskRecord /\ ask.session = s
  BY <1>0, <1>2, SaneFacts, TuiOfHost DEF Asked
<1>t. sessions[s].thread = ask.thread => turns[s].thread # NoValue /\ ~ Elsewhere(s, r)
  <2>1. ask.thread \in Threads /\ sessions[s].thread \in {NoValue, turns[s].thread}
    BY <1>0, <1>3 DEF AskRecord, TurnsSane, Threaded
  <2>2. Elsewhere(s, r) => ask.thread \in OtherThreads
    BY <1>0, <1>2 DEF AsksSane, AskSane, Asked
  <2> QED BY <1>0, <2>1, <2>2, ForeignThread, NoValueAssumption
<1>4. \/ UNCHANGED orchVars /\ UNCHANGED inbox
      \/ UNCHANGED orchVars /\ Send(s, r, "refused")
      \/ /\ UNCHANGED inbox /\ Accepts(s, ask.turn, r) /\ sessions[s].thread = ask.thread
         /\ \E i \in Interactions : OpenLive(i, s, r, ask.kind) /\ asker' = [asker EXCEPT ![i] = s]
  BY DEF RunCallback
<1>5. CASE UNCHANGED orchVars /\ BoxesSteady
  BY <1>1, <1>5, SameRows, NoRowFits DEF Steady
<1>6. CASE UNCHANGED inbox /\ Accepts(s, ask.turn, r) /\ sessions[s].thread = ask.thread
           /\ \E i \in Interactions : OpenLive(i, s, r, ask.kind) /\ asker' = [asker EXCEPT ![i] = s]
  <2>1. PICK i \in Interactions : OpenLive(i, s, r, ask.kind) /\ asker' = [asker EXCEPT ![i] = s]
    BY <1>6
  <2>2. ask.turn = sessions[s].turn /\ ask.kind \in Kinds
    BY <1>3, <1>6 DEF Accepts, AskRecord
  <2>3. RowsSteady /\ NewRowsFit
    BY <1>0, <1>3, <1>t, <1>6, <2>1, <2>2, OpenSteady
  <2> QED BY <1>1, <1>6, <2>3, SameBoxes DEF Steady
<1> QED BY <1>0, <1>4, <1>5, <1>6, SendSteady, SameBoxes

LEMMA DecidesSteady ==
    ASSUME SystemTypeOK, TurnsSane, NEW i \in Interactions, NEW d, NEW a \in Actors,
           NEW st \in {"resolved", "expired"}, Decide(i, d, a, st),
           TurnsSteady, UNCHANGED hosts, UNCHANGED inbox, UNCHANGED creating
    PROVE  Steady
<1>1. RowsSteady /\ NoNewRow
  BY SteadyDecide DEF SystemTypeOK, TurnsSane
<1> QED BY <1>1, SameBoxes, TaskSteady

LEMMA AnswerSteady ==
    ASSUME SystemTypeOK, TurnsSane, NEW i \in Interactions, NEW d, LarkAnswers(i, d) \/ Expire(i)
    PROVE  Steady
<1>0. TurnTypeOK /\ "lark" \in Actors /\ "timeout" \in Actors
  BY ActorsAssumption DEF SystemTypeOK
<1>1. CASE LarkAnswers(i, d)
  BY <1>0, <1>1, SameTurns, DecidesSteady DEF LarkAnswers, hostVars
<1>2. CASE Expire(i)
  <2>1. /\ Decide(i, DenialDecision(interactions[i].kind), "timeout", "expired")
        /\ UNCHANGED hosts /\ UNCHANGED inbox /\ UNCHANGED creating
        /\ Interrupt(interactions[i].session) \/ UNCHANGED turns
    BY <1>2 DEF Expire
  <2>2. TurnsSteady
    BY <1>0, <2>1, SameTurns, InterruptSteady
  <2> QED BY <1>0, <2>1, <2>2, DecidesSteady
<1> QED BY <1>1, <1>2

LEMMA FinishWriteSteady ==
    ASSUME SystemTypeOK, NEW w \in Workers, FinishWrite(w) PROVE Steady
<1>1. InboxTypeOK /\ DOMAIN writing = Workers /\ TaskTypeOK
  BY DEF SystemTypeOK, TaskTypeOK
<1>2. writing[w].host \in Hosts
  BY <1>1, WriteFacts DEF FinishWrite
<1>3. BoxesSteady
  BY <1>1, <1>2, SendSteady, SameBoxes DEF FinishWrite
<1> QED BY <1>3, SameRows, SameTurns, TaskSteady DEF FinishWrite

LEMMA TerminalSteady ==
    ASSUME SystemTypeOK, TurnsSane, NEW s \in Interactive, NEW r \in Requests
    PROVE  /\ \A d \in Decisions : TerminalAnswers(s, r, d) => Steady
           /\ TerminalErrs(s, r) => Steady
<1>0. /\ InboxTypeOK /\ s \in Hosts /\ "terminal" \in Actors
      /\ LiveByRequest(r) \subseteq Interactions
  BY HostFacts, ActorsAssumption DEF SystemTypeOK, OrchTypeOK, LiveByRequest
<1>1. ASSUME NEW d \in Decisions, TerminalAnswers(s, r, d) PROVE Steady
  <2>1. /\ UNCHANGED hosts /\ UNCHANGED inbox /\ UNCHANGED creating /\ UNCHANGED turns
        /\ \/ \E i \in LiveByRequest(r) : Decide(i, d, "terminal", "resolved")
           \/ UNCHANGED orchVars
    BY <1>1 DEF TerminalAnswers, hostVars
  <2>2. CASE UNCHANGED orchVars
    BY <2>1, <2>2, SameRows, SameTurns, SameBoxes, TaskSteady
  <2>3. CASE \E i \in LiveByRequest(r) : Decide(i, d, "terminal", "resolved")
    BY <1>0, <2>1, <2>3, SameTurns, DecidesSteady
  <2> QED BY <2>1, <2>2, <2>3
<1>2. ASSUME TerminalErrs(s, r) PROVE Steady
  BY <1>0, <1>2, SendSteady, SameRows, SameTurns, TaskSteady DEF TerminalErrs, taskVars
<1> QED BY <1>1, <1>2

LEMMA EndCloseSteady ==
    ASSUME SystemTypeOK, NEW s \in Interactive, EndClose(s) PROVE Steady
<1>1. HostsSteady
  BY HostFacts DEF EndClose, HostsSteady, HostTypeOK, SystemTypeOK
<1> QED BY <1>1, SameTurns, EndsSteady DEF EndClose, taskVars

LEMMA IdleSteady == UNCHANGED vars => Steady
  BY SameRows, SameTurns, SameBoxes, TaskSteady DEF vars, hostVars, taskVars


-----------------------------------------------------------------------------
(* Steps and the turns: what TurnsSane rests on.                            *)

\* A session that has a thread keeps it; it gets one of its own, or one to resume.
ThreadStays(q) ==
    \/ turns'[q].thread = turns[q].thread
    \/ turns[q].thread = NoValue /\ turns'[q].thread \in {q} \cup Resumable

\* Its turns are counted; only a new one is on.
NumberStays(q) ==
    \/ turns'[q].number = turns[q].number + 1
    \/ turns'[q].number = turns[q].number /\ (turns'[q].on => turns[q].on)

ThreadsStay == \A q \in Sessions : ThreadStays(q) /\ NumberStays(q)

\* What is said of turns was said before, or is about a session of the app-server.
Said(h, m) ==
    /\ HostOf(m[3][1]) = h /\ m[3][1] \in Sessions
    /\ m[2] = turns[m[3][1]].thread /\ m[2] # NoValue
    /\ m[3][2] <= turns'[m[3][1]].number
    /\ m[1] = "completed" => ~ turns'[m[3][1]].on

MessagesStay ==
    \A h \in Hosts : \A m \in In(inbox'[h]) : IsTurn(m) => m \in In(inbox[h]) \/ Said(h, m)

\* The turn on record stays, or nothing is pending.
RecordStays(s) ==
    \/ sessions'[s].turn = sessions[s].turn
    \/ \A i \in Interactions : interactions'[i].status = "pending" => interactions'[i].session # s

TurnStep ==
    /\ ThreadsStay
    /\ NewRowsFit
    /\ MessagesStay
    /\ \A q \in Sessions : Threaded(q)'
    /\ \A s \in Interactive : InOrder(s)' /\ RecordStays(s)

LEMMA TurnMessageFacts ==
    ASSUME InboxTypeOK, NEW h \in Hosts, NEW m \in In(inbox[h]), IsTurn(m)
    PROVE  m[2] \in Threads /\ m[3] \in Turns /\ m[3][1] \in Sessions
           /\ m[1] \in {"started", "completed"} /\ (m[1] = "completed" => m[4] \in TerminalStatus)
<1>1. m \in Message(h)
  BY LenProperties DEF InboxTypeOK, In
<1> QED BY <1>1, MessageFacts, TurnsAssumption DEF IsTurn

\* What is known of the turns carries over.
LEMMA TurnStepSane ==
    ASSUME Sane, RowsSane', TablesOK, TurnsSane, StepKind, ~ Restart, TurnStep
    PROVE  TurnsSane'
<1>0. SystemTypeOK /\ InboxTypeOK /\ AskTypeOK /\ RowsSane
  BY DEF Sane, SystemTypeOK
<1>1. MessagesSane'
  <2> SUFFICES ASSUME NEW h \in Hosts, NEW m \in In(inbox'[h]), IsTurn(m)
               PROVE  LET q == m[3][1] IN
                      /\ HostOf(q) = h
                      /\ m[2] = turns'[q].thread /\ m[2] # NoValue
                      /\ m[3][2] <= turns'[q].number
                      /\ m[1] = "completed" => ~ (turns'[q].on /\ m[3] = <<q, turns'[q].number>>)
    BY DEF MessagesSane, MessageSane, CurrentTurn
  <2> DEFINE q == m[3][1]
  <2>1. CASE m \in In(inbox[h])
    <3>1. /\ HostOf(q) = h /\ m[2] = turns[q].thread /\ m[2] # NoValue
          /\ m[3][2] <= turns[q].number
          /\ m[1] = "completed" => ~ (turns[q].on /\ m[3] = <<q, turns[q].number>>)
      BY <2>1 DEF TurnsSane, MessagesSane, MessageSane, CurrentTurn
    <3>2. m[3] \in Turns /\ q \in Sessions
      BY <1>0, <2>1, TurnMessageFacts
    <3>3. m[3] = <<q, m[3][2]>> /\ m[3][2] \in Int
      BY <3>2, TurnsAssumption
    <3>4. ThreadStays(q) /\ NumberStays(q)
      BY <3>2 DEF TurnStep, ThreadsStay
    <3>5. turns[q].number \in Int
      BY <1>0, <3>2 DEF SystemTypeOK, TurnTypeOK, TurnRecord
    <3>6. m[2] = turns'[q].thread
      BY <3>1, <3>4 DEF ThreadStays
    <3>7. CASE turns'[q].number = turns[q].number /\ (turns'[q].on => turns[q].on)
      BY <3>1, <3>6, <3>7
    <3>8. CASE turns'[q].number = turns[q].number + 1
      <4>1. m[3][2] <= turns'[q].number /\ m[3][2] # turns'[q].number
        BY <3>1, <3>3, <3>5, <3>8
      <4> QED BY <3>1, <3>3, <3>6, <4>1
    <3> QED BY <3>4, <3>7, <3>8 DEF NumberStays
  <2>2. CASE m \notin In(inbox[h])
    <3>1. Said(h, m)
      BY <2>2 DEF TurnStep, MessagesStay
    <3> QED BY <3>1 DEF TurnStep, ThreadsStay, ThreadStays, Said
  <2> QED BY <2>1, <2>2
<1>2. ASSUME NEW i \in Interactions PROVE RowThreaded(i)'
  <2> SUFFICES ASSUME interactions'[i].status # "absent"
               PROVE  turns'[interactions'[i].session].thread # NoValue
    BY DEF RowThreaded
  <2>1. CASE interactions[i].status = "absent"
    <3>1. PICK h \in Hosts, r \in Requests, s \in Sessions, k \in Kinds : Opens(h, r, i, s, k)
      BY <1>0, <2>1, RowSteps DEF SameRow, RowDecided, Pending
    <3>2. interactions'[i].session = s
      BY <1>0, <3>1, OpensFacts DEF Opened
    <3>3. turns[s].thread # NoValue
      BY <2>1, <3>2 DEF TurnStep, NewRowsFit, RowFits
    <3> QED BY <3>2, <3>3 DEF TurnStep, ThreadsStay, ThreadStays
  <2>2. CASE interactions[i].status # "absent"
    <3>1. interactions[i].session \in Sessions /\ turns[interactions[i].session].thread # NoValue
      BY <1>0, <2>2 DEF SystemTypeOK, OrchTypeOK, TypeOK, TurnsSane, RowThreaded
    <3>2. interactions'[i].session = interactions[i].session
      <4>1. \A h \in Hosts, r \in Requests, s \in Sessions, k \in Kinds : ~ Opens(h, r, i, s, k)
        BY <1>0, <2>2, OpensFacts
      <4> QED BY <1>0, <4>1, RowSteps DEF SameRow, RowDecided, SameRequest
    <3> QED BY <3>1, <3>2 DEF TurnStep, ThreadsStay, ThreadStays
  <2> QED BY <2>1, <2>2
<1>5. ASSUME NEW i \in Interactions PROVE RowAttributed(i)'
  <2> SUFFICES ASSUME NEW h \in Hosts, NEW r \in Requests, interactions'[i].status # "absent",
                      asker'[i] = h, interactions'[i].request = r
               PROVE  interactions'[i].session = asks'[h][r].session /\ asks'[h][r].turn # NoValue
    BY NoHost DEF RowAttributed, For, RowsSane, RowSane, Elsewhere
  <2>0. ASSUME asks[h][r].state # "none"
        PROVE  asks'[h][r].session = asks[h][r].session /\ asks'[h][r].turn = asks[h][r].turn
    BY <1>0, <2>0, AskStaysStep DEF AskStays
  <2>1. CASE interactions[i].status = "absent"
    <3>1. RowFits(i)
      BY <2>1 DEF TurnStep, NewRowsFit
    <3>2. PICK g \in Hosts, q \in Requests, s \in Sessions, k \in Kinds : Opens(g, q, i, s, k)
      BY <1>0, <2>1, RowSteps DEF SameRow, RowDecided, Pending
    <3>3. q = r /\ g = h /\ r \in Asked(h)
      <4>1. Opened(i, s, q, k) /\ asker'[i] = g
        BY <1>0, <3>2, OpensFacts
      <4> QED BY <3>2, <4>1 DEF Opened, Opens
    <3>4. asks[h][r].state # "none"
      BY <3>3 DEF Asked
    <3> QED BY <2>0, <3>1, <3>4 DEF RowFits
  <2>2. CASE interactions[i].status # "absent"
    <3>1. /\ interactions'[i].session = interactions[i].session
          /\ interactions'[i].request = interactions[i].request /\ asker'[i] = asker[i]
      <4>1. \A g \in Hosts, q \in Requests, s \in Sessions, k \in Kinds : ~ Opens(g, q, i, s, k)
        BY <1>0, <2>2, OpensFacts
      <4> QED BY <1>0, <4>1, RowSteps DEF SameRow, RowDecided, SameRequest
    <3>2. For(i, h, r)
      BY <2>2, <3>1 DEF For
    <3>3. /\ r \in Asked(h) /\ interactions[i].session = asks[h][r].session
          /\ asks[h][r].turn # NoValue
      BY <1>0, <3>2 DEF RowsSane, RowSane, TurnsSane, RowAttributed, Elsewhere
    <3> QED BY <2>0, <3>1, <3>3 DEF Asked
  <2> QED BY <2>1, <2>2
<1>3. ASSUME NEW i \in Interactions, interactions'[i].status = "pending",
             interactions'[i].session \in Interactive
      PROVE  asks'[asker'[i]][interactions'[i].request].turn = sessions'[interactions'[i].session].turn
  <2> DEFINE s == interactions'[i].session
  <2>0. sessions'[s].turn = sessions[s].turn
    BY <1>3 DEF TurnStep, RecordStays
  <2>1. ASSUME NEW h \in Hosts, NEW r \in Asked(h) PROVE asks'[h][r].turn = asks[h][r].turn
    <3>1. r \in Requests /\ asks[h][r].state # "none"
      BY DEF Asked
    <3> QED BY <1>0, <3>1, AskStaysStep DEF AskStays
  <2>2. CASE interactions[i].status = "absent"
    <3>1. PICK h \in Hosts, r \in Requests, q \in Sessions, k \in Kinds : Opens(h, r, i, q, k)
      BY <1>0, <1>3, <2>2, RowSteps DEF SameRow, RowDecided, Pending
    <3>2. interactions'[i].request = r /\ asker'[i] = h /\ r \in Asked(h)
      <4>1. Opened(i, q, r, k) /\ asker'[i] = h
        BY <1>0, <3>1, OpensFacts
      <4> QED BY <3>1, <4>1 DEF Opened, Opens
    <3>3. asks[h][r].turn = sessions[s].turn
      BY <1>3, <2>2, <3>2 DEF TurnStep, NewRowsFit, RowFits
    <3> QED BY <2>0, <2>1, <3>2, <3>3
  <2>3. CASE interactions[i].status # "absent"
    <3>1. /\ Pending(i) /\ interactions'[i].session = interactions[i].session
          /\ interactions'[i].request = interactions[i].request /\ asker'[i] = asker[i]
      <4>1. \A h \in Hosts, r \in Requests, q \in Sessions, k \in Kinds : ~ Opens(h, r, i, q, k)
        BY <1>0, <2>3, OpensFacts
      <4> QED BY <1>0, <1>3, <4>1, RowSteps DEF SameRow, RowDecided, SameRequest, Pending
    <3>2. asker[i] \in Hosts /\ interactions[i].request \in Asked(asker[i])
      <4>1. Active(interactions[i].session) /\ asker[i] # NoValue
        BY <1>0, <3>1 DEF TablesOK, PendingHasActiveSession, RowsSane, RowSane, Pending
      <4>2. asker[i] \in Hosts /\ interactions[i].request \in Requests
        BY <1>0, <4>1, <2>3 DEF SystemTypeOK, AskerTypeOK, OrchTypeOK, TypeOK
      <4> QED BY <1>0, <4>2 DEF RowsSane, RowSane, For
    <3>3. asks[asker[i]][interactions[i].request].turn = sessions[s].turn
      BY <1>3, <3>1 DEF TurnsSane, PendingOfCurrentTurn
    <3> QED BY <2>0, <2>1, <3>1, <3>2, <3>3
  <2> QED BY <2>2, <2>3
<1>4. PendingOfCurrentTurn'
  BY <1>3 DEF PendingOfCurrentTurn, Pending
<1> QED BY <1>1, <1>2, <1>4, <1>5 DEF TurnStep, TurnsSane

\* A session whose row is steady, and whose thread stays.
LEMMA ThreadedStays ==
    ASSUME NEW q \in Sessions, Threaded(q), RowSteady(q), turns'[q].thread = turns[q].thread,
           \/ creating'[q] = creating[q]
           \/ q \notin Interactive /\ creating'[q] # "turn" /\ sessions'[q].status # "absent",
           q \in Interactive => hosts'[q] = hosts[q] \/ hosts[q] # "off"
    PROVE  Threaded(q)'
<1>1. Threaded(q)' <=>
        /\ sessions'[q].thread \in {NoValue, turns'[q].thread}
        /\ sessions'[q].status \in ActiveStatus => sessions'[q].thread = turns'[q].thread
        /\ sessions'[q].status \in ActiveStatus /\ turns'[q].thread = NoValue
              => sessions'[q].status = "starting"
        /\ sessions'[q].status \in {"absent", "starting"} => sessions'[q].turn = NoValue
        /\ sessions'[q].status = "absent" => turns'[q].thread = NoValue /\ creating'[q] = "no"
        /\ creating'[q] = "turn" => turns'[q].thread # NoValue
        /\ q \notin Interactive => turns'[q].thread \in {NoValue, q}
        /\ q \in Interactive =>
             creating'[q] = "no" /\ (sessions'[q].status = "absent" => hosts'[q] = "off")
  BY DEF Threaded, Active
<1> QED BY <1>1 DEF Threaded, RowSteady, Active

LEMMA OrderStays ==
    ASSUME InboxTypeOK, NEW s \in Interactive, InOrder(s), sessions'[s].turn = sessions[s].turn,
           sessions'[s].status \in ActiveStatus => Active(s), BoxSteady(s),
           \A u \in Turns : u \in OpenTurns(s) => u \in OpenTurns(s)'
    PROVE  InOrder(s)'
<1> DEFINE q == inbox[s]
           turn == sessions[s].turn
           open == OpenTurns(s)
           now == OpenTurns(s)'
<1>0. q \in Seq(Message(s))
  BY HostFacts DEF InboxTypeOK
<1> SUFFICES ASSUME Active(s)' PROVE Ordered(turn, inbox'[s], now)
  BY DEF InOrder
<1>1. Ordered(turn, q, open) /\ \A u \in Turns : u \in open => u \in now
  BY DEF InOrder, Active
<1>2. /\ \/ inbox'[s] = q
         \/ \E m : ~ IsTurn(m) /\ inbox'[s] = Append(q, m)
         \/ q # <<>> /\ ~ IsTurn(Head(q)) /\ inbox'[s] = Tail(q)
  BY DEF BoxSteady
<1> HIDE DEF q, turn, open, now
<1>3. CASE inbox'[s] = q
  BY <1>0, <1>1, <1>3, OrderedOther
<1>4. ASSUME NEW m, ~ IsTurn(m), inbox'[s] = Append(q, m) PROVE Ordered(turn, inbox'[s], now)
  <2>1. q \in Seq(Message(s) \cup {m}) /\ m \in Message(s) \cup {m}
    BY <1>0, SeqMonotonic
  <2>2. m[1] # "started"
    BY <1>4 DEF IsTurn
  <2> QED BY <1>1, <1>4, <2>1, <2>2, OrderedAppend
<1>5. CASE q # <<>> /\ ~ IsTurn(Head(q)) /\ inbox'[s] = Tail(q)
  <2>1. Ordered(turn, q, now)
    BY <1>0, <1>1, OrderedOther
  <2>2. \A u \in Turns : turn = u => turn = u /\ ~ Finishes(q[1], u)
    BY <1>0, <1>5, TailFacts DEF Finishes, IsTurn
  <2> QED BY <1>0, <1>5, <2>1, <2>2, OrderedTail
<1> QED BY <1>2, <1>3, <1>4, <1>5

LEMMA SteadyTurnStep ==
    ASSUME SystemTypeOK, TurnsSane, Steady PROVE TurnStep
<1>0. InboxTypeOK /\ Interactive \subseteq Sessions
  BY HostFacts DEF SystemTypeOK
<1>1. /\ \A q \in Sessions : RowSteady(q) /\ turns'[q].thread = turns[q].thread
      /\ \A q \in Sessions : turns'[q].on = turns[q].on /\ turns'[q].number = turns[q].number
  BY DEF Steady, RowsSteady, TurnsSteady
<1>2. \A q \in Sessions : Threaded(q)'
  BY <1>0, <1>1, ThreadedStays DEF Steady, TurnsSane, CreationSteady, HostsSteady
<1>3. ASSUME NEW s \in Interactive PROVE InOrder(s)' /\ RecordStays(s)
  <2>1. /\ sessions'[s].turn = sessions[s].turn
        /\ sessions'[s].status \in ActiveStatus => Active(s)
        /\ BoxSteady(s) /\ InOrder(s)
    BY <1>0, <1>1 DEF RowSteady, Steady, BoxesSteady, TurnsSane
  <2>2. hosts'[s] = hosts[s] \/ (hosts[s] # "off" /\ hosts'[s] # "up")
    BY DEF Steady, HostsSteady
  <2>3. \A u \in Turns : u \in OpenTurns(s) => u \in OpenTurns(s)'
    BY <1>0, <1>1, <2>2 DEF OpenTurns, CurrentTurn
  <2> QED BY <1>0, <2>1, <2>3, OrderStays DEF RecordStays
<1>4. MessagesStay /\ ThreadsStay /\ NewRowsFit
  BY <1>1 DEF Steady, BoxesSteady, MessagesStay, ThreadsStay, ThreadStays, NumberStays
<1> QED BY <1>2, <1>3, <1>4 DEF TurnStep


-----------------------------------------------------------------------------
(* Turns that begin or end, app-servers that stop, threads that start.      *)

LEMMA HostTurnStep ==
    ASSUME TurnsSane, UNCHANGED orchVars, UNCHANGED creating, MessagesStay,
           \A q \in Sessions : turns'[q].thread = turns[q].thread /\ NumberStays(q),
           \A s \in Interactive : hosts'[s] = hosts[s] \/ hosts[s] # "off",
           \A s \in Interactive : InOrder(s)'
    PROVE  TurnStep
<1>1. RowsSteady /\ NewRowsFit
  BY SameRows, NoRowFits
<1>2. ASSUME NEW q \in Sessions PROVE Threaded(q)'
  BY <1>1, ThreadedStays DEF TurnsSane, RowsSteady
<1>3. \A s \in Interactive : RecordStays(s)
  BY HostFacts DEF RecordStays, orchVars
<1>4. ThreadsStay
  BY DEF ThreadsStay, ThreadStays
<1> QED BY <1>1, <1>2, <1>3, <1>4 DEF TurnStep

\* The turns of a session whose queue, host and turn stay.
LEMMA OrderSame ==
    ASSUME InboxTypeOK, NEW s \in Interactive, InOrder(s), sessions' = sessions,
           inbox'[s] = inbox[s], turns'[s] = turns[s],
           hosts'[s] = hosts[s] \/ hosts'[s] # "up"
    PROVE  InOrder(s)'
<1>1. BoxSteady(s)
  BY DEF BoxSteady
<1>2. \A u \in Turns : u \in OpenTurns(s) => u \in OpenTurns(s)'
  BY DEF OpenTurns, CurrentTurn
<1> QED BY <1>1, <1>2, OrderStays DEF Active

\* An app-server says of a turn that it begins, or ends.
LEMMA PostTurn ==
    ASSUME SystemTypeOK, TurnsSane, NEW s \in Sessions, NEW m, Post(HostOf(s), m),
           m[2] = turns[s].thread, turns[s].thread # NoValue, m[3][1] = s,
           UNCHANGED orchVars, UNCHANGED creating, UNCHANGED hosts,
           NEW y, turns' = [turns EXCEPT ![s] = y], y.thread = turns[s].thread,
           \/ m[1] = "started" /\ y.number = turns[s].number + 1
           \/ y.number = turns[s].number /\ ~ y.on,
           m[3][2] <= y.number,
           s \in Interactive => InOrder(s)'
    PROVE  TurnStep
<1>0. TurnTypeOK /\ InboxTypeOK /\ HostOf(s) \in Hosts /\ Interactive \subseteq Hosts
  BY HostFacts DEF SystemTypeOK
<1>1. turns'[s] = y /\ \A q \in Sessions \ {s} : turns'[q] = turns[q]
  BY <1>0, TurnOf
<1>2. /\ In(inbox'[HostOf(s)]) = In(inbox[HostOf(s)]) \cup {m}
      /\ \A g \in Hosts \ {HostOf(s)} : inbox'[g] = inbox[g]
  BY <1>0, PostFacts
<1>3. MessagesStay
  <2>1. Said(HostOf(s), m)
    BY <1>1 DEF Said
  <2> QED BY <1>2, <2>1 DEF MessagesStay
<1>4. ASSUME NEW x \in Interactive PROVE InOrder(x)'
  <2>1. CASE x # s
    <3>1. x \in Sessions /\ x \in Hosts /\ x # HostOf(s)
      BY <2>1, HostFacts DEF HostOf
    <3>2. inbox'[x] = inbox[x] /\ turns'[x] = turns[x] /\ sessions' = sessions
      BY <1>1, <1>2, <2>1, <3>1 DEF orchVars
    <3> QED BY <1>0, <3>2, OrderSame DEF TurnsSane
  <2> QED BY <1>4, <2>1
<1>5. \A q \in Sessions : NumberStays(q)
  BY <1>1 DEF NumberStays
<1> QED BY <1>1, <1>3, <1>4, <1>5, HostTurnStep

LEMMA StartTurnStep ==
    ASSUME SystemTypeOK, TurnsSane, NEW s \in Sessions, StartTurn(s) PROVE TurnStep
<1> DEFINE y == [turns[s] EXCEPT !.number = turns[s].number + 1, !.on = TRUE]
           u == <<s, turns[s].number + 1>>
           m == <<"started", turns[s].thread, u>>
<1>0. TurnTypeOK /\ InboxTypeOK /\ turns[s] \in TurnRecord
  BY DEF SystemTypeOK, TurnTypeOK
<1>1. /\ turns' = [turns EXCEPT ![s] = y] /\ Post(HostOf(s), m)
      /\ turns[s].thread # NoValue /\ ~ turns[s].on /\ hosts[HostOf(s)] = "up"
      /\ UNCHANGED orchVars /\ UNCHANGED creating /\ UNCHANGED hosts
  BY DEF StartTurn, taskVars
<1>2. y.thread = turns[s].thread /\ y.on /\ y.number = turns[s].number + 1
  BY <1>0 DEF TurnRecord
<1>3. /\ m[1] = "started" /\ m[2] = turns[s].thread /\ m[3] = u /\ m[3][1] = s
      /\ m[3][2] <= y.number
  BY <1>0, <1>2 DEF TurnRecord
<1> HIDE DEF y, m
<1>4. turns'[s] = y
  BY <1>0, <1>1, TurnOf
<1>5. ASSUME s \in Interactive PROVE InOrder(s)'
  <2>0. HostOf(s) = s /\ s \in Hosts
    BY <1>5, HostFacts
  <2>1. inbox'[s] = Append(inbox[s], m) /\ inbox[s] \in Seq(Message(s))
    BY <1>0, <1>1, <2>0, PostFacts DEF InboxTypeOK
  <2>2. OpenTurns(s) = {}
    BY <1>1, <2>0 DEF OpenTurns
  <2>3. OpenTurns(s)' = {u}
    <3>1. hosts'[s] = "up" /\ turns'[s].on /\ <<s, turns'[s].number>> = u
      BY <1>1, <1>2, <1>4, <2>0
    <3> QED BY <3>1 DEF OpenTurns, CurrentTurn
  <2>4. sessions' = sessions
    BY <1>1 DEF orchVars
  <2> SUFFICES ASSUME Active(s)' PROVE Ordered(sessions'[s].turn, inbox'[s], OpenTurns(s)')
    BY DEF InOrder
  <2>5. Ordered(sessions[s].turn, inbox[s], {})
    BY <1>5, <2>2, <2>4 DEF TurnsSane, InOrder, Active
  <2>6. inbox[s] \in Seq(Message(s) \cup {m}) /\ m \in Message(s) \cup {m}
    BY <2>1, SeqMonotonic
  <2>7. m[3] \in {u} /\ \A v \in Turns : v \notin {}
    BY <1>3
  <2>8. Ordered(sessions[s].turn, Append(inbox[s], m), {u})
    BY <2>5, <2>6, <2>7, OrderedAppend
  <2> QED BY <2>1, <2>3, <2>4, <2>8
<1> QED BY <1>1, <1>2, <1>3, <1>5, PostTurn

LEMMA EndTurnStep ==
    ASSUME SystemTypeOK, TurnsSane, NEW s \in Sessions, NEW o, EndTurn(s, o) PROVE TurnStep
<1> DEFINE y == [turns[s] EXCEPT !.on = FALSE, !.stop = FALSE]
           u == CurrentTurn(s)
           m == <<"completed", turns[s].thread, u, o>>
<1>0. TurnTypeOK /\ InboxTypeOK /\ turns[s] \in TurnRecord /\ SaneTurn(turns[s])
  BY DEF SystemTypeOK, TurnTypeOK
<1>1. /\ turns' = [turns EXCEPT ![s] = y] /\ Post(HostOf(s), m)
      /\ turns[s].on /\ hosts[HostOf(s)] = "up"
      /\ UNCHANGED orchVars /\ UNCHANGED creating /\ UNCHANGED hosts
  BY DEF EndTurn, taskVars
<1>2. /\ y.thread = turns[s].thread /\ ~ y.on /\ turns[s].thread # NoValue
      /\ y.number = turns[s].number
  BY <1>0, <1>1 DEF TurnRecord, SaneTurn
<1>3. /\ m[1] # "started" /\ m[2] = turns[s].thread /\ m[3][1] = s /\ Finishes(m, u)
      /\ m[3][2] <= y.number
  BY <1>0, <1>2 DEF Finishes, CurrentTurn, TurnRecord
<1> HIDE DEF y, m, u
<1>4. turns'[s] = y
  BY <1>0, <1>1, TurnOf
<1>5. ASSUME s \in Interactive PROVE InOrder(s)'
  <2>0. HostOf(s) = s /\ s \in Hosts
    BY <1>5, HostFacts
  <2>1. inbox'[s] = Append(inbox[s], m) /\ inbox[s] \in Seq(Message(s))
    BY <1>0, <1>1, <2>0, PostFacts DEF InboxTypeOK
  <2>2. OpenTurns(s) = {u}
    BY <1>1, <2>0 DEF OpenTurns, u
  <2>3. OpenTurns(s)' = {}
    <3>1. hosts'[s] = "up" /\ ~ turns'[s].on
      BY <1>1, <1>2, <1>4, <2>0
    <3> QED BY <3>1 DEF OpenTurns
  <2>4. sessions' = sessions
    BY <1>1 DEF orchVars
  <2> SUFFICES ASSUME Active(s)' PROVE Ordered(sessions'[s].turn, inbox'[s], OpenTurns(s)')
    BY DEF InOrder
  <2>5. Ordered(sessions[s].turn, inbox[s], {u})
    BY <1>5, <2>2, <2>4 DEF TurnsSane, InOrder, Active
  <2>6. inbox[s] \in Seq(Message(s) \cup {m}) /\ m \in Message(s) \cup {m}
    BY <2>1, SeqMonotonic
  <2>7. \A v \in Turns : v \in {u} => Finishes(m, v)
    BY <1>3
  <2>8. Ordered(sessions[s].turn, Append(inbox[s], m), {})
    BY <1>3, <2>5, <2>6, <2>7, OrderedAppend
  <2> QED BY <2>1, <2>3, <2>4, <2>8
<1> QED BY <1>1, <1>2, <1>3, <1>5, PostTurn

LEMMA ExitStep ==
    ASSUME SystemTypeOK, TurnsSane, NEW h \in Hosts, Exit(h) PROVE TurnStep
<1>0. TurnTypeOK /\ HostTypeOK /\ InboxTypeOK
  BY DEF SystemTypeOK
<1>1. /\ hosts[h] = "up" /\ hosts' = [hosts EXCEPT ![h] = "down"]
      /\ UNCHANGED inbox /\ UNCHANGED orchVars /\ UNCHANGED creating
  BY DEF Exit, taskVars
<1>2. \A g \in Hosts : hosts'[g] = hosts[g] \/ (hosts[g] # "off" /\ hosts'[g] # "up")
  BY <1>0, <1>1 DEF HostTypeOK
<1>3. ASSUME NEW q \in Sessions
      PROVE  /\ turns'[q].thread = turns[q].thread
             /\ HostOf(q) # h => turns'[q] = turns[q]
             /\ NumberStays(q)
  BY <1>0, TurnsOff DEF Exit, NumberStays
<1>4. ASSUME NEW s \in Interactive PROVE InOrder(s)'
  <2>1. InOrder(s) /\ sessions' = sessions /\ BoxSteady(s) /\ s \in Sessions /\ HostOf(s) = s
        /\ s \in Hosts
    BY <1>1, HostFacts DEF TurnsSane, orchVars, BoxSteady
  <2>2. CASE s # h
    BY <1>0, <1>1, <1>2, <1>3, <2>1, <2>2, OrderSame
  <2>3. CASE s = h
    <3>1. OpenTurns(s)' = Turns
      BY <1>0, <1>1, <2>1, <2>3 DEF OpenTurns, HostTypeOK
    <3> QED BY <1>0, <2>1, <3>1, OrderStays DEF Active
  <2> QED BY <2>2, <2>3
<1>5. MessagesStay
  BY <1>1 DEF MessagesStay
<1> QED BY <1>1, <1>2, <1>3, <1>4, <1>5, HostTurnStep, HostFacts

LEMMA BeginCloseStep ==
    ASSUME SystemTypeOK, TurnsSane, NEW s \in Interactive, BeginClose(s) PROVE TurnStep
<1> DEFINE y == [turns[s] EXCEPT !.on = FALSE, !.stop = FALSE]
<1>0. /\ TurnTypeOK /\ HostTypeOK /\ InboxTypeOK /\ s \in Sessions /\ s \in Hosts
      /\ Interactive \subseteq Hosts /\ Interactive \subseteq Sessions
  BY HostFacts DEF SystemTypeOK
<1>1. /\ turns' = [turns EXCEPT ![s] = y] /\ inbox' = [inbox EXCEPT ![s] = <<>>]
      /\ hosts[s] # "off" /\ hosts' = [hosts EXCEPT ![s] = "closing"]
      /\ UNCHANGED orchVars /\ UNCHANGED creating
  BY DEF BeginClose, taskVars
<1>2. y.thread = turns[s].thread /\ y.number = turns[s].number /\ ~ y.on
  BY <1>0, TurnsOff
<1> HIDE DEF y
<1>3. turns'[s] = y /\ \A q \in Sessions \ {s} : turns'[q] = turns[q]
  BY <1>0, <1>1, TurnOf
<1>4. inbox'[s] = <<>> /\ \A g \in Hosts \ {s} : inbox'[g] = inbox[g]
  BY <1>0, <1>1 DEF InboxTypeOK
<1>5. hosts'[s] = "closing" /\ \A g \in Hosts \ {s} : hosts'[g] = hosts[g]
  BY <1>0, <1>1 DEF HostTypeOK
<1>6. ASSUME NEW x \in Interactive PROVE InOrder(x)'
  <2>1. CASE x # s
    <3>1. inbox'[x] = inbox[x] /\ turns'[x] = turns[x] /\ hosts'[x] = hosts[x]
          /\ sessions' = sessions /\ InOrder(x)
      BY <1>0, <1>1, <1>3, <1>4, <1>5, <2>1 DEF orchVars, TurnsSane
    <3> QED BY <1>0, <3>1, OrderSame
  <2>2. CASE x = s
    <3>1. OpenTurns(s)' = Turns
      BY <1>5 DEF OpenTurns
    <3>2. Len(<<>>) = 0
      BY EmptySeq
    <3>3. \A turn : Ordered(turn, <<>>, Turns)
      BY <3>2 DEF Ordered
    <3> QED BY <1>4, <2>2, <3>1, <3>3 DEF InOrder
  <2> QED BY <2>1, <2>2
<1>7. MessagesStay
  <2>1. In(<<>>) = {}
    BY EmptySeq DEF In
  <2> QED BY <1>4, <2>1 DEF MessagesStay
<1>8. \A q \in Sessions : turns'[q].thread = turns[q].thread /\ NumberStays(q)
  BY <1>2, <1>3 DEF NumberStays
<1>9. \A x \in Interactive : hosts'[x] = hosts[x] \/ hosts[x] # "off"
  BY <1>0, <1>1, <1>5
<1> QED BY <1>1, <1>6, <1>7, <1>8, <1>9, HostTurnStep


-----------------------------------------------------------------------------
(* Steps on the row of one session.                                         *)

LEMMA OneRowStep ==
    ASSUME SystemTypeOK, TurnsSane, NEW s \in Sessions, MessagesStay, NewRowsFit,
           ThreadStays(s), NumberStays(s),
           \A q \in Sessions \ {s} : sessions'[q] = sessions[q] /\ turns'[q] = turns[q]
                                     /\ creating'[q] = creating[q],
           \A q \in Interactive \ {s} : hosts'[q] = hosts[q] /\ inbox'[q] = inbox[q],
           Threaded(s)', s \in Interactive => InOrder(s)' /\ RecordStays(s)
    PROVE  TurnStep
<1>0. InboxTypeOK /\ Interactive \subseteq Sessions
  BY HostFacts DEF SystemTypeOK
<1>1. ASSUME NEW q \in Sessions, q # s PROVE Threaded(q)' /\ turns'[q] = turns[q]
  BY <1>1, SameSteady, ThreadedStays DEF TurnsSane
<1>2. ASSUME NEW x \in Interactive, x # s PROVE InOrder(x)' /\ RecordStays(x)
  <2>1. /\ sessions'[x] = sessions[x] /\ turns'[x] = turns[x]
        /\ hosts'[x] = hosts[x] /\ BoxSteady(x) /\ InOrder(x)
    BY <1>0, <1>2 DEF BoxSteady, TurnsSane
  <2>2. \A u \in Turns : u \in OpenTurns(x) => u \in OpenTurns(x)'
    BY <2>1 DEF OpenTurns, CurrentTurn
  <2> QED BY <1>0, <2>1, <2>2, OrderStays DEF Active, RecordStays
<1>3. ThreadsStay
  BY <1>1 DEF ThreadsStay, ThreadStays, NumberStays
<1> QED BY <1>1, <1>2, <1>3 DEF TurnStep

\* A TUI opens: nothing was said of its turns, which have no thread yet.
LEMMA OpenTuiStep ==
    ASSUME SystemTypeOK, TurnsSane, NEW s \in Interactive, OpenTui(s) PROVE TurnStep
<1> DEFINE y == [sessions[s] EXCEPT !.status = "starting"]
<1>0. /\ s \in Sessions /\ s \in Hosts /\ HostOf(s) = s /\ InboxTypeOK /\ HostTypeOK
      /\ TypeOK /\ DOMAIN sessions = Sessions /\ sessions[s] \in SessionRow
      /\ Interactive \subseteq Hosts
  BY HostFacts, RowsType DEF SystemTypeOK, OrchTypeOK, TypeOK
<1>1. /\ sessions[s].status = "absent" /\ sessions' = [sessions EXCEPT ![s] = y]
      /\ UNCHANGED interactions /\ hosts' = [hosts EXCEPT ![s] = "up"]
      /\ UNCHANGED inbox /\ UNCHANGED turns /\ UNCHANGED creating
  BY DEF OpenTui, CreateSession, taskVars
<1>2. y.status = "starting" /\ y.thread = sessions[s].thread /\ y.turn = sessions[s].turn
  BY <1>0 DEF SessionRow
<1> HIDE DEF y
<1>3. sessions'[s] = y /\ \A q \in Sessions \ {s} : sessions'[q] = sessions[q]
  BY <1>0, <1>1
<1>4. hosts'[s] = "up" /\ \A g \in Hosts \ {s} : hosts'[g] = hosts[g]
  BY <1>0, <1>1 DEF HostTypeOK
<1>5. /\ turns[s].thread = NoValue /\ sessions[s].turn = NoValue
      /\ sessions[s].thread = NoValue /\ creating[s] = "no"
  BY <1>0, <1>1 DEF TurnsSane, Threaded
<1>6. Threaded(s)'
  BY <1>1, <1>2, <1>3, <1>5 DEF Threaded, Active
<1>7. InOrder(s)'
  <2>1. inbox[s] \in Seq(Message(s))
    BY <1>0 DEF InboxTypeOK
  <2>2. ASSUME NEW k \in 1 .. Len(inbox[s]) PROVE inbox[s][k][1] # "started"
    <3>1. inbox[s][k] \in In(inbox[s])
      BY DEF In
    <3>2. CASE IsTurn(inbox[s][k])
      <4>1. PICK m \in In(inbox[s]) : m = inbox[s][k]
        BY <3>1
      <4>2. m[3][1] \in Sessions
        BY <1>0, <3>2, <4>1, TurnMessageFacts
      <4>3. HostOf(m[3][1]) = s /\ m[2] = turns[m[3][1]].thread /\ m[2] # NoValue
        BY <1>0, <3>2, <4>1 DEF TurnsSane, MessagesSane, MessageSane
      <4> QED BY <1>5, <4>2, <4>3, TuiOfHost
    <3> QED BY <3>2 DEF IsTurn
  <2>3. Ordered(NoValue, inbox[s], OpenTurns(s)')
    BY <2>1, <2>2, OrderedOther, NoValueAssumption
  <2> QED BY <1>1, <1>2, <1>3, <1>5, <2>3 DEF InOrder
<1>8. RecordStays(s) /\ MessagesStay
  BY <1>1, <1>2, <1>3 DEF RecordStays, MessagesStay
<1>9. NewRowsFit
  BY <1>1 DEF NewRowsFit
<1> QED BY <1>0, <1>1, <1>3, <1>4, <1>5, <1>6, <1>7, <1>8, <1>9, OneRowStep
       DEF ThreadStays, NumberStays

\* The row of s is bound to the thread t.
LEMMA BoundRow ==
    ASSUME SystemTypeOK, NEW s \in Sessions, NEW t, BindThread(s, t)
    PROVE  /\ sessions'[s] = [status |-> "running", thread |-> t, turn |-> NoValue]
           /\ sessions[s].status = "starting" /\ UNCHANGED interactions
           /\ \A q \in Sessions \ {s} : sessions'[q] = sessions[q]
<1>1. DOMAIN sessions = Sessions
  BY DEF SystemTypeOK, OrchTypeOK, TypeOK
<1> QED BY <1>1 DEF BindThread, UpdateSessionIfStatus

LEMMA TuiThreadStep ==
    ASSUME SystemTypeOK, TurnsSane, NEW s \in Interactive, NEW t \in {s} \cup Resumable,
           TuiThread(s, t)
    PROVE  TurnStep
<1> DEFINE y == [turns[s] EXCEPT !.thread = t]
<1>0. /\ s \in Sessions /\ t \in Threads /\ t # NoValue /\ InboxTypeOK /\ TurnTypeOK
      /\ turns[s] \in TurnRecord /\ Threaded(s) /\ InOrder(s)
  BY HostFacts, ThreadsAssumption, BoundsAssumption, NoValueAssumption
     DEF SystemTypeOK, TurnTypeOK, TurnsSane
<1>1. /\ turns[s].thread = NoValue /\ turns' = [turns EXCEPT ![s] = y] /\ hosts[s] = "up"
      /\ UNCHANGED hosts /\ UNCHANGED inbox /\ UNCHANGED creating
      /\ \/ sessions[s].status = "starting" /\ BindThread(s, t)
         \/ sessions[s].status # "starting" /\ UNCHANGED sessions /\ UNCHANGED interactions
  BY DEF TuiThread, taskVars, storeVars
<1>2. y.thread = t /\ y.on = turns[s].on /\ y.number = turns[s].number
  BY <1>0 DEF TurnRecord
<1> HIDE DEF y
<1>3. turns'[s] = y /\ \A q \in Sessions \ {s} : turns'[q] = turns[q]
  BY <1>0, <1>1, TurnOf
<1>4. /\ \A q \in Sessions \ {s} : sessions'[q] = sessions[q]
      /\ UNCHANGED interactions
      /\ \/ /\ sessions[s].status = "starting"
            /\ sessions'[s] = [status |-> "running", thread |-> t, turn |-> NoValue]
         \/ sessions[s].status # "starting" /\ sessions'[s] = sessions[s]
  BY <1>0, <1>1, BoundRow
<1>5. creating[s] = "no" /\ sessions[s].thread = NoValue /\ sessions[s].status # "absent"
      /\ (sessions[s].status = "starting" => sessions[s].turn = NoValue)
      /\ (Active(s) => sessions[s].status = "starting")
  BY <1>0, <1>1 DEF Threaded
<1>6. Threaded(s)'
  <2>0. turns'[s].thread = t /\ creating'[s] = "no"
    BY <1>1, <1>2, <1>3, <1>5
  <2>1. CASE sessions'[s] = [status |-> "running", thread |-> t, turn |-> NoValue]
    BY <1>0, <2>0, <2>1 DEF Threaded, Active, ActiveStatus
  <2>2. CASE sessions[s].status # "starting" /\ sessions'[s] = sessions[s]
    BY <1>0, <1>5, <2>0, <2>2 DEF Threaded, Active
  <2> QED BY <1>4, <2>1, <2>2
<1>7. sessions'[s].turn = sessions[s].turn
      /\ (sessions'[s].status \in ActiveStatus => Active(s))
  BY <1>4, <1>5 DEF Active, ActiveStatus
<1>8. InOrder(s)'
  <2>1. BoxSteady(s)
    BY <1>1 DEF BoxSteady
  <2>2. \A u \in Turns : u \in OpenTurns(s) => u \in OpenTurns(s)'
    BY <1>1, <1>2, <1>3 DEF OpenTurns, CurrentTurn
  <2> QED BY <1>0, <1>7, <2>1, <2>2, OrderStays
<1>9. RecordStays(s) /\ MessagesStay /\ NewRowsFit
  BY <1>1, <1>4, <1>7 DEF RecordStays, MessagesStay, NewRowsFit
<1>10. ThreadStays(s) /\ NumberStays(s)
  BY <1>1, <1>2, <1>3 DEF ThreadStays, NumberStays
<1> QED BY <1>0, <1>1, <1>3, <1>4, <1>6, <1>8, <1>9, <1>10, OneRowStep

LEMMA ThreadStartedStep ==
    ASSUME SystemTypeOK, TurnsSane, NEW s \in Sessions, ThreadStarted(s) PROVE TurnStep
<1> DEFINE y == [turns[s] EXCEPT !.thread = s]
<1>0. /\ OrchTypeOK /\ TurnTypeOK /\ turns[s] \in TurnRecord /\ Threaded(s)
      /\ s \in Threads /\ s # NoValue /\ DOMAIN creating = Sessions /\ DOMAIN sessions = Sessions
  BY ThreadsAssumption, NoValueAssumption
     DEF SystemTypeOK, OrchTypeOK, TypeOK, TurnTypeOK, TurnsSane, TaskTypeOK
<1>1. /\ creating[s] = "thread" /\ turns' = [turns EXCEPT ![s] = y]
      /\ UNCHANGED hosts /\ UNCHANGED inbox
      /\ \A q \in Sessions \ {s} : creating'[q] = creating[q]
      /\ \/ sessions[s].status = "starting" /\ BindThread(s, s)
         \/ FailStartup(s) /\ creating'[s] = "failed"
  BY <1>0 DEF ThreadStarted
<1>2. s \notin Interactive /\ turns[s].thread \in {NoValue, s} /\ sessions[s].status # "absent"
  BY <1>0, <1>1 DEF Threaded
<1>3. y.thread = s /\ y.on = turns[s].on /\ y.number = turns[s].number
  BY <1>0 DEF TurnRecord
<1> HIDE DEF y
<1>4. turns'[s] = y /\ \A q \in Sessions \ {s} : turns'[q] = turns[q]
  BY <1>0, <1>1, TurnOf
<1>5. MessagesStay
  BY <1>1 DEF MessagesStay
<1>6. CASE BindThread(s, s)
  <2>1. /\ sessions'[s] = [status |-> "running", thread |-> s, turn |-> NoValue]
        /\ UNCHANGED interactions /\ \A q \in Sessions \ {s} : sessions'[q] = sessions[q]
    BY <1>6, BoundRow
  <2>2. Threaded(s)'
    BY <1>0, <1>2, <1>3, <1>4, <2>1 DEF Threaded, Active, ActiveStatus
  <2>3. NewRowsFit
    BY <2>1 DEF NewRowsFit
  <2> QED BY <1>1, <1>2, <1>3, <1>4, <1>5, <2>1, <2>2, <2>3, OneRowStep, HostFacts
         DEF ThreadStays, NumberStays
<1>7. CASE FailStartup(s) /\ creating'[s] = "failed"
  <2>1. RowSteady(s) /\ NewRowsFit
    BY <1>0, <1>7, SteadyEnd, NoRowFits DEF RowsSteady
  <2>2. \A q \in Sessions \ {s} : sessions'[q] = sessions[q]
    BY <1>7 DEF FailStartup, ClaimTerminal, orchVars
  <2>3. sessions'[s].status \notin ActiveStatus /\ sessions'[s].status # "absent"
    <3>1. sessions[s] \in SessionRow
      BY <1>0, RowsType DEF OrchTypeOK
    <3>2. CASE Active(s)
      <4>1. sessions'[s] = [sessions[s] EXCEPT !.status = "failed"]
        BY <1>7, <3>2 DEF FailStartup, ClaimTerminal
      <4>2. sessions'[s].status = "failed"
        BY <3>1, <4>1 DEF SessionRow
      <4> QED BY <4>2 DEF ActiveStatus
    <3>3. CASE ~ Active(s)
      BY <1>2, <1>7, <3>3 DEF FailStartup, orchVars, storeVars, Active
    <3> QED BY <3>2, <3>3
  <2>4. Threaded(s)'
    BY <1>0, <1>2, <1>3, <1>4, <1>7, <2>1, <2>3 DEF Threaded, RowSteady, Active
  <2> QED BY <1>1, <1>2, <1>3, <1>4, <1>5, <2>1, <2>2, <2>4, OneRowStep, HostFacts
         DEF ThreadStays, NumberStays
<1> QED BY <1>1, <1>6, <1>7


-----------------------------------------------------------------------------
(* What is said of a turn reaches the row of its session, and no other.     *)

\* The consumer: what the managed app-server says is about managed sessions.
LEMMA ConsumeNotificationSteady ==
    ASSUME SystemTypeOK, ThreadsApart, TurnsSane, ConsumeNotification PROVE Steady
<1>0. /\ InboxTypeOK /\ AskTypeOK /\ OrchTypeOK /\ TypeOK /\ Managed \in Hosts
      /\ inbox[Managed] \in Seq(Message(Managed))
  BY HostFacts DEF SystemTypeOK, OrchTypeOK, InboxTypeOK
<1>1. PICK k \in 1 .. Len(inbox[Managed]) :
        /\ ~ IsRequest(inbox[Managed][k]) /\ HandleNotification(inbox[Managed][k])
        /\ inbox' = [inbox EXCEPT ![Managed] = Without(inbox[Managed], k)]
  BY DEF ConsumeNotification
<1>2. BoxesSteady /\ inbox[Managed][k] \in In(inbox[Managed])
  BY <1>0, <1>1, PickSteady
<1>3. PICK m \in In(inbox[Managed]) : m = inbox[Managed][k]
  BY <1>2
<1>4. m \in Message(Managed) /\ ~ IsRequest(m) /\ HandleNotification(m)
  BY <1>0, <1>1, <1>3, LenProperties DEF In
<1>5. UNCHANGED hosts /\ UNCHANGED turns /\ UNCHANGED creating
  BY DEF ConsumeNotification, taskVars
<1>6. CASE m[1] = "resolved"
  <2>1. m[2] \in Requests /\ RequestResolved(m[2])
    BY <1>4, <1>6, MessageFacts DEF HandleNotification, Asked
  <2>2. RowsSteady /\ NoNewRow
    BY <1>0, <2>1, SteadyResolved DEF TurnsSane
  <2> QED BY <1>2, <1>5, <2>2, SameTurns, TaskSteady
<1>7. CASE IsTurn(m)
  <2>1. PICK s \in Sessions : s = m[3][1]
    BY <1>0, <1>7, TurnMessageFacts
  <2>2. HostOf(s) = Managed /\ m[2] = turns[s].thread /\ turns[s].thread # NoValue
    BY <1>0, <1>7, <2>1 DEF TurnsSane, MessagesSane, MessageSane
  <2>3. s \notin Interactive
    BY <2>2, HostFacts
  <2>4. SessionOfThread(m[2]) \subseteq {s}
    BY <1>0, <2>2, FoundByThread
  <2>5. RowsSteady /\ NoNewRow
    <3>1. CASE UNCHANGED orchVars
      BY <3>1, SameRows
    <3>2. CASE \E u : BindTurn(s, u)
      BY <1>0, <2>2, <2>3, <3>2, SteadyManaged
    <3>3. CASE \E o : EndSessions({s}, o)
      BY <1>0, <3>3, SteadyEnd
    <3>4. m[1] = "started" => TurnStarted(m[2], m[3])
      BY <1>4 DEF HandleNotification
    <3>5. m[1] = "completed" => TurnCompleted(m[2], m[3], m[4])
      BY <1>4 DEF HandleNotification
    <3>6. TurnStarted(m[2], m[3]) => UNCHANGED orchVars \/ \E u : BindTurn(s, u)
      BY <2>4 DEF TurnStarted
    <3>7. TurnCompleted(m[2], m[3], m[4]) => UNCHANGED orchVars \/ \E o : EndSessions({s}, o)
      BY <2>3, <2>4 DEF TurnCompleted
    <3> QED BY <1>7, <3>1, <3>2, <3>3, <3>4, <3>5, <3>6, <3>7 DEF IsTurn
  <2> QED BY <1>2, <1>5, <2>5, SameTurns, TaskSteady
<1> QED BY <1>4, <1>6, <1>7, MessageFacts DEF IsRequest, IsTurn

\* The gateway handles what its app-server says of a turn.
LEMMA TurnHeadStep ==
    ASSUME SystemTypeOK, TurnsSane, NEW s \in Interactive, inbox[s] # <<>>,
           inbox' = [inbox EXCEPT ![s] = Tail(@)], UNCHANGED <<hosts, turns, creating>>,
           NewRowsFit, \A q \in Sessions \ {s} : sessions'[q] = sessions[q],
           Threaded(s)', RecordStays(s),
           sessions'[s].status \in ActiveStatus => Active(s),
           \A u \in Turns : sessions'[s].turn = u =>
              Begins(inbox[s][1], u) \/ (sessions[s].turn = u /\ ~ Finishes(inbox[s][1], u))
    PROVE  TurnStep
<1>0. /\ InboxTypeOK /\ s \in Hosts /\ s \in Sessions /\ Interactive \subseteq Hosts
      /\ inbox[s] \in Seq(Message(s))
  BY HostFacts DEF SystemTypeOK, InboxTypeOK
<1>1. /\ \A g \in Hosts \ {s} : inbox'[g] = inbox[g]
      /\ In(inbox'[s]) \subseteq In(inbox[s]) /\ inbox'[s] = Tail(inbox[s])
  BY <1>0, TakeFacts DEF InboxTypeOK
<1>2. MessagesStay
  BY <1>0, <1>1 DEF MessagesStay
<1>3. InOrder(s)'
  <2>1. OpenTurns(s)' = OpenTurns(s)
    BY DEF OpenTurns, CurrentTurn
  <2> SUFFICES ASSUME Active(s)' PROVE Ordered(sessions'[s].turn, Tail(inbox[s]), OpenTurns(s))
    BY <1>1, <2>1 DEF InOrder
  <2>2. Ordered(sessions[s].turn, inbox[s], OpenTurns(s))
    BY DEF Active, InOrder, TurnsSane
  <2> QED BY <1>0, <2>2, OrderedTail
<1> QED BY <1>0, <1>1, <1>2, <1>3, OneRowStep
         DEF ThreadStays, NumberStays

\* Nothing is pending when a turn begins: the one before has ended.
LEMMA NonePending ==
    ASSUME Sane, TurnsSane, NEW s \in Interactive, Active(s), inbox[s] # <<>>,
           inbox[s][1][1] = "started", TablesOK
    PROVE  \A i \in Interactions : Pending(i) => interactions[i].session # s
<1>0. InboxTypeOK /\ AskTypeOK /\ s \in Hosts
  BY HostFacts DEF Sane, SystemTypeOK
<1> SUFFICES ASSUME NEW i \in Interactions, Pending(i), interactions[i].session = s PROVE FALSE
  OBVIOUS
<1>1. sessions[s].turn \notin Turns
  BY <1>0, OrderedOther DEF TurnsSane, InOrder, InboxTypeOK
<1>2. asks[asker[i]][interactions[i].request].turn = sessions[s].turn
  BY DEF TurnsSane, PendingOfCurrentTurn
<1>3. asker[i] \in Hosts /\ interactions[i].request \in Asked(asker[i])
  <2>1. asker[i] # NoValue
    BY DEF Sane, RowsSane, RowSane, Pending
  <2>2. asker[i] \in Hosts /\ interactions[i].request \in Requests
    BY <2>1 DEF Pending, Sane, SystemTypeOK, AskerTypeOK, OrchTypeOK, TypeOK
  <2> QED BY <2>2 DEF Sane, RowsSane, RowSane, For
<1>4. /\ asks[asker[i]][interactions[i].request] \in AskRecord
      /\ asks[asker[i]][interactions[i].request].turn # NoValue
  <2>1. interactions[i].request \in Requests
    BY <1>3 DEF Asked
  <2> QED BY <1>0, <1>3, <2>1, AskedFacts DEF Asked, TurnsSane, RowAttributed, For, Elsewhere
<1> QED BY <1>1, <1>2, <1>4 DEF AskRecord


-----------------------------------------------------------------------------
(* The gateway's reader, the restart, and all steps together.               *)

LEMMA UpstreamStarted ==
    ASSUME Sane, TablesOK, ThreadsApart, TurnsSane, NEW s \in Interactive, HandleUpstream(s),
           Head(inbox[s])[1] = "started"
    PROVE  TurnStep
<1> DEFINE m == Head(inbox[s])
           u == m[3]
           y == [sessions[s] EXCEPT !.status = "running", !.turn = u]
<1>0. /\ SystemTypeOK /\ InboxTypeOK /\ TypeOK /\ s \in Hosts /\ s \in Sessions
      /\ DOMAIN sessions = Sessions /\ sessions[s] \in SessionRow /\ Threaded(s)
  BY HostFacts, RowsType DEF Sane, SystemTypeOK, OrchTypeOK, TypeOK, TurnsSane
<1>1. /\ inbox[s] # <<>> /\ inbox' = [inbox EXCEPT ![s] = Tail(@)]
      /\ UNCHANGED <<hosts, turns, creating>> /\ TurnStarted(m[2], u)
  BY DEF HandleUpstream, HandleNotification, taskVars
<1>2. m \in In(inbox[s]) /\ m = inbox[s][1] /\ IsTurn(m)
  BY <1>0, <1>1, TakeFacts DEF IsTurn
<1>3. u \in Turns /\ u[1] = s /\ m[2] = turns[s].thread /\ turns[s].thread # NoValue
  <2>1. u \in Turns /\ u[1] \in Sessions
    BY <1>0, <1>2, TurnMessageFacts
  <2>2. HostOf(u[1]) = s /\ m[2] = turns[u[1]].thread /\ m[2] # NoValue
    BY <1>0, <1>2 DEF TurnsSane, MessagesSane, MessageSane
  <2> QED BY <2>1, <2>2, TuiOfHost
<1>4. SessionOfThread(m[2]) \subseteq {s} /\ (Active(s) => s \in SessionOfThread(m[2]))
  BY <1>0, <1>3, FoundByThread
<1>5. Begins(inbox[s][1], u)
  BY <1>2 DEF Begins
<1>6. CASE Active(s)
  <2>1. BindTurn(s, u)
    BY <1>1, <1>4, <1>6 DEF TurnStarted
  <2>2. sessions' = [sessions EXCEPT ![s] = y] /\ UNCHANGED interactions
    BY <2>1 DEF BindTurn, UpdateSessionIfStatus
  <2>3. y.status = "running" /\ y.turn = u /\ y.thread = sessions[s].thread
    BY <1>0 DEF SessionRow
  <2> HIDE DEF y, u, m
  <2>4. sessions'[s] = y /\ \A q \in Sessions \ {s} : sessions'[q] = sessions[q]
    BY <1>0, <2>2
  <2>5. Threaded(s)'
    BY <1>0, <1>1, <1>3, <1>6, <2>3, <2>4 DEF Threaded, Active, ActiveStatus
  <2>6. RecordStays(s) /\ NewRowsFit
    <3>1. \A i \in Interactions : Pending(i) => interactions[i].session # s
      BY <1>1, <1>2, <1>6, NonePending DEF m
    <3> QED BY <2>2, <3>1 DEF RecordStays, NewRowsFit, Pending
  <2> QED BY <1>0, <1>1, <1>5, <1>6, <2>3, <2>4, <2>5, <2>6, TurnHeadStep
<1>7. CASE ~ Active(s)
  <2>1. UNCHANGED orchVars
    BY <1>1, <1>4, <1>7 DEF TurnStarted
  <2>2. NewRowsFit /\ RowSteady(s) /\ sessions' = sessions /\ RecordStays(s)
    BY <1>0, <2>1, SameRows, NoRowFits DEF RowsSteady, orchVars, RecordStays
  <2>3. Threaded(s)'
    BY <1>0, <1>1, <2>2, ThreadedStays
  <2>4. MessagesStay
    BY <1>0, <1>1, TakeFacts DEF MessagesStay
  <2>5. InOrder(s)'
    BY <1>7, <2>2 DEF InOrder, Active
  <2>6. \A g \in Interactive \ {s} : inbox'[g] = inbox[g]
    BY <1>0, <1>1, TakeFacts, HostFacts
  <2> QED BY <1>0, <1>1, <2>2, <2>3, <2>4, <2>5, <2>6, OneRowStep
         DEF ThreadStays, NumberStays
<1> QED BY <1>6, <1>7

LEMMA UpstreamCompleted ==
    ASSUME Sane, ThreadsApart, TurnsSane, NEW s \in Interactive, HandleUpstream(s),
           Head(inbox[s])[1] = "completed"
    PROVE  TurnStep
<1> DEFINE m == Head(inbox[s])
           u == m[3]
           y == [sessions[s] EXCEPT !.status = "running", !.turn = NoValue]
<1>0. /\ SystemTypeOK /\ InboxTypeOK /\ TypeOK /\ s \in Hosts /\ s \in Sessions
      /\ DOMAIN sessions = Sessions /\ sessions[s] \in SessionRow /\ Threaded(s)
  BY HostFacts, RowsType DEF Sane, SystemTypeOK, OrchTypeOK, TypeOK, TurnsSane
<1>1. /\ inbox[s] # <<>> /\ inbox' = [inbox EXCEPT ![s] = Tail(@)]
      /\ UNCHANGED <<hosts, turns, creating>> /\ TurnCompleted(m[2], u, m[4])
  BY DEF HandleUpstream, HandleNotification, taskVars
<1>2. m \in In(inbox[s]) /\ m = inbox[s][1] /\ IsTurn(m)
  BY <1>0, <1>1, TakeFacts DEF IsTurn
<1>3. u \in Turns /\ m[2] = turns[s].thread /\ turns[s].thread # NoValue
  <2>1. u \in Turns /\ u[1] \in Sessions
    BY <1>0, <1>2, TurnMessageFacts
  <2>2. HostOf(u[1]) = s /\ m[2] = turns[u[1]].thread /\ m[2] # NoValue
    BY <1>0, <1>2 DEF TurnsSane, MessagesSane, MessageSane
  <2> QED BY <2>1, <2>2, TuiOfHost
<1>4. SessionOfThread(m[2]) \subseteq {s} /\ (Active(s) => s \in SessionOfThread(m[2]))
  BY <1>0, <1>3, FoundByThread
<1>5. CASE Active(s) /\ sessions[s].turn = u
  <2>1. FinishTurn(s, u)
    BY <1>1, <1>4, <1>5 DEF TurnCompleted, FinishInteractive
  <2>2. sessions' = [sessions EXCEPT ![s] = y] /\ ClosePendingOf({s}, "cancelled")
    BY <2>1 DEF FinishTurn
  <2>3. y.status = "running" /\ y.turn = NoValue /\ y.thread = sessions[s].thread
    BY <1>0 DEF SessionRow
  <2> HIDE DEF y, u, m
  <2>4. sessions'[s] = y /\ \A q \in Sessions \ {s} : sessions'[q] = sessions[q]
    BY <1>0, <2>2
  <2>5. Threaded(s)'
    BY <1>0, <1>1, <1>3, <1>5, <2>3, <2>4 DEF Threaded, Active, ActiveStatus
  <2>6. NewRowsFit
    BY <1>0, <2>2, RowsOfClosed, KeptNoRow, NoRowFits
  <2>7. RecordStays(s)
    <3>1. ASSUME NEW i \in Interactions, interactions'[i].status = "pending"
          PROVE  interactions'[i].session # s
      <4>1. CASE Pending(i) /\ interactions[i].session = s
        <5>1. interactions'[i] = [interactions[i] EXCEPT !.status = "cancelled"]
          BY <2>2, <4>1 DEF ClosePendingOf
        <5>2. interactions[i] \in InteractionRow
          BY <1>0, RowsType
        <5> QED BY <3>1, <5>1, <5>2 DEF InteractionRow
      <4>2. CASE ~ (Pending(i) /\ interactions[i].session = s)
        <5>1. interactions'[i] = interactions[i]
          BY <2>2, <4>2 DEF ClosePendingOf
        <5> QED BY <3>1, <4>2, <5>1 DEF Pending
      <4> QED BY <4>1, <4>2
    <3> QED BY <3>1 DEF RecordStays
  <2> QED BY <1>0, <1>1, <1>5, <2>3, <2>4, <2>5, <2>6, <2>7, TurnHeadStep, NoValueAssumption
<1>6. CASE ~ (Active(s) /\ sessions[s].turn = u)
  <2>1. UNCHANGED orchVars
    BY <1>1, <1>4, <1>6 DEF TurnCompleted
  <2>2. NewRowsFit /\ RowSteady(s) /\ sessions' = sessions /\ RecordStays(s)
    BY <1>0, <2>1, SameRows, NoRowFits DEF RowsSteady, orchVars, RecordStays
  <2>3. Threaded(s)'
    BY <1>0, <1>1, <2>2, ThreadedStays
  <2>4. CASE Active(s)
    <3>1. \A v \in Turns : sessions'[s].turn = v =>
              sessions[s].turn = v /\ ~ Finishes(inbox[s][1], v)
      BY <1>2, <1>6, <2>2, <2>4 DEF Finishes
    <3> QED BY <1>1, <2>2, <2>3, <2>4, <3>1, TurnHeadStep, <1>0
  <2>5. CASE ~ Active(s)
    <3>1. MessagesStay
      BY <1>0, <1>1, TakeFacts DEF MessagesStay
    <3>2. InOrder(s)'
      BY <2>2, <2>5 DEF InOrder, Active
    <3>3. \A g \in Interactive \ {s} : inbox'[g] = inbox[g]
      BY <1>0, <1>1, TakeFacts, HostFacts
    <3> QED BY <1>0, <1>1, <2>2, <2>3, <3>1, <3>2, <3>3, OneRowStep
         DEF ThreadStays, NumberStays
  <2> QED BY <2>4, <2>5
<1> QED BY <1>5, <1>6

\* What is said of requests leaves threads and turns as they are.
LEMMA HeardSteady ==
    ASSUME SystemTypeOK, TurnsSane, NEW s \in Interactive, HandleUpstream(s),
           Head(inbox[s])[1] \in {"request", "resolved"}
    PROVE  Steady
<1> DEFINE m == Head(inbox[s])
<1>0. /\ InboxTypeOK /\ AskTypeOK /\ OrchTypeOK /\ s \in Hosts
  BY HostFacts DEF SystemTypeOK
<1>1. /\ inbox[s] # <<>> /\ inbox' = [inbox EXCEPT ![s] = Tail(@)]
      /\ UNCHANGED <<hosts, turns, creating, asks>>
      /\ m[1] = "request" => UNCHANGED orchVars
      /\ m[1] = "resolved" => RequestResolved(m[2])
  BY DEF HandleUpstream, GatewayRequest, GatewayResolved, taskVars
<1>2. m \in Message(s)
  <2>1. AsksGrow
    BY <1>0, <1>1, KeptAsks
  <2> QED BY <1>0, <1>1, <2>1, TakeType
<1>3. BoxesSteady
  BY <1>0, <1>1, TakeSteady DEF IsTurn
<1>4. CASE m[1] = "request"
  BY <1>1, <1>3, <1>4, SameRows, SameTurns, TaskSteady
<1>5. CASE m[1] = "resolved"
  <2>1. m[2] \in Requests
    BY <1>2, <1>5, MessageFacts DEF Asked
  <2>2. RowsSteady /\ NoNewRow
    BY <1>0, <1>1, <1>5, <2>1, SteadyResolved DEF TurnsSane
  <2> QED BY <1>1, <1>3, <2>2, SameTurns, TaskSteady
<1> QED BY <1>4, <1>5

\* What a gateway hears: of requests, or of turns.
LEMMA HeardFacts ==
    ASSUME SystemTypeOK, NEW s \in Interactive, HandleUpstream(s)
    PROVE  Head(inbox[s])[1] \in {"request", "resolved", "started", "completed"}
<1>0. InboxTypeOK /\ AskTypeOK /\ s \in Hosts
  BY HostFacts DEF SystemTypeOK
<1>1. /\ inbox[s] # <<>> /\ inbox' = [inbox EXCEPT ![s] = Tail(@)] /\ UNCHANGED asks
  BY DEF HandleUpstream
<1>2. AsksGrow
  BY <1>0, <1>1, KeptAsks
<1>3. Head(inbox[s]) \in Message(s)
  BY <1>0, <1>1, <1>2, TakeType
<1> QED BY <1>3, MessageFacts

LEMMA UpstreamStep ==
    ASSUME Sane, TablesOK, ThreadsApart, TurnsSane, NEW s \in Interactive, HandleUpstream(s)
    PROVE  TurnStep
<1>1. SystemTypeOK
  BY DEF Sane
<1>2. CASE Head(inbox[s])[1] \in {"request", "resolved"}
  BY <1>1, <1>2, HeardSteady, SteadyTurnStep
<1> QED BY <1>1, <1>2, HeardFacts, UpstreamStarted, UpstreamCompleted


LEMMA RestartTurns == ASSUME TypeOK, TurnTypeOK, TurnsSane, Restart PROVE TurnsSane'
<1>0. ReconcileStartup
  BY DEF Restart, Reconcile
<1>1. ASSUME NEW q \in Sessions
      PROVE  /\ sessions'[q].thread = sessions[q].thread /\ sessions'[q].turn = sessions[q].turn
             /\ sessions'[q].status \notin ActiveStatus
             /\ sessions'[q].status = "absent" <=> sessions[q].status = "absent"
  <2>1. CASE Active(q)
    <3>1. sessions'[q] = [sessions[q] EXCEPT !.status = "interrupted"]
      BY <1>0, <2>1 DEF ReconcileStartup
    <3>2. sessions[q] \in SessionRow
      BY RowsType
    <3> QED BY <2>1, <3>1, <3>2 DEF SessionRow, Active, ActiveStatus
  <2>2. CASE ~ Active(q)
    <3>1. sessions'[q] = sessions[q]
      BY <1>0, <2>2 DEF ReconcileStartup
    <3> QED BY <2>2, <3>1 DEF Active
  <2> QED BY <2>1, <2>2
<1>2. ASSUME NEW i \in Interactions
      PROVE  /\ interactions'[i].status # "pending"
             /\ interactions'[i].session = interactions[i].session
             /\ interactions'[i].status = "absent" => interactions[i].status = "absent"
             /\ interactions'[i].status # "absent" => interactions[i].status # "absent"
  <2>1. CASE Pending(i)
    <3>1. interactions'[i] = [interactions[i] EXCEPT !.status = "expired"]
      BY <1>0, <2>1 DEF ReconcileStartup
    <3>2. interactions[i] \in InteractionRow
      BY RowsType
    <3> QED BY <2>1, <3>1, <3>2 DEF InteractionRow, Pending
  <2>2. CASE ~ Pending(i)
    <3>1. interactions'[i] = interactions[i]
      BY <1>0, <2>2 DEF ReconcileStartup
    <3> QED BY <2>2, <3>1 DEF Pending
  <2> QED BY <2>1, <2>2
<1>3. ASSUME NEW q \in Sessions PROVE turns'[q].thread = turns[q].thread
  <2>1. turns'[q] = [turns[q] EXCEPT !.on = FALSE, !.stop = FALSE]
    BY DEF Restart
  <2> QED BY <2>1, TurnsOff
<1>4. ASSUME NEW q \in Sessions PROVE Threaded(q)'
  <2>1. creating'[q] = IF creating[q] = "no" THEN "no" ELSE "failed"
    BY DEF Restart
  <2>2. q \in Interactive /\ sessions[q].status = "absent" => hosts'[q] = "off"
    BY HostFacts DEF Restart
  <2>3. Threaded(q)
    BY DEF TurnsSane
  <2>4. sessions'[q].status # "starting"
    BY <1>1 DEF ActiveStatus
  <2> QED BY <1>1, <1>3, <2>1, <2>2, <2>3, <2>4 DEF Threaded, Active
<1>5. ASSUME NEW i \in Interactions PROVE RowThreaded(i)' /\ RowAttributed(i)'
  <2>0. \A h \in Hosts : asker'[i] # h
    BY NoHost DEF Restart
  <2>1. interactions[i].status # "absent" => interactions[i].session \in Sessions
    BY DEF TypeOK
  <2>2. RowThreaded(i)'
    BY <1>2, <1>3, <2>1 DEF TurnsSane, RowThreaded
  <2> QED BY <2>0, <2>2 DEF RowAttributed, For
<1>6. MessagesSane'
  <2>1. \A h \in Hosts : inbox'[h] = <<>>
    BY DEF Restart
  <2>2. In(<<>>) = {}
    BY EmptySeq DEF In
  <2> QED BY <2>1, <2>2 DEF MessagesSane
<1>7. \A s \in Interactive : InOrder(s)'
  BY <1>1, HostFacts DEF InOrder, Active
<1>8. PendingOfCurrentTurn'
  BY <1>2 DEF PendingOfCurrentTurn, Pending
<1> QED BY <1>4, <1>5, <1>6, <1>7, <1>8 DEF TurnsSane

LEMMA TurnsInit == SystemInit => TurnsSane
<1> SUFFICES ASSUME SystemInit PROVE TurnsSane
  OBVIOUS
<1>1. /\ \A q \in Sessions : sessions[q] = NoSession /\ turns[q] = NoTurn /\ creating[q] = "no"
      /\ \A i \in Interactions : interactions[i] = NoInteraction
      /\ \A h \in Hosts : inbox[h] = <<>>
      /\ \A s \in Interactive : hosts[s] = "off"
  BY HostFacts DEF SystemInit, OrchInit, StoreInit
<1>2. \A q \in Sessions : Threaded(q)
  BY <1>1, HostFacts DEF Threaded, NoSession, NoTurn, Active, ActiveStatus
<1>3. \A i \in Interactions : RowThreaded(i) /\ RowAttributed(i) /\ ~ Pending(i)
  BY <1>1, NoHost DEF SystemInit, RowThreaded, RowAttributed, For, NoInteraction, Pending
<1>4. MessagesSane
  <2>1. In(<<>>) = {}
    BY EmptySeq DEF In
  <2> QED BY <1>1, <2>1 DEF MessagesSane
<1>5. \A s \in Interactive : InOrder(s)
  BY <1>1, HostFacts DEF InOrder, NoSession, Active, ActiveStatus
<1> QED BY <1>2, <1>3, <1>4, <1>5 DEF TurnsSane, PendingOfCurrentTurn

LEMMA TurnSteps ==
    ASSUME Sane, TablesOK, ThreadsApart, TurnsSane, [SystemNext]_vars, ~ Restart
    PROVE  TurnStep
<1>0. SystemTypeOK /\ AsksSane
  BY DEF Sane
<1>1. CASE AppServer
  <2>1. ASSUME NEW s \in Sessions, NEW r \in Requests, NEW k \in Kinds,
               Ask(s, r, k) \/ \E t \in OtherThreads : AskElsewhere(s, t, r, k)
        PROVE  TurnStep
    BY <1>0, <2>1, AskingFacts, AskSteady, SteadyTurnStep
  <2>2. ASSUME NEW h \in Hosts, NEW r \in Requests, Withdraw(h, r) PROVE TurnStep
    BY <1>0, <2>2, WithdrawSteady, SteadyTurnStep
  <2> QED BY <1>0, <1>1, <2>1, <2>2, StartTurnStep, EndTurnStep, ExitStep DEF AppServer, StopTurn
<1>2. CASE Creation
  BY <1>0, <1>2, CreateSteady, SteadyTurnStep, ThreadStartedStep DEF Creation
<1>3. CASE Orchestrator
  BY <1>0, <1>3, ConsumeRequestSteady, ConsumeNotificationSteady, OrchestratorEndsSteady,
     SteadyTurnStep DEF Orchestrator
<1>4. ASSUME NEW s \in Interactive,
             \/ OpenTui(s)
             \/ \E t \in {s} \cup Resumable : TuiThread(s, t)
             \/ HandleUpstream(s)
             \/ \E r \in Requests : RunCallback(s, r)
             \/ \E r \in Requests, d \in Decisions : TerminalAnswers(s, r, d)
             \/ \E r \in Requests : TerminalErrs(s, r)
             \/ BeginClose(s)
             \/ EndClose(s)
      PROVE  TurnStep
  <2>1. ASSUME NEW r \in Requests, RunCallback(s, r) PROVE TurnStep
    BY <1>0, <2>1, RunCallbackSteady, SteadyTurnStep
  <2>2. ASSUME NEW r \in Requests, NEW d \in Decisions, TerminalAnswers(s, r, d) PROVE TurnStep
    BY <1>0, <2>2, TerminalSteady, SteadyTurnStep
  <2>3. ASSUME NEW r \in Requests, TerminalErrs(s, r) PROVE TurnStep
    BY <1>0, <2>3, TerminalSteady, SteadyTurnStep
  <2>4. CASE EndClose(s)
    BY <1>0, <2>4, EndCloseSteady, SteadyTurnStep
  <2> QED BY <1>0, <1>4, <2>1, <2>2, <2>3, <2>4, OpenTuiStep, TuiThreadStep, UpstreamStep,
             BeginCloseStep
<1>5. CASE Responses
  <2>1. ASSUME NEW i \in Interactions, NEW d, LarkAnswers(i, d) \/ Expire(i) PROVE TurnStep
    BY <1>0, <2>1, AnswerSteady, SteadyTurnStep
  <2>2. ASSUME NEW w \in Workers, FinishWrite(w) \/ FailWrite(w) PROVE TurnStep
    BY <1>0, <2>2, FinishWriteSteady, OrchestratorEndsSteady, SteadyTurnStep
  <2>3. CASE FinishInterrupt
    BY <1>0, <2>3, OrchestratorEndsSteady, SteadyTurnStep
  <2> QED BY <1>5, <2>1, <2>2, <2>3 DEF Responses
<1>6. CASE \E s \in Sessions : CancelSession(s)
  BY <1>0, <1>6, OrchestratorEndsSteady, SteadyTurnStep
<1>7. CASE UNCHANGED vars
  BY <1>0, <1>7, IdleSteady, SteadyTurnStep
<1> QED BY <1>1, <1>2, <1>3, <1>4, <1>5, <1>6, <1>7 DEF SystemNext, Tui

LEMMA TurnsNext ==
    Sane /\ TablesOK /\ ThreadsApart /\ TurnsSane /\ [SystemNext]_vars
        => TurnsSane' /\ ThreadsStay
<1> SUFFICES ASSUME Sane, TablesOK, ThreadsApart, TurnsSane, [SystemNext]_vars
             PROVE  TurnsSane' /\ ThreadsStay
  OBVIOUS
<1>1. CASE Restart
  <2>1. TypeOK /\ TurnTypeOK
    BY DEF Sane, SystemTypeOK, OrchTypeOK
  <2>2. \A q \in Sessions : turns'[q] = [turns[q] EXCEPT !.on = FALSE, !.stop = FALSE]
    BY <1>1 DEF Restart
  <2>3. ThreadsStay
    BY <2>1, <2>2, TurnsOff DEF ThreadsStay, ThreadStays, NumberStays
  <2> QED BY <1>1, <2>1, <2>3, RestartTurns
<1>2. CASE ~ Restart
  BY <1>2, SaneStep, TurnSteps, TurnStepSane DEF TurnStep, Sane
<1> QED BY <1>1, <1>2

\* As long as no two sessions share a thread, a pending interaction of a TUI is about
\* the turn on record of its session: a callback that runs after its turn was over is
\* turned away, and a turn that ends takes what is pending with it.  Without the
\* hypothesis (a TUI may resume a thread of another session) what the app-server says
\* of a turn reaches the older of two rows, and the other keeps a turn that is over.
THEOREM SystemCurrentTurn == SystemSpec /\ []ThreadsApart => []PendingOfCurrentTurn
<1>1. Sane /\ TablesOK /\ ThreadsApart /\ TurnsSane /\ [SystemNext]_vars => TurnsSane'
  BY TurnsNext
<1>2. TurnsSane => PendingOfCurrentTurn
  BY DEF TurnsSane
<1> QED BY <1>1, <1>2, TurnsInit, SystemSane, SystemTables, PTL DEF SystemSpec

\* Sessions of their own threads: what happens when no thread is resumed.
OwnThreads == \A q \in Sessions : turns[q].thread \in {NoValue, q}

\* No two sessions share a thread when no TUI resumes one, so then a pending
\* interaction of a TUI is about the turn on record, without a hypothesis.
THEOREM SystemNothingResumed ==
    ASSUME Resumable = {} PROVE SystemSpec => []ThreadsApart /\ []PendingOfCurrentTurn
<1>1. OwnThreads => ThreadsApart
  BY DEF OwnThreads, ThreadsApart
<1>2. SystemInit => OwnThreads
  BY DEF SystemInit, OwnThreads, NoTurn
<1>3. Sane /\ TablesOK /\ OwnThreads /\ TurnsSane /\ [SystemNext]_vars => OwnThreads' /\ TurnsSane'
  <2> SUFFICES ASSUME Sane, TablesOK, OwnThreads, TurnsSane, [SystemNext]_vars
               PROVE  OwnThreads' /\ TurnsSane'
    OBVIOUS
  <2>1. TurnsSane' /\ ThreadsStay
    BY <1>1, TurnsNext
  <2>2. OwnThreads'
    BY <2>1 DEF OwnThreads, ThreadsStay, ThreadStays
  <2> QED BY <2>1, <2>2
<1>4. TurnsSane => PendingOfCurrentTurn
  BY DEF TurnsSane
<1> QED BY <1>1, <1>2, <1>3, <1>4, TurnsInit, SystemSane, SystemTables, PTL DEF SystemSpec


-----------------------------------------------------------------------------
(* A request that is open is in somebody's hands. *)

\* No two app-servers use the same id: an id is unique on its connection only.
RequestsApart ==
    \A h, g \in Hosts : \A r \in Requests : r \in Asked(h) /\ r \in Asked(g) => h = g

\* An answer is forwarded for the session of the request.
WritesAttributed ==
    \A w \in Workers, h \in Hosts, r \in Requests :
        Sending(w, h, r) => writing[w].session = asks[h][r].session

LEMMA AttributedStep ==
    ASSUME Sane, TurnsSane, WritesAttributed, StepKind PROVE WritesAttributed'
<1>0. SystemTypeOK /\ TaskTypeOK /\ DOMAIN writing = Workers
  BY DEF Sane, SystemTypeOK, TaskTypeOK
<1>1. CASE Restart
  BY <1>1, NoHost, NoDecision DEF Restart, WritesAttributed, Sending
<1>2. CASE ~ Restart
  <2> SUFFICES ASSUME NEW w \in Workers, NEW h \in Hosts, NEW r \in Requests,
                      writing'[w].host = h, writing'[w].request = r
               PROVE  writing'[w].session = asks'[h][r].session
    BY DEF WritesAttributed, Sending
  <2>1. ASSUME r \in Asked(h), writing'[w].session = asks[h][r].session
        PROVE  writing'[w].session = asks'[h][r].session
    BY <1>0, <1>2, <2>1, AskStaysStep DEF AskStays, Asked
  <2>2. CASE writing'[w] = writing[w]
    <3>1. ~ IsIdle(w)
      BY <2>2, NoHost, NoDecision DEF IsIdle
    <3>2. r \in Asked(h)
      BY <1>0, <2>2, <3>1, WriteFacts
    <3> QED BY <2>1, <2>2, <3>2 DEF WritesAttributed, Sending
  <2>3. writing'[w] # Idle
    BY NoHost, NoDecision
  <2>4. ASSUME NEW q \in Requests, Refuses(q), w = Consumer
        PROVE  writing'[w].session = asks'[h][r].session
    <3>1. /\ writing'[w] = Awaiting(asks[Managed][q].session, Managed, q, "refused")
          /\ q \in Asked(Managed)
      BY <1>0, <2>4 DEF Refuses
    <3>2. h = Managed /\ r = q /\ writing'[w].session = asks[h][r].session
      BY <3>1 DEF Awaiting
    <3> QED BY <2>1, <3>1, <3>2
  <2>5. ASSUME NEW i \in Interactions, NEW v, writing'[w] = AwaitingFor(i, v)
        PROVE  writing'[w].session = asks'[h][r].session
    <3>1. For(i, h, r) /\ writing'[w].session = interactions[i].session
      BY <2>5 DEF AwaitingFor, Awaiting, For
    <3>2. r \in Asked(h) /\ interactions[i].session = asks[h][r].session
      BY <3>1 DEF Sane, RowsSane, RowSane, TurnsSane, RowAttributed
    <3> QED BY <2>1, <3>1, <3>2
  <2> QED BY <1>2, <2>2, <2>3, <2>4, <2>5, WriteSteps
<1> QED BY <1>1, <1>2

Tracked(h, r) == Unhandled(h, r) \/ Offered(h, r) \/ BeingWritten(h, r)

\* Request r of h is in somebody's hands, or is not open in an active session.
Kept(h, r) ==
    \/ Tracked(h, r)'
    \/ asks'[h][r].state # "open"
    \/ sessions'[asks[h][r].session].status \notin ActiveStatus

IsOpen(h, r) == asks[h][r].state = "open"

QueuesStay == \A h \in Hosts : \A r \in Requests : IsOpen(h, r) /\ Queued(h, r) => Kept(h, r)
CallsStay == \A h \in Hosts : \A r \in Requests : IsOpen(h, r) /\ Called(h, r) => Kept(h, r)
OffersStay == \A h \in Hosts : \A r \in Requests : IsOpen(h, r) /\ Offered(h, r) => Kept(h, r)
WritesStay == \A h \in Hosts : \A r \in Requests : IsOpen(h, r) /\ BeingWritten(h, r) => Kept(h, r)

HandsStay == QueuesStay /\ CallsStay /\ OffersStay

LEMMA OpenAskFacts ==
    ASSUME Sane, NEW h \in Hosts, NEW r \in Requests, IsOpen(h, r)
    PROVE  /\ r \in Asked(h) /\ ~ Settled(asks[h][r]) /\ hosts[h] = "up"
           /\ asks[h][r].session \in Sessions /\ HostOf(asks[h][r].session) = h
           /\ ~ Elsewhere(h, r) =>
                /\ turns[asks[h][r].session].thread # NoValue
                /\ turns[asks[h][r].session].on
                /\ asks[h][r].turn = CurrentTurn(asks[h][r].session)
<1>1. AskTypeOK /\ AsksSane /\ asks[h][r].state = "open"
  BY DEF Sane, SystemTypeOK, IsOpen
<1>2. AskSane(h, r) /\ asks[h][r].state # "none"
  BY <1>1 DEF AsksSane
<1> QED BY <1>1, <1>2, SaneFacts DEF AskSane, Settled, Asked

\* Whoever forwards an answer does so, or gives up with the session.
LEMMA WritesStayStep ==
    ASSUME Sane, ResolvedIsSettled, WritesAttributed, StepKind, ~ Restart PROVE WritesStay
<1>0. SystemTypeOK /\ AskTypeOK /\ DOMAIN writing = Workers
  BY DEF Sane, SystemTypeOK, TaskTypeOK
<1> SUFFICES ASSUME NEW h \in Hosts, NEW r \in Requests, IsOpen(h, r),
                    NEW w \in Workers, Sending(w, h, r)
             PROVE  Kept(h, r)
  BY DEF WritesStay, BeingWritten, Sending
<1>1. r \in Asked(h) /\ ~ Settled(asks[h][r]) /\ hosts[h] = "up"
  BY OpenAskFacts
<1>2. writing[w].session = asks[h][r].session /\ ~ IsIdle(w)
  BY NoHost, NoDecision DEF WritesAttributed, Sending, IsIdle
<1>3. writing'[w] = writing[w] => Kept(h, r)
  BY DEF Sending, Kept, Tracked, BeingWritten
<1>4. CASE Lost(w)
  BY <1>1, <1>2, <1>4 DEF Lost, Sending, Kept, ResolvedIsSettled
<1>5. CASE Forwards(w)
  <2>1. Received(h, r, writing[w].reply)
    BY <1>5 DEF Forwards, Answers, Sending
  <2>2. asks'[h][r].state # "open"
    BY <1>0, <1>1, <2>1, ReceivedStays
  <2> QED BY <2>2 DEF Kept
<1>6. ASSUME NEW x \in Workers, Forwards(x), x # w PROVE writing'[w] = writing[w]
  BY <1>0, <1>6 DEF Forwards
<1>7. ASSUME NEW q, Refuses(q) PROVE writing'[w] = writing[w]
  <2>1. w # Consumer
    BY <1>2, <1>7 DEF Refuses
  <2> QED BY <1>0, <1>7, <2>1 DEF Refuses
<1>8. ASSUME NEW i, NEW x, NEW st, NEW y, NEW v, Decides(i, x, st, y, v)
      PROVE  writing'[w] = writing[w]
  <2>1. w # y
    BY <1>2, <1>8 DEF Decides
  <2> QED BY <1>0, <1>8, <2>1 DEF Decides
<1>9. WritesKept => writing'[w] = writing[w] \/ Lost(w)
  BY DEF WritesKept
<1> QED BY <1>3, <1>4, <1>5, <1>6, <1>7, <1>8, <1>9
        DEF StepKind, Plain, Asks, Calls, TurnsAway, Errs, Opens, taskVars

-----------------------------------------------------------------------------
(* Queues and callbacks that are kept. *)

LEMMA InboxStays ==
    ASSUME InboxTypeOK, \/ UNCHANGED inbox
                        \/ \E h \in Hosts : \E m : Post(h, m)
    PROVE  QueuesStay
<1>1. \A h \in Hosts : \A r \in Requests : Queued(h, r) => Queued(h, r)'
  BY PostFacts DEF Queued
<1> QED BY <1>1 DEF QueuesStay, Kept, Tracked, Unhandled

LEMMA SendStays ==
    ASSUME InboxTypeOK, NEW h \in Hosts, NEW r, NEW v, Send(h, r, v) PROVE QueuesStay
  BY InboxStays DEF Send, Receive

\* A message is taken that is no request.
LEMMA TakeStays ==
    ASSUME InboxTypeOK, NEW h \in Hosts, NEW m, m[1] # "request",
           In(inbox[h]) \subseteq In(inbox'[h]) \cup {m},
           \A g \in Hosts \ {h} : inbox'[g] = inbox[g]
    PROVE  QueuesStay
<1>1. \A r \in Requests : RequestMsg(r) # m
  BY DEF RequestMsg
<1>2. \A g \in Hosts : \A r \in Requests : Queued(g, r) => Queued(g, r)'
  BY <1>1 DEF Queued
<1> QED BY <1>2 DEF QueuesStay, Kept, Tracked, Unhandled

LEMMA CallbacksStay == UNCHANGED callbacks => CallsStay
  BY DEF CallsStay, Called, Kept, Tracked, Unhandled


-----------------------------------------------------------------------------
(* Rows that are kept. *)

\* A pending row of an open request is of the session of the request.
LEMMA OfferFacts ==
    ASSUME Sane, TurnsSane, NEW h \in Hosts, NEW r \in Requests, IsOpen(h, r),
           NEW i \in Interactions, Pending(i), For(i, h, r)
    PROVE  /\ interactions[i].session = asks[h][r].session
           /\ interactions[i].session \in Sessions
           /\ interactions[i].request = r /\ asker[i] = h /\ ~ Elsewhere(h, r)
<1>1. interactions[i].session = asks[h][r].session /\ ~ Elsewhere(h, r)
  BY DEF TurnsSane, RowAttributed
<1> QED BY <1>1, OpenAskFacts DEF For

\* Rows that stay, unless their session ends.
LEMMA RowsStay ==
    ASSUME Sane, TurnsSane, UNCHANGED asker,
           \A i \in Interactions : Pending(i) =>
               \/ interactions'[i] = interactions[i]
               \/ sessions'[interactions[i].session].status \notin ActiveStatus
    PROVE  OffersStay
<1> SUFFICES ASSUME NEW h \in Hosts, NEW r \in Requests, IsOpen(h, r),
                    NEW i \in Interactions, Pending(i), For(i, h, r)
             PROVE  Kept(h, r)
  BY DEF OffersStay, Offered
<1>1. interactions[i].session = asks[h][r].session
  BY OfferFacts
<1>2. interactions'[i] = interactions[i] => Offered(h, r)'
  BY DEF Offered, Pending, For
<1> QED BY <1>1, <1>2 DEF Kept, Tracked

LEMMA ClaimStays ==
    ASSUME Sane, TurnsSane, UNCHANGED asker, NEW S, NEW st, NEW ps, ClaimTerminal(S, st, ps)
    PROVE  OffersStay
<1>1. TypeOK /\ st \notin ActiveStatus
  BY DEF Sane, SystemTypeOK, OrchTypeOK, ClaimTerminal, TerminalStatus, ActiveStatus
<1>2. ASSUME NEW i \in Interactions, Pending(i), interactions[i].session \in S
      PROVE  sessions'[interactions[i].session].status \notin ActiveStatus
  <2>1. PICK q \in Sessions : q = interactions[i].session
    BY <1>1, <1>2 DEF TypeOK, Pending
  <2>2. sessions'[q] = [sessions[q] EXCEPT !.status = st] /\ sessions[q] \in SessionRow
    BY <1>1, <1>2, <2>1, RowsType DEF ClaimTerminal
  <2>3. sessions'[q].status = st
    BY <2>2 DEF SessionRow
  <2> QED BY <1>1, <2>1, <2>3
<1>3. ASSUME NEW i \in Interactions, interactions[i].session \notin S
      PROVE  interactions'[i] = interactions[i]
  BY <1>3 DEF ClaimTerminal, ClosePendingOf
<1> QED BY <1>2, <1>3, RowsStay

LEMMA EndsStay ==
    ASSUME Sane, TurnsSane, UNCHANGED asker
    PROVE  /\ UNCHANGED interactions => OffersStay
           /\ \A S, st : EndSessions(S, st) => OffersStay
           /\ \A s, st : EndIfActive(s, st) => OffersStay
           /\ \A s : FailStartup(s) => OffersStay
           /\ InterruptAll => OffersStay
<1>1. UNCHANGED interactions => OffersStay
  BY RowsStay
<1>2. \A S, st : EndSessions(S, st) => OffersStay
  BY ClaimStays DEF EndSessions
<1> QED BY <1>1, <1>2, ClaimStays DEF EndIfActive, FailStartup, InterruptAll, orchVars

\* What is resolved was settled, so that the row it closes is of no open request.
LEMMA ResolvedStays ==
    ASSUME Sane, TurnsSane, ResolvedIsSettled, RequestsApart, UNCHANGED asker,
           NEW g \in Hosts, NEW q \in Requests, ResolvedMsg(q) \in In(inbox[g]), q \in Asked(g),
           RequestResolved(q)
    PROVE  OffersStay
<1> SUFFICES ASSUME NEW h \in Hosts, NEW r \in Requests, IsOpen(h, r),
                    NEW i \in Interactions, Pending(i), For(i, h, r)
             PROVE  interactions'[i] = interactions[i]
  BY DEF OffersStay, Offered, Kept, Tracked, Pending, For
<1>1. r # q
  <2>1. Settled(asks[g][q])
    BY DEF ResolvedIsSettled
  <2> QED BY <2>1, OpenAskFacts DEF RequestsApart
<1>2. interactions[i].request = r
  BY DEF For
<1>3. ASSUME NEW j \in LiveByRequest(q), CancelInteraction(j)
      PROVE  interactions'[i] = interactions[i]
  <2>1. i # j
    BY <1>1, <1>2, <1>3 DEF LiveByRequest
  <2> QED BY <1>3, <2>1 DEF CancelInteraction, CloseAndRefresh, Sane, SystemTypeOK, OrchTypeOK,
             TypeOK
<1> QED BY <1>3 DEF RequestResolved, storeVars, orchVars

\* A turn that is over had no request that is still open.
LEMMA CompletedStays ==
    ASSUME Sane, TablesOK, TurnsSane, UNCHANGED asker, NEW g \in Hosts, NEW m \in In(inbox[g]),
           m[1] = "completed", TurnCompleted(m[2], m[3], m[4])
    PROVE  OffersStay
<1>1. CASE UNCHANGED interactions
  BY <1>1, EndsStay
<1>2. ASSUME NEW s, EndSessions({s}, m[4]) PROVE OffersStay
  BY <1>2, EndsStay
<1>3. ASSUME NEW s \in Interactive, FinishInteractive(s, m[3]) PROVE OffersStay
  <2>1. /\ sessions[s].turn = m[3]
        /\ interactions' = [i \in Interactions |->
              IF Pending(i) /\ interactions[i].session \in {s}
              THEN [interactions[i] EXCEPT !.status = "cancelled"] ELSE interactions[i]]
    BY <1>3 DEF FinishInteractive, FinishTurn, ClosePendingOf
  <2> SUFFICES ASSUME NEW h \in Hosts, NEW r \in Requests, IsOpen(h, r),
                      NEW i \in Interactions, Pending(i), For(i, h, r)
               PROVE  interactions'[i] = interactions[i]
    BY DEF OffersStay, Offered, Kept, Tracked, Pending, For
  <2>2. interactions[i].session # s
    <3> SUFFICES ASSUME interactions[i].session = s PROVE FALSE
      OBVIOUS
    <3>1. asks[h][r].session = s /\ asker[i] = h /\ interactions[i].request = r
      BY OfferFacts
    <3>2. asks[h][r].turn = m[3]
      BY <1>3, <2>1, <3>1 DEF TurnsSane, PendingOfCurrentTurn
    <3>3. turns[s].on /\ m[3] = CurrentTurn(s)
      BY <3>1, <3>2, OfferFacts, OpenAskFacts
    <3>4. m[3][1] = s
      BY <3>3 DEF CurrentTurn
    <3> QED BY <3>3, <3>4 DEF TurnsSane, MessagesSane, MessageSane, IsTurn
  <2> QED BY <2>1, <2>2
<1> QED BY <1>1, <1>2, <1>3 DEF TurnCompleted, orchVars

LEMMA NotificationStays ==
    ASSUME Sane, TablesOK, TurnsSane, ResolvedIsSettled, RequestsApart, UNCHANGED asker,
           NEW g \in Hosts, NEW m \in In(inbox[g]), m[1] # "request", HandleNotification(m)
    PROVE  OffersStay
<1>1. m \in Message(g)
  BY LenProperties DEF Sane, SystemTypeOK, InboxTypeOK, In
<1>2. CASE m[1] = "resolved"
  <2>1. m[2] \in Asked(g) /\ m[2] \in Requests /\ m = ResolvedMsg(m[2])
    BY <1>1, <1>2 DEF Message, Asked, ResolvedMsg
  <2>2. RequestResolved(m[2])
    BY <1>2 DEF HandleNotification
  <2> QED BY <2>1, <2>2, ResolvedStays
<1>3. CASE m[1] = "started"
  <2>1. TurnStarted(m[2], m[3])
    BY <1>3 DEF HandleNotification
  <2> QED BY <2>1, EndsStay DEF TurnStarted, BindTurn, UpdateSessionIfStatus, orchVars
<1>4. CASE m[1] = "completed"
  BY <1>4, CompletedStays DEF HandleNotification
<1> QED BY <1>1, <1>2, <1>3, <1>4, MessageFacts

LEMMA OpenStays ==
    ASSUME Sane, NEW g \in Hosts, NEW q \in Requests, NEW j \in Interactions, NEW s, NEW k,
           OpenLive(j, s, q, k), asker' = [asker EXCEPT ![j] = g]
    PROVE  OffersStay /\ Offered(g, q)'
<1>1. /\ interactions[j].status = "absent"
      /\ interactions' = [interactions EXCEPT ![j] =
            [NoInteraction EXCEPT !.status = "pending", !.session = s, !.request = q, !.kind = k]]
  BY DEF OpenLive, OpenInteraction
<1>2. DOMAIN interactions = Interactions /\ DOMAIN asker = Interactions
  BY DEF Sane, SystemTypeOK, OrchTypeOK, TypeOK, AskerTypeOK
<1>3. interactions'[j].status = "pending" /\ interactions'[j].request = q /\ asker'[j] = g
  BY <1>1, <1>2 DEF NoInteraction
<1>4. ASSUME NEW i \in Interactions, Pending(i)
      PROVE  interactions'[i] = interactions[i] /\ asker'[i] = asker[i]
  BY <1>1, <1>2, <1>4 DEF Pending
<1>5. Offered(g, q)'
  BY <1>3 DEF Offered, Pending, For
<1>6. \A h \in Hosts : \A r \in Requests : Offered(h, r) => Offered(h, r)'
  BY <1>4 DEF Offered, Pending, For
<1> QED BY <1>5, <1>6 DEF OffersStay, Kept, Tracked

LEMMA DecideStays ==
    ASSUME Sane, UNCHANGED asker, NEW i \in Interactions, NEW d, NEW a, NEW st,
           Decide(i, d, a, st), NEW w \in Workers, NEW v,
           writing' = [writing EXCEPT ![w] = AwaitingFor(i, v)]
    PROVE  OffersStay
<1>0. DOMAIN writing = Workers /\ DOMAIN interactions = Interactions
  BY DEF Sane, SystemTypeOK, OrchTypeOK, TypeOK, TaskTypeOK
<1> SUFFICES ASSUME NEW h \in Hosts, NEW r \in Requests,
                    NEW j \in Interactions, Pending(j), For(j, h, r)
             PROVE  Tracked(h, r)'
  BY DEF OffersStay, Offered, Kept
<1>1. CASE j = i
  <2>1. writing'[w].request = r /\ writing'[w].host = h
    BY <1>0, <1>1 DEF AwaitingFor, Awaiting, For
  <2> QED BY <2>1 DEF Tracked, BeingWritten
<1>2. CASE j # i
  <2>1. interactions'[j] = interactions[j]
    BY <1>0, <1>2 DEF Decide, Resolve, CloseAndRefresh
  <2> QED BY <2>1 DEF Tracked, Offered, Pending, For
<1> QED BY <1>1, <1>2


-----------------------------------------------------------------------------
(* Whoever has a request keeps it, or passes it on. *)

LEMMA QueueHands ==
    ASSUME Sane, TurnsSane, UNCHANGED callbacks, OffersStay,
           \/ UNCHANGED inbox
           \/ \E h \in Hosts : \E m : Post(h, m)
    PROVE  HandsStay
<1>1. InboxTypeOK
  BY DEF Sane, SystemTypeOK
<1> QED BY <1>1, InboxStays, CallbacksStay DEF HandsStay

LEMMA AppServerHands == ASSUME Sane, TurnsSane, AppServer PROVE HandsStay
<1>1. UNCHANGED asker /\ UNCHANGED interactions /\ UNCHANGED callbacks
  BY DEF AppServer, StartTurn, Ask, AskElsewhere, NewRequest, EndTurn, StopTurn, Exit, Withdraw,
         orchVars, gateVars
<1>2. \/ UNCHANGED inbox
      \/ \E h \in Hosts : \E m : Post(h, m)
  BY HostFacts DEF AppServer, StartTurn, Ask, AskElsewhere, NewRequest, EndTurn, StopTurn, Exit,
                   Withdraw
<1> QED BY <1>1, <1>2, EndsStay, QueueHands

LEMMA CreationHands ==
    ASSUME Sane, TurnsSane, Creation \/ \E s \in Interactive : OpenTui(s)
                                          \/ \E t \in {s} \cup Resumable : TuiThread(s, t)
    PROVE  HandsStay
<1>1. UNCHANGED asker /\ UNCHANGED callbacks /\ UNCHANGED inbox
  BY DEF Creation, BeginCreate, ThreadStarted, TurnBound, StartupFails, OpenTui, TuiThread,
         hostVars, gateVars
<1>2. UNCHANGED interactions \/ \E s : FailStartup(s)
  BY DEF Creation, BeginCreate, ThreadStarted, TurnBound, StartupFails, OpenTui, TuiThread,
         CreateSession, BindThread, BindTurn, UpdateSessionIfStatus, storeVars
<1> QED BY <1>1, <1>2, EndsStay, QueueHands

LEMMA EndHands ==
    ASSUME Sane, TurnsSane, \/ MonitorClosed \/ ConsumerFailed \/ FinishInterrupt
                            \/ \E w \in Workers : FailWrite(w)
                            \/ \E s \in Sessions : CancelSession(s)
                            \/ \E s \in Interactive : EndClose(s)
    PROVE  HandsStay
<1>1. UNCHANGED asker /\ UNCHANGED callbacks /\ UNCHANGED inbox
  BY DEF MonitorClosed, ConsumerFailed, FinishInterrupt, FailWrite, CancelSession, EndClose,
         hostVars, gateVars
<1>2. InterruptAll \/ (\E s, st : EndIfActive(s, st)) \/ \E S, st : EndSessions(S, st)
  BY DEF MonitorClosed, ConsumerFailed, FinishInterrupt, FailWrite, CancelSession, EndClose
<1> QED BY <1>1, <1>2, EndsStay, QueueHands

LEMMA AnswerHands ==
    ASSUME Sane, TurnsSane, NEW i \in Interactions, NEW d, LarkAnswers(i, d) \/ Expire(i)
    PROVE  HandsStay
<1>1. UNCHANGED asker /\ UNCHANGED callbacks /\ UNCHANGED inbox
  BY DEF LarkAnswers, Expire, hostVars, gateVars
<1>2. OffersStay
  BY <1>1, WorkerFacts, DecideStays DEF LarkAnswers, Expire
<1> QED BY <1>1, <1>2, QueueHands

LEMMA FinishWriteHands ==
    ASSUME Sane, TurnsSane, NEW w \in Workers, FinishWrite(w) PROVE HandsStay
<1>1. UNCHANGED asker /\ UNCHANGED callbacks /\ UNCHANGED interactions /\ TaskTypeOK
  BY DEF FinishWrite, orchVars, Sane, SystemTypeOK
<1>2. writing[w].host \in Hosts
  BY <1>1, WriteFacts DEF FinishWrite
<1>3. \/ UNCHANGED inbox
      \/ \E h \in Hosts : \E m : Post(h, m)
  BY <1>2 DEF FinishWrite, Send, Receive
<1> QED BY <1>1, <1>3, EndsStay, QueueHands

LEMMA TerminalHands ==
    ASSUME Sane, TurnsSane, NEW s \in Interactive, NEW r \in Requests
    PROVE  /\ \A d \in Decisions : TerminalAnswers(s, r, d) => HandsStay
           /\ TerminalErrs(s, r) => HandsStay
<1>1. ASSUME NEW d \in Decisions, TerminalAnswers(s, r, d) PROVE HandsStay
  <2>1. UNCHANGED asker /\ UNCHANGED callbacks /\ UNCHANGED inbox
    BY <1>1 DEF TerminalAnswers, hostVars
  <2>2. CASE UNCHANGED orchVars
    BY <2>1, <2>2, EndsStay, QueueHands DEF orchVars
  <2>3. ASSUME NEW i \in LiveByRequest(r), Decide(i, d, "terminal", "resolved"),
               writing' = [writing EXCEPT ![Terminal(s)] = AwaitingFor(i, d)]
        PROVE  HandsStay
    <3>1. i \in Interactions
      BY DEF LiveByRequest, Sane, SystemTypeOK, OrchTypeOK
    <3>2. OffersStay
      BY <2>1, <2>3, <3>1, WorkerFacts, DecideStays
    <3> QED BY <2>1, <3>2, QueueHands
  <2> QED BY <1>1, <2>2, <2>3 DEF TerminalAnswers
<1>2. ASSUME TerminalErrs(s, r) PROVE HandsStay
  <2>1. UNCHANGED asker /\ UNCHANGED callbacks /\ UNCHANGED interactions
    BY <1>2 DEF TerminalErrs, orchVars
  <2>2. \/ UNCHANGED inbox
        \/ \E h \in Hosts : \E m : Post(h, m)
    BY <1>2, HostFacts DEF TerminalErrs, Send, Receive
  <2> QED BY <2>1, <2>2, EndsStay, QueueHands
<1> QED BY <1>1, <1>2

\* A gateway that closes has an app-server that waits for nothing any more.
LEMMA BeginCloseHands ==
    ASSUME Sane, TurnsSane, NEW s \in Interactive, BeginClose(s) PROVE HandsStay
<1>0. UNCHANGED asker /\ UNCHANGED interactions /\ AskTypeOK
  BY DEF BeginClose, orchVars, Sane, SystemTypeOK
<1>1. OffersStay
  BY <1>0, EndsStay
<1>2. DOMAIN inbox = Hosts /\ DOMAIN callbacks = Interactive
  BY DEF Sane, SystemTypeOK, InboxTypeOK, GateTypeOK
<1>3. ASSUME NEW h \in Hosts, NEW r \in Requests, IsOpen(h, r), Unhandled(h, r)
      PROVE  Kept(h, r)
  <2>1. CASE h = s
    <3>1. Void(s, Requests) /\ s \in Hosts
      BY HostFacts DEF BeginClose
    <3>2. asks'[s][r].state # "open"
      BY <1>0, <3>1, VoidFacts
    <3> QED BY <2>1, <3>2 DEF Kept
  <2>2. CASE h # s
    <3>1. inbox'[h] = inbox[h] /\ (h \in Interactive => callbacks'[h] = callbacks[h])
      BY <1>2, <2>2 DEF BeginClose
    <3>2. Unhandled(h, r)'
      BY <1>3, <3>1 DEF Unhandled, Queued, Called
    <3> QED BY <3>2 DEF Kept, Tracked
  <2> QED BY <2>1, <2>2
<1> QED BY <1>1, <1>3 DEF HandsStay, QueuesStay, CallsStay, Unhandled


\* A request that the consumer takes is inserted, or held by the consumer.
LEMMA ConsumeRequestHands ==
    ASSUME Sane, TurnsSane, ConsumeRequest PROVE HandsStay
<1>0. SystemTypeOK /\ InboxTypeOK /\ TaskTypeOK /\ AskTypeOK /\ Managed \in Hosts
  BY HostFacts DEF Sane, SystemTypeOK
<1>1. PICK k \in 1 .. Len(inbox[Managed]) :
          /\ inbox[Managed][k] \in Message(Managed) /\ IsRequest(inbox[Managed][k])
          /\ TakeRequest(inbox[Managed][k][2])
          /\ inbox' = [inbox EXCEPT ![Managed] = Without(inbox[Managed], k)]
          /\ UNCHANGED callbacks
  BY <1>0, ConsumedFacts DEF gateVars
<1> DEFINE m == inbox[Managed][k]
<1>2. PICK r \in Asked(Managed) : m = RequestMsg(r)
  BY <1>1 DEF IsRequest, RequestMsg, Message
<1>r. r \in Requests /\ m[2] = r
  BY <1>2 DEF Asked, RequestMsg
<1> DEFINE ask == asks[Managed][r]
<1>3. /\ In(inbox[Managed]) \subseteq In(inbox'[Managed]) \cup {m}
      /\ \A g \in Hosts \ {Managed} : inbox'[g] = inbox[g]
  BY <1>0, <1>1, PickQueue
<1>4. m = RequestMsg(r)
  BY <1>2
<1>t. \/ \E i \in Interactions, s \in SessionOfThread(ask.thread) :
           OpenLive(i, s, r, ask.kind) /\ asker' = [asker EXCEPT ![i] = Managed]
      \/ /\ writing' = [writing EXCEPT ![Consumer] =
                           Awaiting(ask.session, Managed, r, "refused")]
         /\ UNCHANGED <<orchVars, asker>>
  BY <1>1, <1>r DEF TakeRequest
<1>5. CallsStay
  BY <1>1, CallbacksStay
<1>6. ASSUME OffersStay, Tracked(Managed, r)' PROVE HandsStay
  <2> SUFFICES ASSUME NEW h \in Hosts, NEW q \in Requests, Queued(h, q) PROVE Tracked(h, q)'
    BY <1>5, <1>6 DEF HandsStay, QueuesStay, Kept
  <2>1. CASE h = Managed /\ q = r
    BY <1>6, <2>1
  <2>2. CASE h # Managed \/ q # r
    <3>1. RequestMsg(q) # RequestMsg(r) \/ h # Managed
      BY <2>2 DEF RequestMsg
    <3>2. RequestMsg(q) \in In(inbox'[h])
      BY <1>3, <1>4, <3>1 DEF Queued
    <3> QED BY <3>2 DEF Tracked, Unhandled, Queued
  <2> QED BY <2>1, <2>2
<1>7. ASSUME NEW i \in Interactions, NEW s, OpenLive(i, s, r, ask.kind),
             asker' = [asker EXCEPT ![i] = Managed]
      PROVE  OffersStay /\ Tracked(Managed, r)'
  <2>1. OffersStay /\ Offered(Managed, r)'
    BY <1>0, <1>r, <1>7, OpenStays
  <2> QED BY <2>1 DEF Tracked
<1>8. ASSUME writing' = [writing EXCEPT ![Consumer] = Awaiting(ask.session, Managed, r, "refused")],
             UNCHANGED <<orchVars, asker>>
      PROVE  OffersStay /\ Tracked(Managed, r)'
  <2>1. OffersStay
    BY <1>8, EndsStay DEF orchVars
  <2>2. writing'[Consumer] = Awaiting(ask.session, Managed, r, "refused")
    BY <1>0, <1>8, WorkerFacts DEF TaskTypeOK
  <2>3. writing'[Consumer].request = r /\ writing'[Consumer].host = Managed
    BY <2>2 DEF Awaiting
  <2> QED BY <2>1, <2>3, WorkerFacts DEF Tracked, BeingWritten
<1> QED BY <1>6, <1>7, <1>8, <1>t

LEMMA ConsumeNotificationHands ==
    ASSUME Sane, TablesOK, TurnsSane, ResolvedIsSettled, RequestsApart, ConsumeNotification
    PROVE  HandsStay
<1>0. SystemTypeOK /\ InboxTypeOK
  BY DEF Sane, SystemTypeOK
<1> DEFINE box == inbox[Managed]
<1>1. PICK k \in 1 .. Len(box) :
        /\ ~ IsRequest(box[k]) /\ HandleNotification(box[k])
        /\ inbox' = [inbox EXCEPT ![Managed] = Without(box, k)]
  BY DEF ConsumeNotification
<1>2. UNCHANGED asker /\ UNCHANGED callbacks
  BY DEF ConsumeNotification, gateVars
<1>3. /\ box[k] \in In(box) /\ In(box) \subseteq In(inbox'[Managed]) \cup {box[k]}
      /\ \A g \in Hosts \ {Managed} : inbox'[g] = inbox[g]
  BY <1>0, <1>1, HostFacts, PickQueue
<1>4. box[k][1] # "request"
  BY <1>1 DEF IsRequest
<1>5. QueuesStay
  BY <1>0, <1>3, <1>4, HostFacts, TakeStays
<1>6. OffersStay
  BY <1>1, <1>2, <1>3, <1>4, HostFacts, NotificationStays
<1> QED BY <1>2, <1>5, <1>6, CallbacksStay DEF HandsStay

LEMMA HandleUpstreamHands ==
    ASSUME Sane, TablesOK, TurnsSane, ResolvedIsSettled, RequestsApart,
           NEW s \in Interactive, HandleUpstream(s)
    PROVE  HandsStay
<1>0. /\ SystemTypeOK /\ InboxTypeOK /\ s \in Hosts /\ DOMAIN callbacks = Interactive
      /\ UNCHANGED asker
  BY HostFacts DEF Sane, SystemTypeOK, GateTypeOK, HandleUpstream
<1> DEFINE m == Head(inbox[s])
<1>1. inbox[s] # <<>> /\ inbox' = [inbox EXCEPT ![s] = Tail(@)]
  BY DEF HandleUpstream
<1>2. /\ In(inbox[s]) \subseteq In(inbox'[s]) \cup {m} /\ m \in In(inbox[s])
      /\ \A g \in Hosts \ {s} : inbox'[g] = inbox[g]
  BY <1>0, <1>1, TakeFacts
<1>3. m \in Message(s)
  BY <1>0, <1>2, LenProperties DEF InboxTypeOK, In
<1>4. m[1] # "request" => QueuesStay
  BY <1>0, <1>2, TakeStays
<1>5. CASE m[1] = "request"
  <2>1. GatewayRequest(s, m[2]) /\ m = RequestMsg(m[2])
    BY <1>3, <1>5 DEF HandleUpstream, Message, RequestMsg
  <2>2. UNCHANGED interactions /\ callbacks' = [callbacks EXCEPT ![s] = @ \cup {m[2]}]
    BY <2>1 DEF GatewayRequest, orchVars
  <2>3. OffersStay
    BY <1>0, <2>2, EndsStay
  <2>4. \A h \in Interactive : callbacks[h] \subseteq callbacks'[h]
    BY <1>0, <2>2
  <2>5. CallsStay
    BY <2>4 DEF CallsStay, Called, Kept, Tracked, Unhandled
  <2>6. ASSUME NEW h \in Hosts, NEW q \in Requests, Queued(h, q) PROVE Unhandled(h, q)'
    <3>1. CASE h = s /\ q = m[2]
      <4>1. q \in callbacks'[s]
        BY <1>0, <2>2, <3>1
      <4> QED BY <3>1, <4>1 DEF Unhandled, Called
    <3>2. CASE h # s \/ q # m[2]
      <4>1. RequestMsg(q) # m \/ h # s
        BY <2>1, <3>2 DEF RequestMsg
      <4>2. RequestMsg(q) \in In(inbox'[h])
        BY <1>2, <2>6, <4>1 DEF Queued
      <4> QED BY <4>2 DEF Unhandled, Queued
    <3> QED BY <3>1, <3>2
  <2>7. QueuesStay
    BY <2>6 DEF QueuesStay, Kept, Tracked
  <2> QED BY <2>3, <2>5, <2>7 DEF HandsStay
<1>6. CASE m[1] = "resolved"
  <2>1. GatewayResolved(s, m[2]) /\ m = ResolvedMsg(m[2]) /\ m[2] \in Asked(s)
    BY <1>3, <1>6 DEF HandleUpstream, Message, ResolvedMsg
  <2>2. RequestResolved(m[2]) /\ callbacks' = [callbacks EXCEPT ![s] = @ \ {m[2]}]
    BY <2>1 DEF GatewayResolved
  <2>3. m[2] \in Requests
    BY <2>1 DEF Asked
  <2>4. OffersStay
    BY <1>0, <1>2, <2>1, <2>2, <2>3, ResolvedStays
  <2>5. ASSUME NEW h \in Hosts, NEW q \in Requests, IsOpen(h, q), Called(h, q)
        PROVE  Unhandled(h, q)'
    <3>1. h # s \/ q # m[2]
      BY <1>0, <1>2, <2>1, <2>5, OpenAskFacts DEF ResolvedIsSettled
    <3>2. q \in callbacks'[h]
      BY <1>0, <2>2, <2>5, <3>1 DEF Called
    <3> QED BY <2>5, <3>2 DEF Unhandled, Called
  <2>6. CallsStay
    BY <2>5 DEF CallsStay, Kept, Tracked
  <2> QED BY <1>4, <1>6, <2>4, <2>6 DEF HandsStay
<1>7. CASE m[1] \notin {"request", "resolved"}
  <2>1. HandleNotification(m) /\ UNCHANGED callbacks
    BY <1>7 DEF HandleUpstream, gateVars
  <2>2. OffersStay
    BY <1>0, <1>2, <1>7, <2>1, NotificationStays
  <2> QED BY <1>4, <1>7, <2>1, <2>2, CallbacksStay DEF HandsStay
<1> QED BY <1>5, <1>6, <1>7


\* A callback runs: its request is inserted, was settled, or is answered.
LEMMA RunCallbackHands ==
    ASSUME Sane, TurnsSane, ResolvedIsSettled, NEW s \in Interactive, NEW r \in Requests,
           RunCallback(s, r)
    PROVE  HandsStay
<1>0. /\ SystemTypeOK /\ InboxTypeOK /\ AskTypeOK /\ s \in Hosts /\ s # Managed
      /\ DOMAIN callbacks = Interactive /\ r \in callbacks[s]
      /\ callbacks' = [callbacks EXCEPT ![s] = @ \ {r}]
  BY HostFacts DEF Sane, SystemTypeOK, GateTypeOK, RunCallback
<1>1. \A h \in Hosts : \A q \in Requests :
         Called(h, q) /\ (h # s \/ q # r) => Called(h, q)'
  BY <1>0 DEF Called
<1>2. ASSUME IsOpen(s, r) => Kept(s, r) PROVE CallsStay
  <2> SUFFICES ASSUME NEW h \in Hosts, NEW q \in Requests, IsOpen(h, q), Called(h, q)
               PROVE  Kept(h, q)
    BY DEF CallsStay
  <2>1. CASE h = s /\ q = r
    BY <1>2, <2>1
  <2>2. CASE h # s \/ q # r
    BY <1>1, <2>2 DEF Kept, Tracked, Unhandled
  <2> QED BY <2>1, <2>2
<1>3. CASE r \in responded[s] /\ UNCHANGED <<orchVars, asks, asker, inbox, responded>>
  <2>1. ~ IsOpen(s, r)
    BY <1>0, <1>3, OpenAskFacts DEF ResolvedIsSettled
  <2>2. OffersStay /\ QueuesStay
    BY <1>0, <1>3, EndsStay, InboxStays DEF orchVars
  <2> QED BY <1>2, <2>1, <2>2 DEF HandsStay
<1>4. ASSUME NEW i \in Interactions, OpenLive(i, s, r, asks[s][r].kind),
             asker' = [asker EXCEPT ![i] = s], UNCHANGED inbox
      PROVE  HandsStay
  <2>1. OffersStay /\ Offered(s, r)'
    BY <1>0, <1>4, OpenStays
  <2>2. Kept(s, r) /\ QueuesStay
    BY <1>0, <1>4, <2>1, InboxStays DEF Kept, Tracked
  <2> QED BY <1>2, <2>1, <2>2 DEF HandsStay
<1>5. ASSUME r \notin responded[s], UNCHANGED <<orchVars, asker>>,
             IF hosts[s] = "up" THEN Send(s, r, "refused") ELSE UNCHANGED <<asks, inbox, responded>>
      PROVE  HandsStay
  <2>1. OffersStay
    BY <1>5, EndsStay DEF orchVars
  <2>2. QueuesStay
    BY <1>0, <1>5, SendStays, InboxStays
  <2>3. ASSUME IsOpen(s, r) PROVE Kept(s, r)
    <3>1. Receive(s, r, "refused") /\ r \in Asked(s)
      BY <1>0, <1>5, <2>3, OpenAskFacts DEF Send
    <3>2. Received(s, r, "refused")
      BY <1>0, <3>1, ReceiveFacts DEF Replies
    <3>3. asks'[s][r].state = "answered"
      BY <1>0, <2>3, <3>1, <3>2, ReceivedStays DEF IsOpen
    <3> QED BY <3>3 DEF Kept
  <2> QED BY <1>2, <2>1, <2>2, <2>3 DEF HandsStay
<1> QED BY <1>3, <1>4, <1>5 DEF RunCallback

LEMMA HandSteps ==
    ASSUME Sane, TablesOK, TurnsSane, ResolvedIsSettled, RequestsApart, [SystemNext]_vars,
           ~ Restart
    PROVE  HandsStay
<1>1. CASE AppServer \/ Creation
  BY <1>1, AppServerHands, CreationHands
<1>2. CASE Orchestrator
  BY <1>2, ConsumeRequestHands, ConsumeNotificationHands, EndHands DEF Orchestrator
<1>3. ASSUME NEW s \in Interactive,
             \/ OpenTui(s)
             \/ \E t \in {s} \cup Resumable : TuiThread(s, t)
             \/ HandleUpstream(s)
             \/ \E r \in Requests : RunCallback(s, r)
             \/ \E r \in Requests, d \in Decisions : TerminalAnswers(s, r, d)
             \/ \E r \in Requests : TerminalErrs(s, r)
             \/ BeginClose(s)
             \/ EndClose(s)
      PROVE  HandsStay
  BY <1>3, CreationHands, HandleUpstreamHands, RunCallbackHands, TerminalHands, BeginCloseHands,
     EndHands
<1>4. CASE Responses
  BY <1>4, AnswerHands, EndHands, FinishWriteHands DEF Responses
<1>5. CASE \E s \in Sessions : CancelSession(s)
  BY <1>5, EndHands
<1>6. CASE UNCHANGED vars
  BY <1>6, EndsStay, QueueHands DEF vars, orchVars, hostVars, gateVars
<1> QED BY <1>1, <1>2, <1>3, <1>4, <1>5, <1>6 DEF SystemNext, Tui

\* The session of an open request has a row.
LEMMA OpenIsPresent ==
    ASSUME Sane, TurnsSane, NEW h \in Hosts, NEW r \in Requests, IsOpen(h, r)
    PROVE  /\ asks[h][r].session \in Sessions
           /\ sessions[asks[h][r].session].status # "absent"
<1>0. AskTypeOK /\ AsksSane /\ asks[h][r].state # "none"
  BY DEF Sane, SystemTypeOK, IsOpen
<1>1. asks[h][r].session \in Sessions
  BY OpenAskFacts
<1>2. CASE Elsewhere(h, r)
  <2>1. asks[h][r].session = h /\ h \in Interactive /\ hosts[h] = "up"
    BY <1>0, <1>2, OpenAskFacts, SaneFacts, TuiOfHost
  <2> QED BY <1>1, <2>1 DEF TurnsSane, Threaded
<1>3. CASE ~ Elsewhere(h, r)
  BY <1>1, <1>3, OpenAskFacts DEF TurnsSane, Threaded
<1> QED BY <1>1, <1>2, <1>3

\* What is open, in a session that goes on, is in somebody's hands.
AllTracked ==
    \A h \in Hosts : \A r \in Requests :
        IsOpen(h, r) /\ Active(asks[h][r].session) => Tracked(h, r)

LEMMA TrackedStep ==
    ASSUME Sane, TablesOK, TurnsSane, ResolvedIsSettled, WritesAttributed, RequestsApart,
           StepKind, SessionsKept, [SystemNext]_vars, AllTracked
    PROVE  AllTracked'
<1>1. CASE Restart
  BY <1>1 DEF Restart, AllTracked, IsOpen, NoAsk
<1>2. CASE ~ Restart
  <2>0. SystemTypeOK /\ AskTypeOK /\ InboxTypeOK
    BY DEF Sane, SystemTypeOK
  <2> SUFFICES ASSUME NEW h \in Hosts, NEW r \in Requests, asks'[h][r].state = "open",
                      sessions'[asks'[h][r].session].status \in ActiveStatus
               PROVE  Tracked(h, r)'
    BY DEF AllTracked, IsOpen, Active
  <2>1. CASE asks[h][r].state = "none"
    <3>1. Asks(h, r)
      BY <1>2, <2>0, <2>1, AskSteps, KeptStays DEF Answers, Asked
    <3>2. Post(h, RequestMsg(r))
      BY <3>1 DEF Asks
    <3>3. In(inbox'[h]) = In(inbox[h]) \cup {RequestMsg(r)}
      BY <2>0, <3>2, PostFacts
    <3>4. RequestMsg(r) \in In(inbox'[h])
      BY <3>3
    <3> QED BY <3>4 DEF Tracked, Unhandled, Queued
  <2>2. CASE asks[h][r].state # "none"
    <3>1. AskStays(h, r)
      BY <1>2, <2>0, AskStaysStep
    <3>2. IsOpen(h, r) /\ asks'[h][r].session = asks[h][r].session
      BY <2>2, <3>1 DEF AskStays, IsOpen
    <3>3. asks[h][r].session \in Sessions /\ sessions[asks[h][r].session].status # "absent"
      BY <3>2, OpenIsPresent
    <3>5. Active(asks[h][r].session)
      BY <3>2, <3>3 DEF SessionsKept, Active
    <3>6. Tracked(h, r)
      BY <3>2, <3>5 DEF AllTracked
    <3>7. HandsStay /\ WritesStay
      BY <1>2, HandSteps, WritesStayStep
    <3>8. Kept(h, r)
      BY <3>2, <3>6, <3>7
         DEF Tracked, Unhandled, HandsStay, QueuesStay, CallsStay, OffersStay, WritesStay
    <3> QED BY <3>2, <3>8 DEF Kept
  <2> QED BY <2>1, <2>2
<1> QED BY <1>1, <1>2

LEMMA TrackedIsTracked ==
    ASSUME AllTracked, PendingIsAnswerable PROVE OpenIsTracked
<1> SUFFICES ASSUME NEW h \in Hosts, NEW r \in Requests, asks[h][r].state = "open",
                    Active(asks[h][r].session)
             PROVE  \/ \E k \in 1 .. Len(inbox[h]) : inbox[h][k] = <<"request", r>>
                    \/ h # Managed /\ r \in callbacks[h]
                    \/ \E i \in live : Pending(i) /\ For(i, h, r)
                    \/ BeingWritten(h, r)
  BY DEF OpenIsTracked
<1>1. Tracked(h, r)
  BY DEF AllTracked, IsOpen
<1>2. Called(h, r) => h # Managed /\ r \in callbacks[h]
  BY HostFacts DEF Called
<1>3. Queued(h, r) => \E k \in 1 .. Len(inbox[h]) : inbox[h][k] = <<"request", r>>
  BY DEF Queued, In, RequestMsg
<1>4. Offered(h, r) => \E i \in live : Pending(i) /\ For(i, h, r)
  BY DEF Offered, PendingIsAnswerable
<1> QED BY <1>1, <1>2, <1>3, <1>4 DEF Tracked, Unhandled

\* No request is lost: as long as an app-server waits for an answer in an active
\* session, its request is in a queue, in a callback of a gateway, in the table with
\* its responder, or in the hands of a worker that awaits the sending.  As long as no
\* two sessions share a thread and no two app-servers use one id: otherwise what one
\* app-server says is resolved takes the interaction of another along
\* (_find_live_by_request_id looks at the id alone).
THEOREM SystemTracked ==
    SystemSpec /\ []ThreadsApart /\ []RequestsApart => []OpenIsTracked
<1>1. SystemInit => WritesAttributed /\ AllTracked
  BY WorkerFacts, NoHost, NoDecision
     DEF SystemInit, WritesAttributed, Sending, AllTracked, IsOpen, NoAsk
<1>2. Sane /\ TablesOK /\ ThreadsApart /\ TurnsSane /\ [SystemNext]_vars => TurnsSane'
  BY TurnsNext
<1>3. Sane /\ TurnsSane /\ WritesAttributed /\ [SystemNext]_vars => WritesAttributed'
  BY SaneStep, AttributedStep
<1>4. Sane /\ TablesOK /\ TurnsSane /\ ResolvedIsSettled /\ WritesAttributed /\ RequestsApart
        /\ AllTracked /\ [SystemNext]_vars => AllTracked'
  BY SaneStep, TrackedStep
<1>5. AllTracked /\ PendingIsAnswerable => OpenIsTracked
  BY TrackedIsTracked
<1> QED BY <1>1, <1>2, <1>3, <1>4, <1>5, TurnsInit, SystemSane, SystemTables, SystemSettled,
           SystemAnswerable, PTL DEF SystemSpec


\* Ids that app-servers do not share, and the requests made with them.
IdsApart == \A h, g \in Hosts : RequestIds[h] \cap RequestIds[g] # {} => h = g

IdsUsed == \A h \in Hosts : Asked(h) \subseteq RequestIds[h]

LEMMA IdsStep ==
    ASSUME Sane, StepKind, IdsUsed PROVE IdsUsed'
<1>1. CASE Restart
  BY <1>1 DEF Restart, IdsUsed, Asked, NoAsk
<1>2. CASE ~ Restart
  <2>0. SystemTypeOK /\ AskTypeOK
    BY DEF Sane, SystemTypeOK
  <2> SUFFICES ASSUME NEW h \in Hosts, NEW r \in Requests, asks'[h][r].state # "none",
                      asks[h][r].state = "none"
               PROVE  r \in RequestIds[h]
    BY DEF IdsUsed, Asked
  <2>1. Asks(h, r)
    BY <1>2, <2>0, AskSteps, KeptStays DEF Answers, Asked
  <2> QED BY <2>1 DEF Asks
<1> QED BY <1>1, <1>2

LEMMA SystemIdsApart == ASSUME IdsApart PROVE SystemSpec => []RequestsApart
<1>1. SystemInit => IdsUsed
  BY DEF SystemInit, IdsUsed, Asked, NoAsk
<1>2. Sane /\ IdsUsed /\ [SystemNext]_vars => IdsUsed'
  BY SaneStep, IdsStep
<1>3. IdsUsed => RequestsApart
  BY DEF IdsUsed, RequestsApart, IdsApart
<1> QED BY <1>1, <1>2, <1>3, SystemSane, PTL DEF SystemSpec

\* So no request is lost where every TUI starts a thread of its own and the ids of the
\* app-servers differ, without a hypothesis on the run.
THEOREM SystemTrackedApart ==
    ASSUME Resumable = {}, IdsApart PROVE SystemSpec => []OpenIsTracked
<1>1. SystemSpec => []ThreadsApart
  BY SystemNothingResumed
<1>2. SystemSpec => []RequestsApart
  BY SystemIdsApart
<1> QED BY <1>1, <1>2, SystemTracked, PTL


-----------------------------------------------------------------------------
(* A gateway knows of a turn before it is asked about it. *)

\* A request that is open, of the turn that is on.
IsOwn(h, r) == IsOpen(h, r) /\ ~ Elsewhere(h, r)

\* Message k of the queue of s says that the turn which is on begins, and no open
\* request of that turn came before it: none waits in a callback, or earlier in the queue.
BegunFirst(s, k) ==
    /\ Begins(inbox[s][k], CurrentTurn(s))
    /\ \A r \in Requests : IsOwn(s, r) =>
          r \notin callbacks[s] /\ \A j \in 1 .. k : inbox[s][j] # RequestMsg(r)

\* The turn which is on is on record, or what says that it begins is on its way.
StartedFirst(s) ==
    turns[s].on /\ Active(s) =>
        sessions[s].turn = CurrentTurn(s) \/ \E k \in 1 .. Len(inbox[s]) : BegunFirst(s, k)

\* Requests that are open were open, or are new in every respect.
OpensLate(s) ==
    \A r \in Requests : IsOwn(s, r)' =>
        \/ IsOwn(s, r)
        \/ RequestMsg(r) \notin In(inbox[s]) /\ r \notin callbacks[s]
CallsLate(s) ==
    \A r \in Requests : r \in callbacks'[s] =>
        r \in callbacks[s] \/ (inbox[s] # <<>> /\ inbox[s][1] = RequestMsg(r))

LEMMA LateSteps ==
    ASSUME Sane, StepKind, ~ Restart, NEW s \in Interactive
    PROVE  OpensLate(s) /\ CallsLate(s)
<1>0. SystemTypeOK /\ AskTypeOK /\ InboxTypeOK /\ s \in Hosts
  BY HostFacts DEF Sane, SystemTypeOK
<1>1. ASSUME NEW r \in Requests, IsOwn(s, r)', ~ IsOwn(s, r)
      PROVE  RequestMsg(r) \notin In(inbox[s]) /\ r \notin callbacks[s]
  <2>1. AskStays(s, r)
    BY <1>0, AskStaysStep
  <2>2. asks[s][r].state = "none"
    BY <1>1, <2>1 DEF AskStays, IsOwn, IsOpen, Elsewhere
  <2>3. ~ Unhandled(s, r)
    BY <1>0, <2>2, InNoHand
  <2> QED BY <2>3 DEF Unhandled, Queued, Called
<1>2. ASSUME NEW r \in Requests, r \in callbacks'[s], r \notin callbacks[s]
      PROVE  inbox[s] # <<>> /\ inbox[s][1] = RequestMsg(r)
  <2>1. ~ CallsKept /\ callbacks' # callbacks
    BY <1>2 DEF CallsKept
  <2>2. PICK h \in Hosts, q \in Requests : Calls(h, q)
    BY <2>1 DEF StepKind, Plain, GatePart, Asks, Opens, Refuses, Decides, Answers, TurnsAway, Errs,
                Forwards, gateVars
  <2>3. inbox[s] # <<>> /\ Head(inbox[s]) = RequestMsg(r)
    BY <1>2, <2>2 DEF Calls
  <2>4. Head(inbox[s]) = inbox[s][1]
    BY <1>0, <2>3, HeadTailProperties DEF InboxTypeOK
  <2> QED BY <2>3, <2>4
<1> QED BY <1>1, <1>2 DEF OpensLate, CallsLate

\* The queue of s stays, gets a message, or loses one that does not say that the turn
\* which is on begins.
BoxOnward(s) ==
    \/ inbox'[s] = inbox[s]
    \/ \E m : inbox'[s] = Append(inbox[s], m)
    \/ /\ inbox[s] # <<>> /\ inbox'[s] = Tail(inbox[s])
       /\ ~ Begins(inbox[s][1], CurrentTurn(s))

\* The turn of s goes on: nothing that says so is lost.
GoesOn(s) ==
    /\ sessions'[s].status \in ActiveStatus => Active(s)
    /\ turns'[s].on => turns[s].on
    /\ turns'[s].number = turns[s].number
    /\ sessions[s].turn = CurrentTurn(s) => sessions'[s].turn = sessions[s].turn
    /\ BoxOnward(s)

\* What a step does to the turn of s: it is over, goes on, begins, or is put on record.
Onward(s) ==
    \/ ~ turns'[s].on
    \/ sessions'[s].status \notin ActiveStatus
    \/ GoesOn(s)
    \/ /\ ~ turns[s].on /\ UNCHANGED <<asks, callbacks>>
       /\ \E m : inbox'[s] = Append(inbox[s], m) /\ Begins(m, <<s, turns'[s].number>>)
    \/ sessions'[s].turn = <<s, turns'[s].number>>

LEMMA BegunStays ==
    ASSUME InboxTypeOK, NEW s \in Interactive, GoesOn(s), OpensLate(s), CallsLate(s),
           NEW k \in 1 .. Len(inbox[s]), BegunFirst(s, k)
    PROVE  \E n \in 1 .. Len(inbox'[s]) : BegunFirst(s, n)'
<1> DEFINE u == CurrentTurn(s)
           q == inbox[s]
<1>0. s \in Hosts /\ q \in Seq(Message(s)) /\ Len(q) \in Nat /\ k \in Nat /\ k >= 1 /\ k <= Len(q)
  BY HostFacts, LenProperties DEF InboxTypeOK
<1>1. CurrentTurn(s)' = u /\ Begins(q[k], u)
  BY DEF GoesOn, CurrentTurn, BegunFirst
<1>2. ASSUME NEW r \in Requests, IsOwn(s, r)'
      PROVE  r \notin callbacks'[s] /\ \A j \in 1 .. k : q[j] # RequestMsg(r)
  <2>1. CASE IsOwn(s, r)
    <3>1. r \notin callbacks[s] /\ \A j \in 1 .. k : q[j] # RequestMsg(r)
      BY <2>1 DEF BegunFirst
    <3>2. q[1] # RequestMsg(r)
      BY <1>0, <3>1
    <3> QED BY <3>1, <3>2 DEF CallsLate
  <2>2. CASE RequestMsg(r) \notin In(q) /\ r \notin callbacks[s]
    <3>1. \A j \in 1 .. Len(q) : q[j] # RequestMsg(r)
      BY <2>2 DEF In
    <3>2. \A j \in 1 .. k : q[j] # RequestMsg(r)
      BY <1>0, <3>1
    <3>3. q[1] # RequestMsg(r)
      BY <1>0, <3>1
    <3> QED BY <2>2, <3>2, <3>3 DEF CallsLate
  <2> QED BY <1>2, <2>1, <2>2 DEF OpensLate
<1> HIDE DEF u
<1>3. ASSUME NEW n \in 1 .. Len(inbox'[s]), Begins(inbox'[s][n], u),
             \A r \in Requests : IsOwn(s, r)' =>
                 \A j \in 1 .. n : inbox'[s][j] # RequestMsg(r)
      PROVE  BegunFirst(s, n)'
  BY <1>1, <1>2, <1>3 DEF BegunFirst
<1>4. CASE inbox'[s] = q
  BY <1>0, <1>1, <1>2, <1>3, <1>4
<1>5. ASSUME NEW m, inbox'[s] = Append(q, m) PROVE \E n \in 1 .. Len(inbox'[s]) : BegunFirst(s, n)'
  <2>1. Len(inbox'[s]) = Len(q) + 1 /\ \A j \in 1 .. Len(q) : inbox'[s][j] = q[j]
    BY <1>0, <1>5
  <2>2. k \in 1 .. Len(inbox'[s]) /\ \A j \in 1 .. k : inbox'[s][j] = q[j]
    BY <1>0, <2>1
  <2>3. Begins(inbox'[s][k], u)
    BY <1>0, <1>1, <2>1
  <2> QED BY <1>2, <1>3, <2>2, <2>3
<1>6. CASE q # <<>> /\ inbox'[s] = Tail(q) /\ ~ Begins(q[1], u)
  <2>1. Len(inbox'[s]) = Len(q) - 1 /\ \A j \in 1 .. Len(q) - 1 : inbox'[s][j] = q[j + 1]
    BY <1>0, <1>6, HeadTailProperties
  <2>2. k # 1
    BY <1>1, <1>6
  <2>3. k - 1 \in 1 .. Len(inbox'[s]) /\ (k - 1) + 1 = k
        /\ \A j \in 1 .. k - 1 : inbox'[s][j] = q[j + 1] /\ j + 1 \in 1 .. k
    BY <1>0, <2>1, <2>2
  <2>4. Begins(inbox'[s][k - 1], u)
    <3>1. k - 1 \in 1 .. k - 1
      BY <1>0, <2>2
    <3> QED BY <1>1, <2>3, <3>1
  <2>5. \A r \in Requests : IsOwn(s, r)' =>
            \A j \in 1 .. k - 1 : inbox'[s][j] # RequestMsg(r)
    BY <1>2, <2>3
  <2> QED BY <1>3, <2>3, <2>4, <2>5
<1> QED BY <1>4, <1>5, <1>6 DEF GoesOn, BoxOnward, u

\* An app-server waits for nothing of a turn that is not on.
LEMMA OpenIsOn ==
    ASSUME Sane, NEW s \in Interactive, NEW r \in Requests, IsOwn(s, r)
    PROVE  turns[s].on /\ asks[s][r].session = s /\ asks[s][r].turn = CurrentTurn(s)
<1>1. s \in Hosts
  BY HostFacts
<1>2. asks[s][r].session = s
  BY <1>1, OpenAskFacts, TuiOfHost DEF IsOwn
<1> QED BY <1>1, <1>2, OpenAskFacts DEF IsOwn

LEMMA StartedStays ==
    ASSUME Sane, NEW s \in Interactive, StartedFirst(s), Onward(s), OpensLate(s), CallsLate(s)
    PROVE  StartedFirst(s)'
<1>0. InboxTypeOK /\ s \in Hosts /\ inbox[s] \in Seq(Message(s))
  BY HostFacts DEF Sane, SystemTypeOK, InboxTypeOK
<1> SUFFICES ASSUME turns'[s].on, sessions'[s].status \in ActiveStatus
             PROVE  \/ sessions'[s].turn = <<s, turns'[s].number>>
                    \/ \E n \in 1 .. Len(inbox'[s]) : BegunFirst(s, n)'
  BY DEF StartedFirst, Active, CurrentTurn
<1>1. CASE GoesOn(s)
  <2>1. turns[s].on /\ Active(s) /\ CurrentTurn(s) = <<s, turns'[s].number>>
    BY <1>1 DEF GoesOn, CurrentTurn
  <2>2. CASE sessions[s].turn = CurrentTurn(s)
    BY <1>1, <2>1, <2>2 DEF GoesOn
  <2>3. CASE \E k \in 1 .. Len(inbox[s]) : BegunFirst(s, k)
    BY <1>0, <1>1, <2>3, BegunStays
  <2> QED BY <2>1, <2>2, <2>3 DEF StartedFirst
<1>2. ASSUME ~ turns[s].on, UNCHANGED <<asks, callbacks>>,
             NEW m, inbox'[s] = Append(inbox[s], m), Begins(m, <<s, turns'[s].number>>)
      PROVE  \E n \in 1 .. Len(inbox'[s]) : BegunFirst(s, n)'
  <2>1. \A r \in Requests : ~ IsOwn(s, r)'
    BY <1>2, OpenIsOn DEF IsOwn, IsOpen, Elsewhere
  <2>2. Len(inbox'[s]) = Len(inbox[s]) + 1 /\ inbox'[s][Len(inbox[s]) + 1] = m
        /\ Len(inbox[s]) \in Nat
    BY <1>0, <1>2
  <2>3. Len(inbox'[s]) \in 1 .. Len(inbox'[s]) /\ inbox'[s][Len(inbox'[s])] = m
    BY <2>2
  <2>4. PICK n \in 1 .. Len(inbox'[s]) : inbox'[s][n] = m
    BY <2>3
  <2>5. BegunFirst(s, n)'
    BY <1>2, <2>1, <2>4 DEF BegunFirst, CurrentTurn
  <2> QED BY <2>5
<1> QED BY <1>1, <1>2 DEF Onward


-----------------------------------------------------------------------------
(* Every step leaves a turn as it is, or moves it on. *)

LEMMA SameOnward ==
    ASSUME NEW s, sessions'[s] = sessions[s], inbox'[s] = inbox[s],
           turns'[s].on => turns[s].on, turns'[s].number = turns[s].number
    PROVE  Onward(s)
  BY DEF Onward, GoesOn, BoxOnward, Active

LEMMA SteadyOnward ==
    ASSUME SystemTypeOK, Steady, NEW s \in Interactive PROVE Onward(s)
<1>0. InboxTypeOK /\ s \in Hosts /\ s \in Sessions /\ inbox[s] \in Seq(Message(s))
  BY HostFacts DEF SystemTypeOK, InboxTypeOK
<1>1. /\ sessions'[s].turn = sessions[s].turn
      /\ sessions'[s].status \in ActiveStatus => Active(s)
      /\ turns'[s].on = turns[s].on /\ turns'[s].number = turns[s].number
      /\ BoxSteady(s)
  BY <1>0 DEF Steady, RowsSteady, RowSteady, TurnsSteady, BoxesSteady
<1>2. BoxOnward(s)
  <2>1. CASE inbox[s] # <<>> /\ ~ IsTurn(Head(inbox[s])) /\ inbox'[s] = Tail(inbox[s])
    <3>1. Head(inbox[s]) = inbox[s][1]
      BY <1>0, <2>1, HeadTailProperties
    <3> QED BY <2>1, <3>1 DEF BoxOnward, IsTurn, Begins
  <2> QED BY <1>1, <2>1 DEF BoxSteady, BoxOnward
<1> QED BY <1>1, <1>2 DEF Onward, GoesOn

\* Only what is said to s, and what the daemon does with it, changes its turn.
LEMMA OthersOnward ==
    ASSUME InboxTypeOK, NEW q \in Sessions, NEW s \in Interactive, s # q,
           sessions'[s] = sessions[s], turns'[s] = turns[s],
           \/ UNCHANGED inbox
           \/ \E m : Post(HostOf(q), m)
    PROVE  Onward(s)
<1>1. s \in Hosts /\ HostOf(q) \in Hosts /\ HostOf(q) # s
  BY HostFacts DEF HostOf
<1>2. inbox'[s] = inbox[s]
  BY <1>1, PostFacts
<1> QED BY <1>2, SameOnward

LEMMA StartTurnOnward ==
    ASSUME SystemTypeOK, NEW q \in Sessions, StartTurn(q), NEW s \in Interactive
    PROVE  Onward(s)
<1> DEFINE y == [turns[q] EXCEPT !.number = turns[q].number + 1, !.on = TRUE]
           m == <<"started", turns[q].thread, <<q, turns[q].number + 1>> >>
<1>0. TurnTypeOK /\ InboxTypeOK /\ turns[q] \in TurnRecord
  BY DEF SystemTypeOK, TurnTypeOK
<1>1. /\ turns' = [turns EXCEPT ![q] = y] /\ Post(HostOf(q), m) /\ ~ turns[q].on
      /\ UNCHANGED orchVars /\ UNCHANGED asks /\ UNCHANGED gateVars
  BY DEF StartTurn
<1>2. y.number = turns[q].number + 1
  BY <1>0 DEF TurnRecord
<1>3. Begins(m, <<q, turns[q].number + 1>>)
  BY DEF Begins
<1> HIDE DEF y, m
<1>4. turns'[q] = y /\ \A x \in Sessions \ {q} : turns'[x] = turns[x]
  BY <1>0, <1>1, TurnOf
<1>5. CASE s = q
  <2>1. s \in Hosts /\ HostOf(q) = s
    BY <1>5, HostFacts
  <2>2. inbox'[s] = Append(inbox[s], m)
    BY <1>0, <1>1, <2>1, PostFacts
  <2>3. Begins(m, <<s, turns'[s].number>>) /\ ~ turns[s].on /\ UNCHANGED <<asks, callbacks>>
    BY <1>1, <1>2, <1>3, <1>4, <1>5 DEF gateVars
  <2> QED BY <2>2, <2>3 DEF Onward
<1>6. CASE s # q
  BY <1>0, <1>1, <1>4, <1>6, OthersOnward, HostFacts DEF orchVars
<1> QED BY <1>5, <1>6

LEMMA EndTurnOnward ==
    ASSUME SystemTypeOK, NEW q \in Sessions, NEW o, EndTurn(q, o), NEW s \in Interactive
    PROVE  Onward(s)
<1> DEFINE y == [turns[q] EXCEPT !.on = FALSE, !.stop = FALSE]
           m == <<"completed", turns[q].thread, CurrentTurn(q), o>>
<1>0. TurnTypeOK /\ InboxTypeOK
  BY DEF SystemTypeOK
<1>1. turns' = [turns EXCEPT ![q] = y] /\ Post(HostOf(q), m) /\ UNCHANGED orchVars
  BY DEF EndTurn
<1>2. ~ y.on
  BY <1>0, TurnsOff
<1> HIDE DEF y, m
<1>3. turns'[q] = y /\ \A x \in Sessions \ {q} : turns'[x] = turns[x]
  BY <1>0, <1>1, TurnOf
<1>4. CASE s = q
  BY <1>2, <1>3, <1>4 DEF Onward
<1>5. CASE s # q
  BY <1>0, <1>1, <1>3, <1>5, OthersOnward, HostFacts DEF orchVars
<1> QED BY <1>4, <1>5

LEMMA ExitOnward ==
    ASSUME SystemTypeOK, NEW h \in Hosts, Exit(h), NEW s \in Interactive PROVE Onward(s)
<1>0. TurnTypeOK /\ s \in Sessions
  BY HostFacts DEF SystemTypeOK
<1>1. /\ turns'[s] = IF HostOf(s) = h THEN [turns[s] EXCEPT !.on = FALSE, !.stop = FALSE]
                     ELSE turns[s]
      /\ UNCHANGED orchVars /\ UNCHANGED inbox
  BY <1>0 DEF Exit
<1>2. (turns'[s].on => turns[s].on) /\ turns'[s].number = turns[s].number
  BY <1>0, <1>1, TurnsOff
<1> QED BY <1>1, <1>2, SameOnward DEF orchVars

LEMMA BeginCloseOnward ==
    ASSUME SystemTypeOK, NEW q \in Interactive, BeginClose(q), NEW s \in Interactive
    PROVE  Onward(s)
<1> DEFINE y == [turns[q] EXCEPT !.on = FALSE, !.stop = FALSE]
<1>0. TurnTypeOK /\ InboxTypeOK /\ q \in Sessions /\ s \in Sessions /\ s \in Hosts
  BY HostFacts DEF SystemTypeOK
<1>1. turns' = [turns EXCEPT ![q] = y] /\ inbox' = [inbox EXCEPT ![q] = <<>>]
      /\ UNCHANGED orchVars
  BY DEF BeginClose
<1>2. ~ y.on
  BY <1>0, TurnsOff
<1> HIDE DEF y
<1>3. turns'[q] = y /\ \A x \in Sessions \ {q} : turns'[x] = turns[x]
  BY <1>0, <1>1, TurnOf
<1>4. CASE s = q
  BY <1>2, <1>3, <1>4 DEF Onward
<1>5. CASE s # q
  <2>1. inbox'[s] = inbox[s] /\ turns'[s] = turns[s]
    BY <1>0, <1>1, <1>3, <1>5 DEF InboxTypeOK
  <2> QED BY <1>1, <2>1, SameOnward DEF orchVars
<1> QED BY <1>4, <1>5

\* A session without a thread has no turn.
LEMMA NoThreadNoTurn ==
    ASSUME SystemTypeOK, NEW s \in Sessions, turns[s].thread = NoValue PROVE ~ turns[s].on
  BY DEF SystemTypeOK, TurnTypeOK, SaneTurn

LEMMA OpenTuiOnward ==
    ASSUME SystemTypeOK, TurnsSane, NEW q \in Interactive, OpenTui(q), NEW s \in Interactive
    PROVE  Onward(s)
<1> DEFINE y == [sessions[q] EXCEPT !.status = "starting"]
<1>0. q \in Sessions /\ s \in Sessions /\ DOMAIN sessions = Sessions
  BY HostFacts DEF SystemTypeOK, OrchTypeOK, TypeOK
<1>1. /\ sessions[q].status = "absent" /\ sessions' = [sessions EXCEPT ![q] = y]
      /\ UNCHANGED inbox /\ UNCHANGED turns
  BY DEF OpenTui, CreateSession
<1>2. CASE s = q
  <2>1. ~ turns[s].on
    BY <1>0, <1>1, <1>2, NoThreadNoTurn DEF TurnsSane, Threaded
  <2> QED BY <1>1, <2>1 DEF Onward
<1>3. CASE s # q
  BY <1>0, <1>1, <1>3, SameOnward
<1> QED BY <1>2, <1>3

LEMMA TuiThreadOnward ==
    ASSUME SystemTypeOK, NEW q \in Interactive, NEW t, TuiThread(q, t), NEW s \in Interactive
    PROVE  Onward(s)
<1> DEFINE y == [turns[q] EXCEPT !.thread = t]
<1>0. q \in Sessions /\ s \in Sessions /\ TurnTypeOK /\ turns[q] \in TurnRecord
  BY HostFacts DEF SystemTypeOK, TurnTypeOK
<1>1. /\ turns[q].thread = NoValue /\ turns' = [turns EXCEPT ![q] = y] /\ UNCHANGED inbox
      /\ BindThread(q, t) \/ UNCHANGED sessions
  BY DEF TuiThread, storeVars
<1>2. y.on = turns[q].on
  BY <1>0 DEF TurnRecord
<1> HIDE DEF y
<1>3. turns'[q] = y /\ \A x \in Sessions \ {q} : turns'[x] = turns[x]
  BY <1>0, <1>1, TurnOf
<1>4. \A x \in Sessions \ {q} : sessions'[x] = sessions[x]
  BY <1>0, <1>1, BoundRow
<1>5. CASE s = q
  <2>1. ~ turns'[s].on
    BY <1>0, <1>1, <1>2, <1>3, <1>5, NoThreadNoTurn
  <2> QED BY <2>1 DEF Onward
<1>6. CASE s # q
  BY <1>0, <1>1, <1>3, <1>4, <1>6, SameOnward
<1> QED BY <1>5, <1>6

LEMMA ThreadStartedOnward ==
    ASSUME SystemTypeOK, TurnsSane, NEW q \in Sessions, ThreadStarted(q), NEW s \in Interactive
    PROVE  Onward(s)
<1> DEFINE y == [turns[q] EXCEPT !.thread = q]
<1>0. s \in Sessions /\ TurnTypeOK /\ Threaded(q)
  BY HostFacts DEF SystemTypeOK, TurnsSane
<1>1. /\ creating[q] = "thread" /\ turns' = [turns EXCEPT ![q] = y] /\ UNCHANGED inbox
      /\ BindThread(q, q) \/ FailStartup(q)
  BY DEF ThreadStarted
<1>2. s # q
  BY <1>0, <1>1 DEF Threaded
<1> HIDE DEF y
<1>3. turns'[s] = turns[s]
  BY <1>0, <1>1, <1>2, TurnOf
<1>4. sessions'[s] = sessions[s]
  <2>1. CASE BindThread(q, q)
    BY <1>0, <1>2, <2>1, BoundRow
  <2>2. CASE FailStartup(q)
    BY <1>0, <1>2, <2>2 DEF FailStartup, ClaimTerminal, orchVars, storeVars
  <2> QED BY <1>1, <2>1, <2>2
<1> QED BY <1>1, <1>3, <1>4, SameOnward


LEMMA UpstreamOnward ==
    ASSUME Sane, ThreadsApart, TurnsSane, NEW q \in Interactive, HandleUpstream(q),
           Head(inbox[q])[1] \in {"started", "completed"}, NEW s \in Interactive
    PROVE  Onward(s)
<1> DEFINE m == Head(inbox[q])
           u == m[3]
<1>0. /\ SystemTypeOK /\ InboxTypeOK /\ TypeOK /\ TurnTypeOK /\ q \in Hosts /\ q \in Sessions
      /\ s \in Hosts /\ s \in Sessions /\ DOMAIN sessions = Sessions
      /\ sessions[q] \in SessionRow /\ Threaded(q)
  BY HostFacts, RowsType DEF Sane, SystemTypeOK, OrchTypeOK, TypeOK, TurnsSane
<1>1. /\ inbox[q] # <<>> /\ inbox' = [inbox EXCEPT ![q] = Tail(@)]
      /\ UNCHANGED <<hosts, turns, creating>>
      /\ m[1] = "started" => TurnStarted(m[2], u)
      /\ m[1] = "completed" => TurnCompleted(m[2], u, m[4])
  BY DEF HandleUpstream, HandleNotification, taskVars
<1>2. m \in In(inbox[q]) /\ m = inbox[q][1] /\ IsTurn(m)
  BY <1>0, <1>1, TakeFacts DEF IsTurn
<1>3. /\ u \in Turns /\ m[2] = turns[q].thread /\ turns[q].thread # NoValue
      /\ m[1] = "completed" => ~ (turns[q].on /\ u = CurrentTurn(q))
  <2>1. u \in Turns /\ u[1] \in Sessions
    BY <1>0, <1>2, TurnMessageFacts
  <2>2. /\ HostOf(u[1]) = q /\ m[2] = turns[u[1]].thread /\ m[2] # NoValue
        /\ m[1] = "completed" => ~ (turns[u[1]].on /\ u = CurrentTurn(u[1]))
    BY <1>0, <1>2 DEF TurnsSane, MessagesSane, MessageSane
  <2> QED BY <2>1, <2>2, TuiOfHost
<1>4. SessionOfThread(m[2]) \subseteq {q} /\ (Active(q) => q \in SessionOfThread(m[2]))
  BY <1>0, <1>3, FoundByThread
<1>5. inbox'[q] = Tail(inbox[q]) /\ \A h \in Hosts \ {q} : inbox'[h] = inbox[h]
  BY <1>0, <1>1 DEF InboxTypeOK
<1>6. CASE UNCHANGED sessions
  <2>1. CASE s # q
    BY <1>0, <1>1, <1>5, <1>6, <2>1, SameOnward
  <2>2. CASE s = q /\ ~ Begins(inbox[q][1], CurrentTurn(q))
    BY <1>1, <1>5, <1>6, <2>2 DEF Onward, GoesOn, BoxOnward, Active
  <2>3. CASE s = q /\ Begins(inbox[q][1], CurrentTurn(q))
    <3>1. m[1] = "started"
      BY <1>2, <2>3 DEF Begins
    <3>2. CASE ~ Active(q)
      BY <1>6, <2>3, <3>2 DEF Onward, Active
    <3>3. CASE Active(q)
      <4>1. BindTurn(q, u)
        BY <1>1, <1>4, <3>1, <3>3 DEF TurnStarted
      <4>2. sessions'[q] = [sessions[q] EXCEPT !.status = "running", !.turn = u]
        BY <1>0, <4>1 DEF BindTurn, UpdateSessionIfStatus
      <4>3. sessions'[q].turn = u
        BY <1>0, <4>2 DEF SessionRow
      <4>4. u = <<s, turns'[s].number>>
        BY <1>1, <1>2, <2>3 DEF Begins, CurrentTurn
      <4> QED BY <2>3, <4>3, <4>4 DEF Onward
    <3> QED BY <3>2, <3>3
  <2> QED BY <2>1, <2>2, <2>3
<1>7. ASSUME NEW v \in Turns \cup {NoValue}, Active(q), turns[q].on,
             sessions' = [sessions EXCEPT ![q] =
                             [sessions[q] EXCEPT !.status = "running", !.turn = v]],
             \/ m[1] = "started" /\ v = u
             \/ m[1] = "completed" /\ sessions[q].turn = u
      PROVE  Onward(s)
  <2>1. sessions'[q] = [sessions[q] EXCEPT !.status = "running", !.turn = v]
        /\ \A x \in Sessions \ {q} : sessions'[x] = sessions[x]
    BY <1>0, <1>7
  <2>2. sessions'[q].turn = v
    BY <1>0, <2>1 DEF SessionRow
  <2>3. CASE s # q
    BY <1>0, <1>1, <1>5, <2>1, <2>3, SameOnward
  <2>4. CASE s = q /\ m[1] = "started" /\ v = u
    <3>1. CASE u = CurrentTurn(q)
      BY <1>1, <2>2, <2>4, <3>1 DEF Onward, CurrentTurn
    <3>2. CASE u # CurrentTurn(q)
      <4>1. sessions[q].turn \notin Turns
        BY <1>0, <1>1, <1>2, <1>7, <2>4, OrderedOther DEF TurnsSane, InOrder, InboxTypeOK
      <4>2. CurrentTurn(q) \in Turns
        <5>1. turns[q] \in TurnRecord /\ turns[q].number > 0
          BY <1>0, <1>7 DEF TurnTypeOK, SaneTurn
        <5>2. turns[q].number \in 1 .. MaxTurns
          BY <5>1 DEF TurnRecord
        <5> QED BY <1>0, <5>2, TurnsAssumption DEF CurrentTurn
      <4>3. ~ Begins(inbox[q][1], CurrentTurn(q))
        BY <1>2, <3>2 DEF Begins
      <4> QED BY <1>1, <1>5, <1>7, <2>4, <4>1, <4>2, <4>3 DEF Onward, GoesOn, BoxOnward
    <3> QED BY <3>1, <3>2
  <2>5. CASE s = q /\ m[1] = "completed" /\ sessions[q].turn = u
    <3>1. sessions[q].turn # CurrentTurn(q) /\ ~ Begins(inbox[q][1], CurrentTurn(q))
      BY <1>2, <1>3, <1>7, <2>5 DEF Begins
    <3> QED BY <1>1, <1>5, <1>7, <2>5, <3>1 DEF Onward, GoesOn, BoxOnward
  <2> QED BY <1>7, <2>3, <2>4, <2>5
<1>8. CASE ~ turns[q].on
  <2>1. CASE s = q
    BY <1>1, <1>8, <2>1 DEF Onward
  <2>2. CASE s # q
    <3>1. sessions'[s] = sessions[s]
      <4>1. CASE m[1] = "started"
        <5>1. UNCHANGED sessions \/ BindTurn(q, u)
          BY <1>1, <1>4, <4>1 DEF TurnStarted, orchVars, storeVars
        <5> QED BY <1>0, <2>2, <5>1 DEF BindTurn, UpdateSessionIfStatus
      <4>2. CASE m[1] = "completed"
        <5>1. UNCHANGED sessions \/ FinishTurn(q, u)
          BY <1>1, <1>4, <4>2 DEF TurnCompleted, FinishInteractive, orchVars, storeVars
        <5> QED BY <1>0, <2>2, <5>1 DEF FinishTurn
      <4> QED BY <1>2, <4>1, <4>2 DEF IsTurn
    <3> QED BY <1>1, <1>5, <2>2, <3>1, SameOnward, <1>0
  <2> QED BY <2>1, <2>2
<1>9. CASE m[1] = "started" /\ turns[q].on
  <2>1. UNCHANGED sessions \/ (Active(q) /\ BindTurn(q, u))
    BY <1>1, <1>4, <1>9 DEF TurnStarted, orchVars, storeVars
  <2>2. BindTurn(q, u) => sessions' = [sessions EXCEPT ![q] =
                             [sessions[q] EXCEPT !.status = "running", !.turn = u]]
    BY DEF BindTurn, UpdateSessionIfStatus
  <2> HIDE DEF u, m
  <2> QED BY <1>3, <1>6, <1>7, <1>9, <2>1, <2>2
<1>10. CASE m[1] = "completed" /\ turns[q].on
  <2>1. UNCHANGED sessions \/ (Active(q) /\ sessions[q].turn = u /\ FinishTurn(q, u))
    BY <1>1, <1>4, <1>10 DEF TurnCompleted, FinishInteractive, orchVars, storeVars
  <2>2. FinishTurn(q, u) => sessions' = [sessions EXCEPT ![q] =
                             [sessions[q] EXCEPT !.status = "running", !.turn = NoValue]]
    BY DEF FinishTurn
  <2> HIDE DEF u, m
  <2> QED BY <1>6, <1>7, <1>10, <2>1, <2>2
<1> QED BY <1>2, <1>8, <1>9, <1>10 DEF IsTurn

LEMMA HeardOnward ==
    ASSUME Sane, ThreadsApart, TurnsSane, NEW q \in Interactive, HandleUpstream(q),
           NEW s \in Interactive
    PROVE  Onward(s)
<1>1. SystemTypeOK
  BY DEF Sane
<1>2. CASE Head(inbox[q])[1] \in {"request", "resolved"}
  BY <1>1, <1>2, HeardSteady, SteadyOnward
<1> QED BY <1>1, <1>2, HeardFacts, UpstreamOnward

LEMMA OnwardSteps ==
    ASSUME Sane, ThreadsApart, TurnsSane, [SystemNext]_vars, ~ Restart, NEW s \in Interactive
    PROVE  Onward(s)
<1>0. SystemTypeOK /\ AsksSane
  BY DEF Sane
<1>1. CASE AppServer
  <2>1. ASSUME NEW q \in Sessions, NEW r \in Requests, NEW k \in Kinds,
               Ask(q, r, k) \/ \E t \in OtherThreads : AskElsewhere(q, t, r, k)
        PROVE  Onward(s)
    BY <1>0, <2>1, AskingFacts, AskSteady, SteadyOnward
  <2>2. ASSUME NEW h \in Hosts, NEW r \in Requests, Withdraw(h, r) PROVE Onward(s)
    BY <1>0, <2>2, WithdrawSteady, SteadyOnward
  <2> QED BY <1>0, <1>1, <2>1, <2>2, StartTurnOnward, EndTurnOnward, ExitOnward
          DEF AppServer, StopTurn
<1>2. CASE Creation
  BY <1>0, <1>2, CreateSteady, SteadyOnward, ThreadStartedOnward DEF Creation
<1>3. CASE Orchestrator
  BY <1>0, <1>3, ConsumeRequestSteady, ConsumeNotificationSteady, OrchestratorEndsSteady,
     SteadyOnward DEF Orchestrator
<1>4. ASSUME NEW q \in Interactive,
             \/ OpenTui(q)
             \/ \E t \in {q} \cup Resumable : TuiThread(q, t)
             \/ HandleUpstream(q)
             \/ \E r \in Requests : RunCallback(q, r)
             \/ \E r \in Requests, d \in Decisions : TerminalAnswers(q, r, d)
             \/ \E r \in Requests : TerminalErrs(q, r)
             \/ BeginClose(q)
             \/ EndClose(q)
      PROVE  Onward(s)
  <2>1. ASSUME NEW r \in Requests, RunCallback(q, r) PROVE Onward(s)
    BY <1>0, <2>1, RunCallbackSteady, SteadyOnward
  <2>2. ASSUME NEW r \in Requests, NEW d \in Decisions, TerminalAnswers(q, r, d) PROVE Onward(s)
    BY <1>0, <2>2, TerminalSteady, SteadyOnward
  <2>3. ASSUME NEW r \in Requests, TerminalErrs(q, r) PROVE Onward(s)
    BY <1>0, <2>3, TerminalSteady, SteadyOnward
  <2>4. CASE EndClose(q)
    BY <1>0, <2>4, EndCloseSteady, SteadyOnward
  <2> QED BY <1>0, <1>4, <2>1, <2>2, <2>3, <2>4, OpenTuiOnward, TuiThreadOnward, HeardOnward,
             BeginCloseOnward
<1>5. CASE Responses
  <2>1. ASSUME NEW i \in Interactions, NEW d, LarkAnswers(i, d) \/ Expire(i) PROVE Onward(s)
    BY <1>0, <2>1, AnswerSteady, SteadyOnward
  <2>2. ASSUME NEW w \in Workers, FinishWrite(w) \/ FailWrite(w) PROVE Onward(s)
    BY <1>0, <2>2, FinishWriteSteady, OrchestratorEndsSteady, SteadyOnward
  <2>3. CASE FinishInterrupt
    BY <1>0, <2>3, OrchestratorEndsSteady, SteadyOnward
  <2> QED BY <1>5, <2>1, <2>2, <2>3 DEF Responses
<1>6. CASE \E q \in Sessions : CancelSession(q)
  BY <1>0, <1>6, OrchestratorEndsSteady, SteadyOnward
<1>7. CASE UNCHANGED vars
  BY <1>0, <1>7, IdleSteady, SteadyOnward
<1> QED BY <1>1, <1>2, <1>3, <1>4, <1>5, <1>6, <1>7 DEF SystemNext, Tui

AllStarted == \A s \in Interactive : StartedFirst(s)

LEMMA StartedStep ==
    ASSUME Sane, ThreadsApart, TurnsSane, [SystemNext]_vars, StepKind, AllStarted
    PROVE  AllStarted'
<1>1. CASE Restart
  <2>1. TurnTypeOK
    BY DEF Sane, SystemTypeOK
  <2>2. ASSUME NEW s \in Interactive PROVE ~ turns'[s].on
    <3>1. s \in Sessions
      BY HostFacts
    <3>2. turns'[s] = [turns[s] EXCEPT !.on = FALSE, !.stop = FALSE]
      BY <1>1, <3>1 DEF Restart
    <3> QED BY <2>1, <3>1, <3>2, TurnsOff
  <2> QED BY <2>2 DEF AllStarted, StartedFirst
<1>2. CASE ~ Restart
  BY <1>2, OnwardSteps, LateSteps, StartedStays DEF AllStarted
<1> QED BY <1>1, <1>2


-----------------------------------------------------------------------------
(* A request is turned down only if that is due. *)

\* A request that waits in a queue or in a callback is no row: the index is free.
LEMMA UnhandledIsFree ==
    ASSUME Sane, TablesOK, OneHand, RequestsApart, NEW h \in Hosts, NEW r \in Asked(h), Unhandled(h, r)
    PROVE  RequestFree(r)
<1> SUFFICES ASSUME NEW i \in Interactions, Pending(i), interactions[i].request = r PROVE FALSE
  BY DEF RequestFree
<1>0. r \in Requests
  BY DEF Asked
<1>1. interactions[i].status # "absent" /\ Active(interactions[i].session)
  BY DEF Pending, TablesOK, PendingHasActiveSession
<1>2. asker[i] \in Hosts
  BY <1>1 DEF Sane, RowsSane, RowSane, SystemTypeOK, AskerTypeOK
<1>3. r \in Asked(asker[i])
  BY <1>0, <1>2 DEF Sane, RowsSane, RowSane, For
<1>4. asker[i] = h
  BY <1>0, <1>2, <1>3 DEF RequestsApart
<1>5. HasRow(h, r)
  BY <1>4 DEF HasRow, For
<1> QED BY <1>0, <1>5 DEF OneHand, InOneHand

\* What the daemon turns down on the managed link, its session could not take.
LEMMA RefusedIsOver ==
    ASSUME Sane, TablesOK, TurnsSane, ThreadsApart, OneHand, RequestsApart,
           NEW r \in Requests, Refuses(r), IsOpen(Managed, r)
    PROVE  ~ Active(asks[Managed][r].session)
<1> DEFINE s == asks[Managed][r].session
<1>0. /\ Managed \in Hosts /\ Managed \notin Interactive /\ r \in Asked(Managed) /\ TypeOK
      /\ AskTypeOK /\ AsksSane /\ asks[Managed][r].state # "none"
  BY HostFacts DEF Refuses, Sane, SystemTypeOK, OrchTypeOK, Asked
<1>1. /\ s \in Sessions /\ HostOf(s) = Managed /\ turns[s].thread # NoValue
      /\ asks[Managed][r].thread = turns[s].thread
  <2>1. ~ Elsewhere(Managed, r)
    BY <1>0, SaneFacts
  <2> QED BY <1>0, <2>1, OpenAskFacts DEF AsksSane, AskSane
<1>2. s \notin Interactive
  BY <1>1, HostFacts
<1>3. Unhandled(Managed, r)
  BY DEF Refuses, Taken, Unqueued, Uncalled, Unhandled, Called
<1>4. RequestFree(r)
  BY <1>0, <1>3, UnhandledIsFree
<1>5. Active(s) => s \in SessionOfThread(asks[Managed][r].thread)
  BY <1>0, <1>1, FoundByThread
<1> QED BY <1>2, <1>4, <1>5 DEF Refuses, Accepts

\* What a callback turns down, its session could not take, or it was made elsewhere.
LEMMA TurnedAwayIsOver ==
    ASSUME Sane, TablesOK, TurnsSane, OneHand, RequestsApart, AllStarted, NEW h \in Hosts,
           NEW r \in Requests, TurnsAway(h, r), IsOwn(h, r)
    PROVE  ~ Active(asks[h][r].session)
<1>0. h \in Interactive /\ r \in callbacks[h] /\ r \in Asked(h)
  BY DEF TurnsAway, Uncalled, Answers
<1>1. /\ asks[h][r].session = h /\ asks[h][r].turn = CurrentTurn(h) /\ turns[h].on
      /\ h \in Sessions
  BY <1>0, OpenIsOn, HostFacts
<1>t. asks[h][r].thread = turns[h].thread
  BY <1>0, <1>1 DEF Sane, AsksSane, AskSane, IsOwn, Asked
<1>2. RequestFree(r)
  BY <1>0, UnhandledIsFree DEF Unhandled, Called
<1>3. ASSUME Active(h) PROVE sessions[h].thread = turns[h].thread /\ sessions[h].turn = CurrentTurn(h)
  <2>1. sessions[h].thread = turns[h].thread
    BY <1>1, <1>3 DEF TurnsSane, Threaded
  <2>2. StartedFirst(h)
    BY <1>0 DEF AllStarted
  <2>3. \A k \in 1 .. Len(inbox[h]) : ~ BegunFirst(h, k)
    BY <1>0 DEF BegunFirst
  <2> QED BY <1>1, <1>3, <2>1, <2>2, <2>3 DEF StartedFirst
<1> QED BY <1>1, <1>t, <1>2, <1>3 DEF TurnsAway, Accepts

LEMMA ElsewhereIsLater ==
    ASSUME Sane, NEW h \in Hosts, NEW r \in Requests, IsOpen(h, r), Elsewhere(h, r)
    PROVE  ~ OfFirstThread(h, r)
<1> DEFINE q == asks[h][r].session
<1>1. AskSane(h, r) /\ AsksSane /\ asks[h][r].state # "none"
  BY DEF Sane, AsksSane, IsOpen
<1>2. q \in Sessions /\ asks[h][r].thread \in OtherThreads
  BY <1>1, OpenAskFacts DEF AskSane
<1> QED BY <1>1, <1>2, ForeignThread DEF OfFirstThread

\* Nobody waits for a refusal, or the session is over: once, then for good.
Over(h, r) == asks[h][r].state # "open" \/ ~ Active(asks[h][r].session)
RefusalIsOver ==
    \A w \in Workers, h \in Hosts, r \in Requests : Holds(w, h, r, "refused") => Over(h, r)

LEMMA OverStays ==
    ASSUME Sane, TurnsSane, StepKind, SessionsKept, ~ Restart, NEW h \in Hosts, NEW r \in Asked(h),
           Over(h, r)
    PROVE  Over(h, r)'
<1>0. SystemTypeOK /\ r \in Requests /\ asks[h][r].state # "none"
  BY DEF Sane, Asked
<1>1. AskStays(h, r)
  BY <1>0, AskStaysStep
<1>2. CASE ~ IsOpen(h, r)
  BY <1>0, <1>1, <1>2 DEF AskStays, IsOpen, Over
<1>3. CASE IsOpen(h, r) /\ ~ Active(asks[h][r].session)
  <2>1. asks[h][r].session \in Sessions
    BY <1>0, <1>3, OpenIsPresent
  <2>2. sessions[asks[h][r].session].status # "absent"
    BY <1>0, <1>3, OpenIsPresent
  <2>3. sessions'[asks[h][r].session].status \notin ActiveStatus
    BY <1>3, <2>1, <2>2 DEF SessionsKept, Active
  <2>4. asks'[h][r].session = asks[h][r].session
    BY <1>0, <1>1 DEF AskStays
  <2> QED BY <2>3, <2>4 DEF Over, Active
<1> QED BY <1>2, <1>3 DEF Over, IsOpen

LEMMA RefusalStep ==
    ASSUME Sane, TablesOK, TurnsSane, ThreadsApart, OneHand, RequestsApart, StepKind,
           SessionsKept, RefusalIsOver
    PROVE  RefusalIsOver'
<1>1. ASSUME Restart PROVE RefusalIsOver'
  BY <1>1, NoHost DEF Restart, RefusalIsOver, Holds, Idle
<1>2. ASSUME ~ Restart, NEW w \in Workers, NEW h \in Hosts, NEW r \in Requests,
             Holds(w, h, r, "refused")'
      PROVE  Over(h, r)'
  <2>0. /\ writing'[w].host = h /\ writing'[w].request = r /\ writing'[w].reply = "refused"
        /\ TaskTypeOK /\ Managed \in Hosts
    BY <1>2, HostFacts DEF Holds, Sane, SystemTypeOK
  <2>1. CASE writing'[w] = writing[w]
    <3>1. Over(h, r)
      BY <2>0, <2>1 DEF RefusalIsOver, Holds
    <3>2. ~ IsIdle(w)
      BY <2>0, <2>1, NoHost, NoDecision DEF IsIdle
    <3>3. r \in Asked(h)
      BY <2>0, <2>1, <3>2, WriteFacts
    <3> QED BY <1>2, <3>1, <3>3, OverStays
  <2>2. CASE writing'[w] = Idle
    BY <2>0, <2>2, NoHost, NoDecision
  <2>3. ASSUME NEW q \in Requests, Refuses(q), w = Consumer PROVE Over(h, r)'
    <3>1. writing'[w] = Awaiting(asks[Managed][q].session, Managed, q, "refused")
      BY <2>0, <2>3 DEF Refuses, TaskTypeOK
    <3>2. h = Managed /\ r = q
      BY <2>0, <3>1 DEF Awaiting
    <3>3. r \in Asked(h) /\ Over(h, r)
      BY <2>3, <3>2, RefusedIsOver DEF Over, IsOpen, Refuses
    <3> QED BY <1>2, <3>3, OverStays
  <2>4. ASSUME NEW i \in Interactions, NEW d \in Decisions, NEW st \in {"resolved", "expired"},
               NEW v, Decides(i, d, st, w, v), writing'[w] = AwaitingFor(i, v)
        PROVE  FALSE
    <3>1. v = "refused"
      BY <2>0, <2>4 DEF AwaitingFor, Awaiting
    <3> QED BY <2>4, <3>1 DEF Decides, Decisions
  <2> QED BY <1>2, <2>1, <2>2, <2>3, <2>4, WriteSteps
<1> QED BY <1>1, <1>2 DEF RefusalIsOver

\* A step that gives no refusal.
LEMMA OtherReply ==
    ASSUME AskTypeOK, NEW h \in Hosts, NEW r \in Requests, NEW v, Answers(h, r, v), v # "refused",
           Refused(h, r)'
    PROVE  Refused(h, r)
<1>1. r \in Asked(h) /\ Received(h, r, v)
  BY DEF Answers
<1>2. /\ Len(asks'[h][r].replies) = Len(asks[h][r].replies) + 1
      /\ Len(asks[h][r].replies) \in Nat
      /\ \A k \in 1 .. Len(asks[h][r].replies) : asks'[h][r].replies[k] = asks[h][r].replies[k]
      /\ asks'[h][r].replies[Len(asks[h][r].replies) + 1] = v
  BY <1>1, ReceivedStays
<1>3. PICK k \in 1 .. Len(asks'[h][r].replies) : asks'[h][r].replies[k] = "refused"
  BY DEF Refused
<1>4. k \in 1 .. Len(asks[h][r].replies)
  BY <1>2, <1>3
<1> QED BY <1>2, <1>3, <1>4 DEF Refused

LEMMA RefusedStep ==
    ASSUME Sane, TablesOK, TurnsSane, ThreadsApart, OneHand, RequestsApart, AllStarted,
           RefusalIsOver, StepKind, NEW h \in Hosts, NEW r \in Requests, TurnedDown(h, r)
    PROVE  ~ Active(asks[h][r].session) \/ ~ OfFirstThread(h, r)
<1>0. SystemTypeOK /\ AskTypeOK /\ IsOpen(h, r) /\ ~ Refused(h, r) /\ Refused(h, r)'
  BY DEF Sane, SystemTypeOK, IsOpen, TurnedDown
<1>1. CASE Restart
  <2>1. asks'[h][r].replies = <<>>
    BY <1>1 DEF Restart, NoAsk
  <2>2. Len(asks'[h][r].replies) = 0
    BY <2>1, EmptySeq
  <2> QED BY <1>0, <2>2 DEF Refused
<1>2. CASE AskKept(h, r)
  <2>1. asks'[h][r].replies = asks[h][r].replies
    BY <1>0, <1>2, KeptStays
  <2> QED BY <1>0, <2>1 DEF Refused
<1>3. CASE Asks(h, r)
  BY <1>0, <1>3 DEF Asks, IsOpen
<1>4. CASE TurnsAway(h, r)
  BY <1>0, <1>4, TurnedAwayIsOver, ElsewhereIsLater DEF IsOwn
<1>5. CASE Errs(h, r)
  BY <1>0, <1>5, OtherReply DEF Errs
<1>6. ASSUME NEW w \in Workers, Forwards(w), writing[w].host = h, writing[w].request = r
      PROVE  ~ Active(asks[h][r].session)
  <2>1. CASE writing[w].reply = "refused"
    BY <1>0, <1>6, <2>1 DEF RefusalIsOver, Holds, Over, IsOpen
  <2>2. CASE writing[w].reply # "refused"
    BY <1>0, <1>6, <2>2, OtherReply DEF Forwards
  <2> QED BY <2>1, <2>2
<1> QED BY <1>0, <1>1, <1>2, <1>3, <1>4, <1>5, <1>6, AnswerSteps


\* The daemon turns a request down only when its session is over, when its app-server
\* does not wait for the answer any more, or when its TUI made it in another thread than
\* its first: process_server_request finds the session of any
\* other request that is open, and the session of a TUI has its turn on record before
\* the callback of a request of that turn runs (a gateway reads what its app-server says
\* in order).  As long as no two sessions share a thread and no two app-servers use
\* one id: two rows of one thread hide one another, and a pending interaction with the
\* same id keeps a request out of the table.
THEOREM SystemRefused ==
    SystemSpec /\ []ThreadsApart /\ []RequestsApart => RefusalsAreDue
<1>1. SystemInit => AllStarted /\ RefusalIsOver
  <2>1. ASSUME SystemInit PROVE AllStarted /\ RefusalIsOver
    BY <2>1, HostFacts, NoHost, NoDecision, WorkerFacts
       DEF SystemInit, AllStarted, StartedFirst, NoTurn, RefusalIsOver, Holds
  <2> QED BY <2>1
<1>2. Sane /\ TablesOK /\ ThreadsApart /\ TurnsSane /\ [SystemNext]_vars => TurnsSane'
  BY TurnsNext
<1>3. Sane /\ ThreadsApart /\ TurnsSane /\ AllStarted /\ [SystemNext]_vars => AllStarted'
  BY SaneStep, StartedStep
<1>4. Sane /\ TablesOK /\ ThreadsApart /\ TurnsSane /\ OneHand /\ RequestsApart
        /\ RefusalIsOver /\ [SystemNext]_vars => RefusalIsOver'
  BY SaneStep, RefusalStep
<1>5. Sane /\ TablesOK /\ ThreadsApart /\ TurnsSane /\ OneHand /\ RequestsApart
        /\ AllStarted /\ RefusalIsOver /\ [SystemNext]_vars
        => [\A h \in Hosts : \A r \in Requests :
               TurnedDown(h, r) => ~ Active(asks[h][r].session) \/ ~ OfFirstThread(h, r)]_vars
  BY SaneStep, RefusedStep
<1> QED BY <1>1, <1>2, <1>3, <1>4, <1>5, TurnsInit, SystemSane, SystemTables, SystemOneHand, PTL
       DEF SystemSpec, RefusalsAreDue

\* So no open request of an active session is turned down in its first thread where no TUI
\* resumes a thread and the ids of the app-servers differ, without a hypothesis on the run.
THEOREM SystemRefusedApart ==
    ASSUME Resumable = {}, IdsApart PROVE SystemSpec => RefusalsAreDue
<1>1. SystemSpec => []ThreadsApart
  BY SystemNothingResumed
<1>2. SystemSpec => []RequestsApart
  BY SystemIdsApart
<1> QED BY <1>1, <1>2, SystemRefused, PTL
=============================================================================
