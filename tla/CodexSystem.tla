--------------------------- MODULE CodexSystem ---------------------------
(***************************************************************************)
(* The daemon at work: the orchestrator's tasks, the gateway in front of   *)
(* each native TUI, the app-servers that ask, and the people who answer in *)
(* a terminal or in Lark.  One managed app-server runs the sessions that   *)
(* the API creates; each interactive session has an app-server of its own. *)
(* App-servers and terminals are external: they do what the daemon's code  *)
(* is written to expect of them.                                           *)
(***************************************************************************)
EXTENDS CodexOrchestrator, Sequences

CONSTANTS
    RequestIds,     \* RequestIds[h]: the JSON-RPC ids that app-server h uses
    MaxTurns,       \* bound on the turns of a session
    MaxRestarts,    \* bound on the restarts of the daemon
    Resumable,      \* threads that a TUI may resume instead of starting its own
    OtherThreads,   \* threads a TUI works in beside the one its session is bound to
    Mortal,         \* app-servers that may die or lose their link
    Faults          \* what else may go wrong: "rpc_error", "terminal_error"

VARIABLES
    hosts,      \* hosts[h]: "off", "up", or "down" after its process or link died
    turns,      \* turns[s]: the thread of s and its turns, as its app-server sees them
    asks,       \* asks[h][r]: request r of app-server h
    asker,      \* asker[i]: the app-server interaction i is answered to (its responder)
    inbox,      \* inbox[h]: what h sent and nobody handled yet
    callbacks,  \* callbacks[s]: request callbacks the gateway of s spawned
    responded,  \* responded[s]: _responded_ids of the gateway of s
    shown,      \* shown[s]: requests the terminal of s still asks its user about
    creating,   \* creating[s]: how far create_session got
    writing,    \* writing[w]: what worker w awaits to have been sent
    consumers,  \* the tasks of the orchestrator run
    routing,    \* _route_lark runs
    restarts

hostVars == <<hosts, turns, asks, inbox>>
gateVars == <<callbacks, responded, shown>>
taskVars == <<creating, writing, consumers, routing>>
vars == <<orchVars, hostVars, gateVars, taskVars, asker, restarts>>

Managed == 0
Hosts == {Managed} \cup Interactive
HostOf(s) == IF s \in Interactive THEN s ELSE Managed

\* A thread is named after the session that started it, a turn after its thread.
ASSUME ThreadsAssumption == Sessions \subseteq Threads /\ Managed \notin Sessions \cup {NoValue}
ASSUME TurnsAssumption == Turns = Sessions \X (1 .. MaxTurns)
ASSUME BoundsAssumption == MaxTurns \in Nat /\ MaxRestarts \in Nat /\ Resumable \subseteq Threads
ASSUME OthersAssumption ==
    OtherThreads \subseteq Threads /\ OtherThreads \cap (Sessions \cup Resumable) = {}
ASSUME ActorsAssumption == {"lark", "terminal", "timeout"} \subseteq Actors

\* The coroutines that wait for an answer to be sent: the Lark router, the expiry
\* worker, the consumer of requests, and the reader of each terminal.
Lark == <<"lark", Managed>>
Timeout == <<"timeout", Managed>>
Consumer == <<"requests", Managed>>
Terminal(s) == <<"terminal", s>>
Workers == {Lark, Timeout, Consumer} \cup {Terminal(s) : s \in Interactive}

\* What a worker awaits, for session s: the reply v to request r of app-server h, or
\* ("interrupt") the app-server's answer to interrupt_turn.
Idle == [session |-> NoValue, host |-> NoValue, request |-> NoValue, reply |-> NoValue]
Awaiting(s, h, r, v) == [session |-> s, host |-> h, request |-> r, reply |-> v]
AwaitingFor(i, v) == Awaiting(interactions[i].session, asker[i], interactions[i].request, v)
IsIdle(w) == writing[w] = Idle

NoAsk == [state |-> "none", session |-> NoValue, thread |-> NoValue, turn |-> NoValue,
          kind |-> NoValue, replies |-> <<>>]
NoTurn == [thread |-> NoValue, number |-> 0, on |-> FALSE, stop |-> FALSE]

CurrentTurn(s) == <<s, turns[s].number>>

SystemInit ==
    /\ OrchInit
    /\ hosts = [h \in Hosts |-> IF h = Managed THEN "up" ELSE "off"]
    /\ turns = [s \in Sessions |-> NoTurn]
    /\ asks = [h \in Hosts |-> [r \in Requests |-> NoAsk]]
    /\ asker = [i \in Interactions |-> NoValue]
    /\ inbox = [h \in Hosts |-> <<>>]
    /\ callbacks = [s \in Interactive |-> {}]
    /\ responded = [s \in Interactive |-> {}]
    /\ shown = [s \in Interactive |-> {}]
    /\ creating = [s \in Sessions |-> "no"]
    /\ writing = [w \in Workers |-> Idle]
    /\ consumers = TRUE
    /\ routing = TRUE
    /\ restarts = 0

-----------------------------------------------------------------------------
(* App-servers (external). *)

Post(h, msg) == inbox' = [inbox EXCEPT ![h] = Append(@, msg)]

StartTurn(s) ==
    /\ hosts[HostOf(s)] = "up"
    /\ turns[s].thread # NoValue /\ ~ turns[s].on /\ turns[s].number < MaxTurns
    /\ s \notin Interactive => creating[s] = "turn" /\ turns[s].number = 0
    /\ turns' = [turns EXCEPT ![s] = [@ EXCEPT !.number = turns[s].number + 1, !.on = TRUE]]
    /\ Post(HostOf(s), <<"started", turns[s].thread, <<s, turns[s].number + 1>> >>)
    /\ UNCHANGED <<orchVars, hosts, asks, gateVars, taskVars, asker, restarts>>

\* Request r of app-server h, made in turn u of thread t.
NewRequest(h, r, s, t, u, k) ==
    /\ r \in RequestIds[h] /\ asks[h][r].state = "none"
    /\ asks' = [asks EXCEPT ![h][r] = [state |-> "open", session |-> s, thread |-> t,
                                       turn |-> u, kind |-> k, replies |-> <<>>]]
    /\ Post(h, <<"request", r>>)
    /\ UNCHANGED <<orchVars, hosts, turns, gateVars, taskVars, asker, restarts>>

Ask(s, r, k) ==
    /\ hosts[HostOf(s)] = "up" /\ turns[s].on
    /\ NewRequest(HostOf(s), r, s, turns[s].thread, CurrentTurn(s), k)

\* The same, in a thread that the session of the TUI is not bound to: its user opened
\* it after the first, or the gateway missed its start.  Turns are not told apart there,
\* since a request is refused for its thread before its turn is looked at, and what is
\* reported of those turns changes nothing.
AskElsewhere(s, t, r, k) ==
    /\ s \in Interactive /\ hosts[s] = "up"
    /\ NewRequest(s, r, s, t, NoValue, k)

\* The turn does not need the answer any more.
Withdraw(h, r) ==
    /\ asks[h][r].state = "open" /\ hosts[h] = "up"
    /\ asks' = [asks EXCEPT ![h][r] = [@ EXCEPT !.state = "withdrawn"]]
    /\ Post(h, <<"resolved", r>>)
    /\ UNCHANGED <<orchVars, hosts, turns, gateVars, taskVars, asker, restarts>>

\* Nobody waits any more for an answer to the requests in R.
Void(h, R) ==
    asks' = [asks EXCEPT ![h] = [r \in Requests |->
        IF @[r].state = "open" /\ r \in R
        THEN [@[r] EXCEPT !.state = "withdrawn"] ELSE @[r]]]

\* A turn ends, with the requests it left open.
RequestsOf(s) == {r \in Requests : asks[HostOf(s)][r].turn = CurrentTurn(s)}

EndTurn(s, outcome) ==
    LET h == HostOf(s) IN
    /\ hosts[h] = "up" /\ turns[s].on
    /\ outcome \in {"succeeded", "failed", "interrupted"}
    /\ turns' = [turns EXCEPT ![s] = [@ EXCEPT !.on = FALSE, !.stop = FALSE]]
    /\ Void(h, RequestsOf(s))
    /\ Post(h, <<"completed", turns[s].thread, CurrentTurn(s), outcome>>)
    /\ UNCHANGED <<orchVars, hosts, gateVars, taskVars, asker, restarts>>

\* The app-server obeys turn/interrupt.
StopTurn(s) == turns[s].stop /\ EndTurn(s, "interrupted")

\* The process dies, or the link to it breaks; what it sent before may be read.
Exit(h) ==
    /\ h \in Mortal /\ hosts[h] = "up"
    /\ hosts' = [hosts EXCEPT ![h] = "down"]
    /\ turns' = [s \in Sessions |->
          IF HostOf(s) = h THEN [turns[s] EXCEPT !.on = FALSE, !.stop = FALSE] ELSE turns[s]]
    /\ Void(h, Requests)
    /\ UNCHANGED <<orchVars, inbox, gateVars, taskVars, asker, restarts>>

-----------------------------------------------------------------------------
(* Sending an answer. *)

\* The app-server gets reply v; it confirms the first one it gets.
Receive(h, r, v) ==
    LET ask == asks[h][r]
        state == IF ask.state = "open" THEN "answered" ELSE ask.state
    IN
    /\ asks' = [asks EXCEPT ![h][r] =
          [ask EXCEPT !.replies = Append(ask.replies, v), !.state = state]]
    /\ IF ask.state = "open" THEN Post(h, <<"resolved", r>>) ELSE UNCHANGED inbox

\* Mutant of Send: the gateway does not remember what it answered.
SendAgain(h, r, v) ==
    /\ Receive(h, r, v)
    /\ UNCHANGED responded

\* respond on the managed link; _respond_with_payload at a gateway, which sends
\* one answer per request.
Send(h, r, v) ==
    IF h = Managed
    THEN Receive(h, r, v) /\ UNCHANGED responded
    ELSE IF r \in responded[h]
         THEN UNCHANGED <<asks, inbox, responded>>
         ELSE /\ Receive(h, r, v)
              /\ responded' = [responded EXCEPT ![h] = @ \cup {r}]

\* interrupt_turn: it is always the managed app-server that is asked.
Interrupt(s) ==
    turns' = IF s \notin Interactive /\ hosts[Managed] = "up" /\ turns[s].on
                /\ sessions[s].thread # NoValue /\ sessions[s].turn # NoValue
             THEN [turns EXCEPT ![s] = [@ EXCEPT !.stop = TRUE]] ELSE turns

-----------------------------------------------------------------------------
(* create_session on the managed app-server.                                *)

\* Rows are inserted in the order of their keys.
NextSession(s) == \A q \in Sessions : q < s => sessions[q].status # "absent"

BeginCreate(s) ==
    /\ creating[s] = "no" /\ NextSession(s)
    /\ CreateSession(s)
    /\ creating' = [creating EXCEPT ![s] = "thread"]
    /\ UNCHANGED <<live, notices, hostVars, gateVars, writing, consumers, routing, asker, restarts>>

\* start_thread answers; the session may have been cancelled meanwhile.
ThreadStarted(s) ==
    /\ creating[s] = "thread" /\ hosts[Managed] = "up"
    /\ turns' = [turns EXCEPT ![s] = [@ EXCEPT !.thread = s]]
    /\ IF sessions[s].status = "starting"
       THEN /\ BindThread(s, s)
            /\ creating' = [creating EXCEPT ![s] = "turn"]
            /\ UNCHANGED <<live, notices>>
       ELSE /\ FailStartup(s)
            /\ creating' = [creating EXCEPT ![s] = "failed"]
    /\ UNCHANGED <<hosts, asks, inbox, gateVars, writing, consumers, routing, asker, restarts>>

\* start_turn answers; notifications of the turn may have been handled before.
TurnBound(s) ==
    /\ creating[s] = "turn" /\ turns[s].number > 0 /\ hosts[Managed] = "up"
    /\ IF Active(s)
       THEN /\ BindTurn(s, CurrentTurn(s))
            /\ creating' = [creating EXCEPT ![s] = "done"]
            /\ UNCHANGED <<live, notices>>
       ELSE /\ FailStartup(s)
            /\ creating' = [creating EXCEPT ![s] = "failed"]
    /\ UNCHANGED <<hostVars, gateVars, writing, consumers, routing, asker, restarts>>

\* start_thread or start_turn raises: the server died, refused or timed out.
StartupFails(s) ==
    /\ creating[s] \in {"thread", "turn"}
    /\ hosts[Managed] # "up" \/ "rpc_error" \in Faults
    /\ FailStartup(s)
    /\ creating' = [creating EXCEPT ![s] = "failed"]
    /\ UNCHANGED <<hostVars, gateVars, writing, consumers, routing, asker, restarts>>

-----------------------------------------------------------------------------
(* The consumers and the monitor of the managed app-server.                 *)

IsRequest(msg) == msg[1] = "request"

HandleNotification(msg) ==
    CASE msg[1] = "resolved"  -> RequestResolved(msg[2])
      [] msg[1] = "started"   -> TurnStarted(msg[2], msg[3])
      [] msg[1] = "completed" -> TurnCompleted(msg[2], msg[3], msg[4])

\* What the managed app-server sends is put into two queues, one of requests and one
\* of notifications; each is read in order, whatever waits in the other.
NextOfItsSort(box, k) == \A j \in 1 .. (k - 1) : IsRequest(box[j]) # IsRequest(box[k])

Without(box, k) == SubSeq(box, 1, k - 1) \o SubSeq(box, k + 1, Len(box))

\* process_server_request of a request without a session id.
TakeRequest(r) ==
    LET ask == asks[Managed][r]
        found == SessionOfThread(ask.thread)
    IN
    IF \E s \in found : Accepts(s, ask.turn, r)
    THEN /\ \E i \in Interactions, s \in found :
                OpenLive(i, s, r, ask.kind) /\ asker' = [asker EXCEPT ![i] = Managed]
         /\ UNCHANGED writing
    ELSE /\ writing' = [writing EXCEPT ![Consumer] =
                           Awaiting(ask.session, Managed, r, "refused")]
         /\ UNCHANGED <<orchVars, asker>>

\* _consume_requests
ConsumeRequest ==
    LET box == inbox[Managed] IN
    \E k \in 1 .. Len(box) :
        /\ consumers /\ IsIdle(Consumer)
        /\ IsRequest(box[k]) /\ NextOfItsSort(box, k)
        /\ TakeRequest(box[k][2])
        /\ inbox' = [inbox EXCEPT ![Managed] = Without(box, k)]
        /\ UNCHANGED <<hosts, turns, asks, gateVars, creating, consumers, routing, restarts>>

\* _consume_notifications
ConsumeNotification ==
    LET box == inbox[Managed] IN
    \E k \in 1 .. Len(box) :
        /\ consumers
        /\ ~ IsRequest(box[k]) /\ NextOfItsSort(box, k)
        /\ HandleNotification(box[k])
        /\ inbox' = [inbox EXCEPT ![Managed] = Without(box, k)]
        /\ UNCHANGED <<hosts, turns, asks, gateVars, taskVars, asker, restarts>>

\* _monitor_app_server
MonitorClosed ==
    /\ consumers /\ hosts[Managed] = "down"
    /\ hosts' = [hosts EXCEPT ![Managed] = "closed"]
    /\ InterruptAll
    /\ UNCHANGED <<turns, asks, inbox, gateVars, taskVars, asker, restarts>>

-----------------------------------------------------------------------------
(* Native TUIs and their gateways.                                          *)

OpenTui(s) ==
    /\ s \in Interactive /\ hosts[s] = "off" /\ NextSession(s)
    /\ CreateSession(s)
    /\ hosts' = [hosts EXCEPT ![s] = "up"]
    /\ UNCHANGED <<live, notices, turns, asks, inbox, gateVars, taskVars, asker, restarts>>

\* The answer to a TUI's first thread/start or thread/resume passes the gateway.  The
\* later ones find a session that is not starting any more, and change nothing.
TuiThread(s, t) ==
    /\ s \in Interactive /\ hosts[s] = "up" /\ turns[s].thread = NoValue
    /\ turns' = [turns EXCEPT ![s] = [@ EXCEPT !.thread = t]]
    /\ IF sessions[s].status = "starting" THEN BindThread(s, t) ELSE UNCHANGED storeVars
    /\ UNCHANGED <<live, notices, hosts, asks, inbox, gateVars, taskVars, asker, restarts>>

\* _handle_upstream_message, for the messages the gateway looks at.
GatewayRequest(s, r) ==
    /\ callbacks' = [callbacks EXCEPT ![s] = @ \cup {r}]
    /\ shown' = [shown EXCEPT ![s] = @ \cup {r}]
    /\ UNCHANGED <<orchVars, responded>>

GatewayResolved(s, r) ==
    /\ responded' = [responded EXCEPT ![s] = @ \cup {r}]
    /\ callbacks' = [callbacks EXCEPT ![s] = @ \ {r}]
    /\ shown' = [shown EXCEPT ![s] = @ \ {r}]
    /\ RequestResolved(r)

HandleUpstream(s) ==
    LET msg == Head(inbox[s]) IN
    /\ inbox[s] # <<>>
    /\ CASE msg[1] = "request"  -> GatewayRequest(s, msg[2])
         [] msg[1] = "resolved" -> GatewayResolved(s, msg[2])
         [] OTHER -> HandleNotification(msg) /\ UNCHANGED gateVars
    /\ inbox' = [inbox EXCEPT ![s] = Tail(@)]
    /\ UNCHANGED <<hosts, turns, asks, taskVars, asker, restarts>>

\* _run_server_request_callback: process_server_request for a known session.
RunCallback(s, r) ==
    LET ask == asks[s][r] IN
    /\ r \in callbacks[s]
    /\ callbacks' = [callbacks EXCEPT ![s] = @ \ {r}]
    /\ IF r \in responded[s] THEN UNCHANGED <<orchVars, asks, asker, inbox, responded>>
       ELSE IF sessions[s].thread = ask.thread /\ Accepts(s, ask.turn, r)
       THEN /\ \E i \in Interactions :
                   OpenLive(i, s, r, ask.kind) /\ asker' = [asker EXCEPT ![i] = s]
            /\ UNCHANGED <<asks, inbox, responded>>
       ELSE /\ IF hosts[s] = "up" THEN Send(s, r, "refused")
               ELSE UNCHANGED <<asks, inbox, responded>>
            /\ UNCHANGED <<orchVars, asker>>
    /\ UNCHANGED <<hosts, turns, shown, taskVars, restarts>>

\* resolution, terminal_decision: what an answer of a person to a request stands for;
\* "yes" is also acceptForSession or some permissions, "no" is also cancel or none.
AnswerDecisions(k) ==
    CASE k = "exec_approval"        -> {"approved", "denied"}
      [] k = "file_change_approval" -> {"accept", "decline"}
      [] k = "permission_request"   -> {"granted", "denied"}
      [] k = "user_input"           -> {"submitted"}

\* Mutant of TerminalAnswers: an answer is forwarded without a claim.
AnswersUnclaimed(s, r, d) ==
    /\ r \in shown[s] /\ IsIdle(Terminal(s)) /\ hosts[s] \in {"up", "down"}
    /\ d \in AnswerDecisions(asks[s][r].kind)
    /\ shown' = [shown EXCEPT ![s] = @ \ {r}]
    /\ writing' = [writing EXCEPT ![Terminal(s)] = Awaiting(s, s, r, d)]
    /\ UNCHANGED <<orchVars, hostVars, callbacks, responded, creating, consumers, routing,
                   asker, restarts>>

\* Mutant of TerminalAnswers: an answer is recorded and not forwarded.
AnswersUnsent(s, r, d) ==
    /\ r \in shown[s] /\ IsIdle(Terminal(s)) /\ hosts[s] \in {"up", "down"}
    /\ shown' = [shown EXCEPT ![s] = @ \ {r}]
    /\ \E i \in LiveByRequest(r) : Decide(i, d, "terminal", "resolved")
    /\ UNCHANGED <<hostVars, callbacks, responded, taskVars, asker, restarts>>

\* on_terminal_response with a result: resolve_terminal_request.  An answer that no
\* live interaction can take is dropped.
TerminalAnswers(s, r, d) ==
    /\ r \in shown[s] /\ IsIdle(Terminal(s)) /\ hosts[s] \in {"up", "down"}
    /\ d \in AnswerDecisions(asks[s][r].kind)
    /\ shown' = [shown EXCEPT ![s] = @ \ {r}]
    /\ IF \E i \in LiveByRequest(r) : Pending(i) /\ d \in AllowedDecisions(interactions[i].kind)
       THEN \E i \in LiveByRequest(r) :
              /\ Decide(i, d, "terminal", "resolved")
              /\ writing' = [writing EXCEPT ![Terminal(s)] = AwaitingFor(i, d)]
       ELSE UNCHANGED <<orchVars, writing>>
    /\ UNCHANGED <<hostVars, callbacks, responded, creating, consumers, routing, asker, restarts>>

\* on_terminal_response with an error: sent at once, without a claim.
TerminalErrs(s, r) ==
    /\ "terminal_error" \in Faults
    /\ r \in shown[s] /\ IsIdle(Terminal(s)) /\ hosts[s] = "up"
    /\ shown' = [shown EXCEPT ![s] = @ \ {r}]
    /\ Send(s, r, "error")
    /\ UNCHANGED <<orchVars, hosts, turns, callbacks, taskVars, asker, restarts>>

\* close_session of the manager: the gateway and the process are stopped first,
\* then the session is closed.
BeginClose(s) ==
    /\ s \in Interactive /\ hosts[s] \in {"up", "down"}
    /\ hosts' = [hosts EXCEPT ![s] = "closing"]
    /\ turns' = [turns EXCEPT ![s] = [@ EXCEPT !.on = FALSE, !.stop = FALSE]]
    /\ Void(s, Requests)
    /\ inbox' = [inbox EXCEPT ![s] = <<>>]
    /\ callbacks' = [callbacks EXCEPT ![s] = {}]
    /\ shown' = [shown EXCEPT ![s] = {}]
    /\ UNCHANGED <<orchVars, responded, taskVars, asker, restarts>>

EndClose(s) ==
    /\ s \in Interactive /\ hosts[s] = "closing"
    /\ hosts' = [hosts EXCEPT ![s] = "closed"]
    /\ EndIfActive(s, "cancelled")
    /\ UNCHANGED <<turns, asks, inbox, gateVars, taskVars, asker, restarts>>

-----------------------------------------------------------------------------
(* Lark, the expiry worker, the API, and the completion of awaited sends.   *)

\* LarkControlRouter.route: the router looks the interaction up and resolves it.
LarkAnswers(i, d) ==
    /\ routing /\ IsIdle(Lark)
    /\ Decide(i, d, "lark", "resolved")
    /\ d \in AnswerDecisions(interactions[i].kind)
    /\ writing' = [writing EXCEPT ![Lark] = AwaitingFor(i, d)]
    /\ UNCHANGED <<hostVars, gateVars, creating, consumers, routing, asker, restarts>>

DenialDecision(k) ==
    CASE k = "exec_approval"        -> "denied"
      [] k = "file_change_approval" -> "decline"
      [] k = "permission_request"   -> "denied"
      [] k = "user_input"           -> "submitted"

\* An interaction falls due a second or more after its request was read, and nothing that
\* _consume_notifications awaits lasts: by then it has read what came before the request,
\* the start of its turn.
IsAnnounced(i) ==
    LET h == asker[i]
        ask == asks[h][interactions[i].request]
    IN  \A k \in 1 .. Len(inbox[h]) : inbox[h][k] # <<"started", ask.thread, ask.turn>>

\* Mutant of Expire: only user inputs fall due.
ExpireInputsOnly(i) ==
    /\ IsIdle(Timeout) /\ interactions[i].kind = "user_input"
    /\ Decide(i, "submitted", "timeout", "expired") /\ IsAnnounced(i)
    /\ writing' = [writing EXCEPT ![Timeout] = AwaitingFor(i, "interrupt")]
    /\ Interrupt(interactions[i].session)
    /\ UNCHANGED <<hosts, asks, inbox, gateVars, creating, consumers, routing, asker, restarts>>

\* Mutant of Expire: a user input that falls due only ends the session.
ExpireWithoutInterrupt(i) ==
    LET k == interactions[i].kind IN
    /\ IsIdle(Timeout)
    /\ Decide(i, DenialDecision(k), "timeout", "expired") /\ IsAnnounced(i)
    /\ writing' = [writing EXCEPT ![Timeout] =
          AwaitingFor(i, IF k = "user_input" THEN "interrupt" ELSE DenialDecision(k))]
    /\ UNCHANGED <<hostVars, gateVars, creating, consumers, routing, asker, restarts>>

\* expire_due_interactions, for one interaction that is due.
Expire(i) ==
    LET k == interactions[i].kind
        d == DenialDecision(k)
    IN
    /\ IsIdle(Timeout)
    /\ Decide(i, d, "timeout", "expired") /\ IsAnnounced(i)
    /\ writing' = [writing EXCEPT ![Timeout] =
          AwaitingFor(i, IF k = "user_input" THEN "interrupt" ELSE d)]
    /\ IF k = "user_input" THEN Interrupt(interactions[i].session) ELSE UNCHANGED turns
    /\ UNCHANGED <<hosts, asks, inbox, gateVars, creating, consumers, routing, asker, restarts>>

\* interrupt_turn returned or raised.
FinishInterrupt ==
    /\ ~ IsIdle(Timeout) /\ writing[Timeout].reply = "interrupt"
    /\ EndIfActive(writing[Timeout].session, "interrupted")
    /\ writing' = [writing EXCEPT ![Timeout] = Idle]
    /\ UNCHANGED <<hostVars, gateVars, creating, consumers, routing, asker, restarts>>

\* Whether respond can return, or raise.  A gateway that is closing has forgotten
\* the request (and returns) or still knows it and has no link to send on.
CanFinish(h, r) ==
    IF h = Managed THEN hosts[h] = "up" ELSE hosts[h] # "down" \/ r \in responded[h]
CanFail(h, r) ==
    IF h = Managed THEN hosts[h] # "up"
    ELSE hosts[h] \in {"down", "closing"} /\ r \notin responded[h]

\* The responder returns.
FinishWrite(w) ==
    LET r == writing[w].request
        h == writing[w].host
    IN
    /\ ~ IsIdle(w) /\ writing[w].reply # "interrupt" /\ CanFinish(h, r)
    /\ IF hosts[h] = "up" THEN Send(h, r, writing[w].reply)
       ELSE UNCHANGED <<asks, inbox, responded>>
    /\ writing' = [writing EXCEPT ![w] = Idle]
    /\ UNCHANGED <<orchVars, hosts, turns, callbacks, shown, creating, consumers, routing,
                   asker, restarts>>

\* The responder raises: the session is interrupted; the router does not survive it.
FailWrite(w) ==
    LET s == writing[w].session IN
    /\ ~ IsIdle(w) /\ w # Consumer /\ writing[w].reply # "interrupt"
    /\ CanFail(writing[w].host, writing[w].request)
    /\ EndIfActive(s, "interrupted")
    /\ routing' = (routing /\ w # Lark)
    /\ writing' = [writing EXCEPT ![w] = Idle]
    /\ UNCHANGED <<hostVars, gateVars, creating, consumers, asker, restarts>>

\* A refusal that cannot be sent: _consumer_failed.
ConsumerFailed ==
    /\ ~ IsIdle(Consumer) /\ hosts[Managed] # "up" /\ consumers
    /\ InterruptAll
    /\ consumers' = FALSE
    /\ writing' = [writing EXCEPT ![Consumer] = Idle]
    /\ UNCHANGED <<hostVars, gateVars, creating, routing, asker, restarts>>

\* Mutant of CancelSession: the live interactions of the session are kept.
CancelAndKeepLive(s) ==
    /\ Active(s)
    /\ ClaimTerminal({s}, "cancelled", "cancelled")
    /\ notices' = [notices EXCEPT ![s] = @ + 1]
    /\ Interrupt(s)
    /\ UNCHANGED <<live, hosts, asks, inbox, gateVars, taskVars, asker, restarts>>

\* POST .../cancel, for a session of either sort.
CancelSession(s) ==
    /\ Active(s)
    /\ EndSessions({s}, "cancelled")
    /\ Interrupt(s)
    /\ UNCHANGED <<hosts, asks, inbox, gateVars, taskVars, asker, restarts>>

\* The daemon stops or crashes and a new one starts: all it had in memory is gone,
\* and so are the app-servers it had started.
Restart ==
    /\ restarts < MaxRestarts
    /\ restarts' = restarts + 1
    /\ Reconcile
    /\ hosts' = [h \in Hosts |-> IF h = Managed THEN "up"
                                 ELSE IF sessions[h].status = "absent" THEN "off" ELSE "closed"]
    /\ turns' = [s \in Sessions |-> [turns[s] EXCEPT !.on = FALSE, !.stop = FALSE]]
    /\ asks' = [h \in Hosts |-> [r \in Requests |-> NoAsk]]
    /\ asker' = [i \in Interactions |-> NoValue]
    /\ inbox' = [h \in Hosts |-> <<>>]
    /\ callbacks' = [s \in Interactive |-> {}]
    /\ responded' = [s \in Interactive |-> {}]
    /\ shown' = [s \in Interactive |-> {}]
    /\ creating' = [s \in Sessions |-> IF creating[s] = "no" THEN "no" ELSE "failed"]
    /\ writing' = [w \in Workers |-> Idle]
    /\ consumers' = TRUE
    /\ routing' = TRUE

-----------------------------------------------------------------------------
(* The system.                                                              *)

AppServer ==
    \/ \E s \in Sessions :
         \/ StartTurn(s)
         \/ \E r \in Requests, k \in Kinds :
              Ask(s, r, k) \/ \E t \in OtherThreads : AskElsewhere(s, t, r, k)
         \/ \E outcome \in {"succeeded", "failed"} : EndTurn(s, outcome)
         \/ StopTurn(s)
    \/ \E h \in Hosts : Exit(h) \/ \E r \in Requests : Withdraw(h, r)

Creation ==
    \E s \in Sessions \ Interactive :
        BeginCreate(s) \/ ThreadStarted(s) \/ TurnBound(s) \/ StartupFails(s)

Orchestrator == ConsumeRequest \/ ConsumeNotification \/ MonitorClosed \/ ConsumerFailed

Tui ==
    \E s \in Interactive :
        \/ OpenTui(s)
        \/ \E t \in {s} \cup Resumable : TuiThread(s, t)
        \/ HandleUpstream(s)
        \/ \E r \in Requests : RunCallback(s, r)
        \/ \E r \in Requests, d \in Decisions : TerminalAnswers(s, r, d)
        \/ \E r \in Requests : TerminalErrs(s, r)
        \/ BeginClose(s)
        \/ EndClose(s)

Responses ==
    \/ \E i \in Interactions : Expire(i) \/ \E d \in Decisions : LarkAnswers(i, d)
    \/ FinishInterrupt
    \/ \E w \in Workers : FinishWrite(w) \/ FailWrite(w)

SystemNext ==
    \/ AppServer
    \/ Creation
    \/ Orchestrator
    \/ Tui
    \/ Responses
    \/ \E s \in Sessions : CancelSession(s)
    \/ Restart

SystemSpec == SystemInit /\ [][SystemNext]_vars

\* The event loop runs every task that is ready, an interaction that nobody answers
\* falls due, an awaited send returns or raises, an app-server obeys an interrupt.
\* A call on a dead link raises.  Nobody has to ask, to answer, to end a turn, to
\* close a TUI or to die.
Fairness ==
    /\ WF_vars(ConsumeRequest) /\ WF_vars(ConsumeNotification)
    /\ WF_vars(MonitorClosed) /\ WF_vars(ConsumerFailed)
    /\ WF_vars(FinishInterrupt)
    /\ \A s \in Sessions : WF_vars(StopTurn(s))
                           /\ WF_vars(hosts[Managed] # "up" /\ StartupFails(s))
    /\ \A s \in Interactive : WF_vars(HandleUpstream(s)) /\ WF_vars(EndClose(s))
    /\ \A s \in Interactive, r \in Requests : WF_vars(RunCallback(s, r))
    /\ \A i \in Interactions : WF_vars(Expire(i))
    /\ \A w \in Workers : WF_vars(FinishWrite(w) \/ FailWrite(w))

FairSpec == SystemSpec /\ Fairness

-----------------------------------------------------------------------------
(* Invariants.                                                              *)

Replies == Decisions \cup {"refused", "error"}

\* The requests that app-server h made.
Asked(h) == {r \in Requests : asks[h][r].state # "none"}

AskRecord ==
    [state : {"open", "answered", "withdrawn"}, session : Sessions, thread : Threads,
     turn : Turns \cup {NoValue}, kind : Kinds, replies : Seq(Replies)]

Message(h) ==
    ({"request", "resolved"} \X Asked(h))
        \cup ({"started"} \X Threads \X Turns)
        \cup ({"completed"} \X Threads \X Turns \X {"succeeded", "failed", "interrupted"})

TurnRecord ==
    [thread : Threads \cup {NoValue}, number : 0 .. MaxTurns, on : BOOLEAN, stop : BOOLEAN]

\* What is awaited for a request of app-server h.
WriteRecord(h) ==
    [session : Sessions, host : {h}, request : Asked(h), reply : Replies \cup {"interrupt"}]

Awaitable(x) == \E h \in Hosts : x \in WriteRecord(h)

HostTypeOK == hosts \in [Hosts -> {"off", "up", "down", "closing", "closed"}]

\* An app-server stops a turn only while it is on, and a turn has a thread.
SaneTurn(turn) ==
    /\ turn.stop => turn.on
    /\ turn.on => turn.thread # NoValue /\ turn.number > 0

TurnTypeOK ==
    turns \in [Sessions -> TurnRecord] /\ \A s \in Sessions : SaneTurn(turns[s])

AskTypeOK == asks \in [Hosts -> [Requests -> AskRecord \cup {NoAsk}]]

InboxTypeOK == DOMAIN inbox = Hosts /\ \A h \in Hosts : inbox[h] \in Seq(Message(h))

AskerTypeOK ==
    /\ asker \in [Interactions -> Hosts \cup {NoValue}]
    /\ \A i \in live : asker[i] \in Hosts /\ interactions[i].request \in Asked(asker[i])

GateTypeOK ==
    /\ {callbacks, responded, shown} \subseteq [Interactive -> SUBSET Requests]
    /\ \A s \in Interactive : callbacks[s] \cup shown[s] \subseteq Asked(s)

TaskTypeOK ==
    /\ creating \in [Sessions -> {"no", "thread", "turn", "done", "failed"}]
    /\ DOMAIN writing = Workers
    /\ \A w \in Workers : IsIdle(w) \/ Awaitable(writing[w])
    /\ {consumers, routing} \subseteq BOOLEAN
    /\ restarts \in 0 .. MaxRestarts

\* The types of the variables.  Every request in a queue, in a callback, in a terminal
\* or in the hands of a worker was made by the app-server it is answered to, whichever
\* session it was attributed to.
SystemTypeOK ==
    /\ OrchTypeOK /\ HostTypeOK /\ TurnTypeOK /\ AskTypeOK /\ InboxTypeOK
    /\ AskerTypeOK /\ GateTypeOK /\ TaskTypeOK

\* The interaction that answers for request r of app-server h.
For(i, h, r) == interactions[i].request = r /\ asker[i] = h

BeingWritten(h, r) == \E w \in Workers : writing[w].request = r /\ writing[w].host = h

\* No request is lost between the queues, the callbacks and the table: as long as
\* an app-server waits for an answer in an active session, somebody has the request
\* in hand.
OpenIsTracked ==
    \A h \in Hosts : \A r \in Requests :
        asks[h][r].state = "open" /\ Active(asks[h][r].session) =>
          \/ \E k \in 1 .. Len(inbox[h]) : inbox[h][k] = <<"request", r>>
          \/ h # Managed /\ r \in callbacks[h]
          \/ \E i \in live : Pending(i) /\ For(i, h, r)
          \/ BeingWritten(h, r)

\* A request is answered once, whoever answers: the terminal, Lark, the timeout, a
\* refusal; JSON-RPC has no place for a second response.
AtMostOneReply == \A h \in Hosts : \A r \in Requests : Len(asks[h][r].replies) <= 1

\* What an app-server is told was decided by the claim on the row: no answer is
\* forwarded that is not on record, and none by somebody who lost the race.
ReplyIsRecorded ==
    \A h \in Hosts : \A r \in Requests : \A k \in 1 .. Len(asks[h][r].replies) :
        asks[h][r].replies[k] \in Decisions =>
          \E i \in Interactions :
              For(i, h, r) /\ interactions[i].decision = asks[h][r].replies[k]

\* The converse: a decision on record has been forwarded, or is being forwarded, as
\* long as somebody waits for it.
RecordedIsForwarded ==
    \A i \in Interactions : LET row == interactions[i] IN
        row.status = "resolved" /\ Active(row.session) =>
          LET h == asker[i] IN
          \/ BeingWritten(h, row.request)
          \/ asks[h][row.request].state = "withdrawn"
          \/ asks[h][row.request].replies = <<row.decision>>

\* A TUI is not asked about a turn that is over: callbacks run after later messages
\* were handled, and those of an earlier turn are turned away.
PendingOfCurrentTurn ==
    \A i \in Interactions : LET row == interactions[i] IN
        Pending(i) /\ row.session \in Interactive =>
            asks[asker[i]][row.request].turn = sessions[row.session].turn

-----------------------------------------------------------------------------
(* Action and liveness properties.                                          *)

Refused(h, r) == "refused" \in {asks[h][r].replies[k] : k \in 1 .. Len(asks[h][r].replies)}

\* Request r of app-server h, which waits for an answer, is turned down in this step.
TurnedDown(h, r) == ~ Refused(h, r) /\ Refused(h, r)' /\ asks[h][r].state = "open"

\* Request r was made in the thread of its session: the first one of its TUI whose start or
\* resumption the manager saw, the only one of a managed session.
OfFirstThread(h, r) == asks[h][r].thread = turns[asks[h][r].session].thread

\* The daemon turns a request down only when the session is over, when the app-server
\* does not wait for the answer any more, or when the TUI made it in another thread
\* than its first.
RefusalsAreDue ==
    [][\A h \in Hosts : \A r \in Requests :
          TurnedDown(h, r) => ~ Active(asks[h][r].session) \/ ~ OfFirstThread(h, r)]_vars

\* "Each structured approval or input request creates one durable interaction row":
\* once a session is bound to a thread, nothing that waits in it is turned down,
\* whatever thread its user moved on to.
RefusedOnlyIfOver ==
    [][\A h \in Hosts : \A r \in Requests : LET s == asks[h][r].session IN
          TurnedDown(h, r) => ~ Active(s) \/ sessions[s].thread = NoValue]_vars

\* Every request is answered, or withdrawn, or its session ends: an interaction that
\* nobody answers falls due.
RequestsAreAnswered ==
    \A h \in Hosts : \A r \in Requests :
        asks[h][r].state = "open"
            ~> asks[h][r].state # "open" \/ ~ Active(asks[h][r].session)

\* The sessions of an app-server that died end: nobody could answer them any more.
DeadServerEndsSession ==
    \A s \in Sessions :
        hosts[HostOf(s)] \in {"down", "closed"} /\ Active(s) ~> ~ Active(s)

\* A user input that falls due stops the turn that waits for it (turn/interrupt).
TimeoutInterruptsTurn ==
    \A h \in Hosts : \A r \in Requests :
        asks[h][r].state = "open"
            /\ (\E i \in Interactions : For(i, h, r) /\ interactions[i].status = "expired")
            ~> asks[h][r].state # "open"
=============================================================================
