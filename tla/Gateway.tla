----------------------------- MODULE Gateway -----------------------------
(***************************************************************************)
(* CodexGateway: one app-server, one terminal at a time, and the callbacks *)
(* that offer the app-server's requests to Lark.  CodexSystem sees of it   *)
(* only who answers what; here are its tasks, queues and locks: the reader *)
(* of the upstream connection, the handler and the sender of a terminal,   *)
(* the callback tasks, the coroutines that answer, and close.              *)
(*                                                                         *)
(* Nothing suspends between the sections shown as one step: the observers  *)
(* of the manager run without an await, and a queue that has room takes a  *)
(* message at once.                                                        *)
(***************************************************************************)
EXTENDS Naturals, Sequences

CONSTANTS
    Terminals,  \* connections of terminals, each with one request of its own, named alike
    Ids,        \* JSON-RPC ids of these requests; every TUI numbers from its start
    IdOf,
    Method,     \* "start", "resume" a thread, or "other"
    Asks,       \* requests of the app-server that are intercepted
    ThreadOf,   \* the request of a terminal that opened the thread an ask belongs to
    Capacity,   \* maxsize of _to_terminal
    MaxUnread,  \* bound on what the upstream connection buffers
    Nobody

ASSUME GatewayAssumption ==
    /\ Terminals \cap Asks = {} /\ Nobody \notin Terminals \cup Asks
    /\ IdOf \in [Terminals -> Ids] /\ Method \in [Terminals -> {"start", "resume", "other"}]
    /\ ThreadOf \in [Asks -> {t \in Terminals : Method[t] # "other"}]
    /\ Capacity \in Nat \ {0} /\ MaxUnread \in Nat

VARIABLES
    life,           \* "new", "open", then the awaits of close, "closed"
    upstream,       \* the connection to the app-server: "none", "up", "lost", "ended"
    wire,           \* what it sent and the reader has not read
    reader,         \* _read_upstream: "none", "reading", "putting", "over"
    inHand,         \* the message it waits to put
    toTerminal,     \* _to_terminal
    terminal,       \* _terminal
    conn,           \* conn[t]: "idle", "attached", "dropped" until its handler ends, "gone"
    sender,         \* whether the sender task of the terminal runs
    carried,        \* the message it is sending
    shown,          \* asks the terminal was sent
    calls,          \* calls[t]: the request of t, "idle", "sent", "answered", "failed"
    terminalRequests,   \* _terminal_requests: the request remembered under an id, or Nobody
    observed,       \* requests whose thread the manager was shown
    clashed,        \* history: requests that were under way at the same time with the same id
    intercepted,    \* _intercepted_ids
    responded,      \* _responded_ids
    callback,       \* callback[a]: its task, see CallbackStates
    attempt,        \* attempt[a][p]: respond_upstream called by p for a, see AttemptStates
    asks,           \* asks[a]: for the app-server, "none", "open", "settled"
    answers         \* answers[a]: how many answers it was sent while a was open

connVars == <<life, upstream, wire, reader, inHand>>
termVars == <<toTerminal, terminal, conn, sender, carried, shown>>
callVars == <<calls, terminalRequests, observed, clashed>>
answerVars == <<intercepted, responded, attempt, answers>>
vars == <<connVars, termVars, callVars, answerVars, callback, asks>>

Message == [kind : {"ask", "resolved"}, id : Asks] \cup [kind : {"reply"}, id : Terminals]

ASSUME NobodyAssumption == Nobody \notin Message

(* "ready": the task was created; "asked": the orchestrator took the request; "refused": *)
(* it answers with an error; "over": nothing to do, or cancelled.                        *)
CallbackStates == {"none", "ready", "asked", "refused", "over"}

(* "waiting" for _response_lock, "claimed": the id is in _responded_ids, the write of the *)
(* message is to come; "written": the connection drains.                                  *)
Sending == {"claimed", "written"}
InProgress == Sending \cup {"waiting"}
AttemptStates == InProgress \cup {"none", "won", "lost", "failed"}
Parties == {"terminal", "lark", "callback"}

TypeOK ==
    /\ life \in {"new", "open", "closing", "draining", "waiting", "closed"}
    /\ upstream \in {"none", "up", "lost", "ended"}
    /\ wire \in Seq(Message) /\ toTerminal \in Seq(Message)
    /\ reader \in {"none", "reading", "putting", "over"}
    /\ inHand \in Message \cup {Nobody} /\ carried \in Message \cup {Nobody}
    /\ terminal \in Terminals \cup {Nobody}
    /\ conn \in [Terminals -> {"idle", "attached", "dropped", "gone"}]
    /\ sender \in BOOLEAN /\ shown \subseteq Asks
    /\ calls \in [Terminals -> {"idle", "sent", "answered", "failed"}]
    /\ terminalRequests \in [Ids -> Terminals \cup {Nobody}]
    /\ observed \subseteq Terminals /\ clashed \subseteq Terminals
    /\ intercepted \subseteq Asks /\ responded \subseteq Asks
    /\ callback \in [Asks -> CallbackStates]
    /\ attempt \in [Asks -> [Parties -> AttemptStates]]
    /\ asks \in [Asks -> {"none", "open", "settled"}] /\ answers \in [Asks -> Nat]

Init ==
    /\ life = "new" /\ upstream = "none" /\ wire = <<>> /\ reader = "none" /\ inHand = Nobody
    /\ toTerminal = <<>> /\ terminal = Nobody /\ sender = FALSE /\ carried = Nobody
    /\ conn = [t \in Terminals |-> "idle"] /\ shown = {}
    /\ calls = [t \in Terminals |-> "idle"] /\ terminalRequests = [n \in Ids |-> Nobody]
    /\ observed = {} /\ clashed = {}
    /\ intercepted = {} /\ responded = {} /\ callback = [a \in Asks |-> "none"]
    /\ attempt = [a \in Asks |-> [p \in Parties |-> "none"]]
    /\ asks = [a \in Asks |-> "none"] /\ answers = [a \in Asks |-> 0]

-----------------------------------------------------------------------------
(* start, and the app-server at the other end (external) *)

\* It connects, listens and creates the reader; if one of these fails it closes.
Start ==
    /\ life = "new"
    /\ \/ life' = "open" /\ upstream' = "up" /\ reader' = "reading"
       \/ life' = "closed" /\ upstream' \in {"none", "ended"} /\ UNCHANGED reader
    /\ UNCHANGED <<wire, inHand, termVars, callVars, answerVars, callback, asks>>

Emit(m) ==
    /\ upstream = "up" /\ Len(wire) < MaxUnread
    /\ wire' = Append(wire, m)
    /\ UNCHANGED <<life, upstream, reader, inHand, termVars, answerVars, callback>>

\* The app-server asks in a thread it has opened.
Ask(a) ==
    /\ asks[a] = "none" /\ calls[ThreadOf[a]] = "answered"
    /\ Emit([kind |-> "ask", id |-> a])
    /\ asks' = [asks EXCEPT ![a] = "open"]
    /\ UNCHANGED callVars

\* It has handled an answer, or the turn of the request is over.
Settle(a) ==
    /\ asks[a] = "open"
    /\ Emit([kind |-> "resolved", id |-> a])
    /\ asks' = [asks EXCEPT ![a] = "settled"]
    /\ UNCHANGED callVars

Reply(t) ==
    /\ calls[t] = "sent"
    /\ Emit([kind |-> "reply", id |-> t])
    /\ calls' = [calls EXCEPT ![t] = "answered"]
    /\ UNCHANGED <<terminalRequests, observed, clashed, asks>>

\* The app-server dies, or closes the connection in good order.
Drop ==
    /\ upstream = "up" /\ upstream' \in {"lost", "ended"}
    /\ UNCHANGED <<life, wire, reader, inHand, termVars, callVars, answerVars, callback, asks>>

-----------------------------------------------------------------------------
(* the reader *)

\* The callback of a is cancelled; if it is sending a refusal, the id is free again.
InCallback(a) == attempt[a]["callback"]
Freed(A) == {a \in A : InCallback(a) \in Sending}
CancelCallbacks(A) ==
    /\ callback' = [a \in Asks |->
          IF a \in A /\ callback[a] = "ready" THEN "over" ELSE callback[a]]
    /\ attempt' = [a \in Asks |->
          IF a \in A /\ InCallback(a) \in InProgress
          THEN [attempt[a] EXCEPT !["callback"] = "failed"] ELSE attempt[a]]

\* The answer to t is taken for that to e: the thread is that of a resume's own parameters,
\* or the one in the answer.
Known(e, t) ==
    IF e = Nobody THEN {}
    ELSE IF Method[e] = "resume" THEN {e}
    ELSE IF Method[e] = "start" /\ Method[t] # "other" THEN {t} ELSE {}
Forget(t) == terminalRequests' = [terminalRequests EXCEPT ![IdOf[t]] = Nobody]

\* Mutant of Note: the answer to a terminal that has left is not shown to the manager.
NoteIfAttached(m) ==
    CASE m.kind = "ask" ->
            /\ intercepted' = intercepted \cup {m.id}
            /\ UNCHANGED <<responded, terminalRequests, observed, attempt>>
      [] m.kind = "resolved" ->
            /\ CancelCallbacks({m.id})
            /\ responded' = (responded \cup {m.id}) \ Freed({m.id})
            /\ UNCHANGED <<intercepted, terminalRequests, observed>>
      [] m.kind = "reply" ->
            /\ Forget(m.id)
            /\ observed' = IF conn[m.id] = "attached"
                            THEN observed \cup Known(terminalRequests[IdOf[m.id]], m.id)
                            ELSE observed
            /\ UNCHANGED <<intercepted, responded, attempt>>

\* What _handle_upstream_message does before it puts the message.
Note(m) ==
    CASE m.kind = "ask" ->
            /\ intercepted' = intercepted \cup {m.id}
            /\ UNCHANGED <<responded, terminalRequests, observed, attempt>>
      [] m.kind = "resolved" ->
            /\ CancelCallbacks({m.id})
            /\ responded' = (responded \cup {m.id}) \ Freed({m.id})
            /\ UNCHANGED <<intercepted, terminalRequests, observed>>
      [] m.kind = "reply" ->
            /\ Forget(m.id)
            /\ observed' = observed \cup Known(terminalRequests[IdOf[m.id]], m.id)
            /\ UNCHANGED <<intercepted, responded, attempt>>

\* What it does once the message is in the queue.
Offer(m) == [a \in Asks |-> IF m.kind = "ask" /\ a = m.id THEN "ready" ELSE callback[a]]

\* The next message is read; if the queue is full the reader waits with it in hand.
Read ==
    /\ reader = "reading" /\ wire # <<>>
    /\ LET m == Head(wire)
       IN /\ Note(m)
          /\ IF Len(toTerminal) < Capacity
             THEN /\ toTerminal' = Append(toTerminal, m)
                  /\ m.kind # "resolved" => callback' = Offer(m)
                  /\ UNCHANGED <<reader, inHand>>
             ELSE /\ reader' = "putting" /\ inHand' = m
                  /\ m.kind # "resolved" => UNCHANGED callback
                  /\ UNCHANGED toTerminal
    /\ wire' = Tail(wire)
    /\ UNCHANGED <<life, upstream, terminal, conn, sender, carried, shown, calls, clashed, asks,
                   answers>>

\* Mutant of Put: a request that had to wait for its place is not offered.
PutSilently ==
    /\ reader = "putting" /\ Len(toTerminal) < Capacity
    /\ toTerminal' = Append(toTerminal, inHand)
    /\ reader' = "reading" /\ inHand' = Nobody
    /\ UNCHANGED <<life, upstream, wire, terminal, conn, sender, carried, shown, callVars,
                   answerVars, asks, callback>>

Put ==
    /\ reader = "putting" /\ Len(toTerminal) < Capacity
    /\ toTerminal' = Append(toTerminal, inHand)
    /\ callback' = Offer(inHand)
    /\ reader' = "reading" /\ inHand' = Nobody
    /\ UNCHANGED <<life, upstream, wire, terminal, conn, sender, carried, shown, callVars,
                   answerVars, asks>>

DropTerminals == [t \in Terminals |-> IF conn[t] = "attached" THEN "dropped" ELSE conn[t]]

\* The connection is closed and read to its end.  Only a loss closes the terminal: an
\* orderly close ends the loop without an exception.
ReaderEnds ==
    /\ reader = "reading" /\ wire = <<>> /\ upstream \in {"lost", "ended"}
    /\ reader' = "over"
    /\ conn' = IF upstream = "lost" THEN DropTerminals ELSE conn
    /\ UNCHANGED <<life, upstream, wire, inHand, toTerminal, terminal, sender, carried, shown,
                   callVars, answerVars, callback, asks>>

-----------------------------------------------------------------------------
(* terminals: _handle_terminal and _send_to_terminal *)

\* The handler awaits an answer it is passing on.
HandlerBusy == \E a \in Asks : attempt[a]["terminal"] \in InProgress

\* A terminal with the right token connects; it is refused while there is another.
Connect(t) ==
    /\ life = "open" /\ conn[t] = "idle"
    /\ IF terminal = Nobody
       THEN /\ terminal' = t /\ sender' = TRUE
            /\ conn' = [conn EXCEPT ![t] = "attached"]
       ELSE conn' = [conn EXCEPT ![t] = "gone"] /\ UNCHANGED <<terminal, sender>>
    /\ UNCHANGED <<connVars, toTerminal, carried, shown, callVars, answerVars, callback, asks>>

Disconnect(t) ==
    /\ conn[t] = "attached"
    /\ conn' = [conn EXCEPT ![t] = "dropped"]
    /\ UNCHANGED <<connVars, toTerminal, terminal, sender, carried, shown, callVars, answerVars,
                   callback, asks>>

\* The app-server has a request of t, or the answer to it is on its way.
UnderWay(t) ==
    calls[t] = "sent" \/ \E i \in DOMAIN wire : wire[i] = [kind |-> "reply", id |-> t]
\* Requests that share the id of t with t, all of them under way.
Alike(t) == {u \in Terminals \ {t} : IdOf[u] = IdOf[t] /\ UnderWay(u)}

\* A request of the terminal: it is remembered for its answer, in place of whatever had
\* its id, then sent upstream; the handler ends if it cannot be sent.
Call(t) ==
    /\ conn[t] = "attached" /\ ~HandlerBusy /\ calls[t] = "idle"
    /\ terminalRequests' = [terminalRequests EXCEPT ![IdOf[t]] = t]
    /\ clashed' = clashed \cup (IF Alike(t) = {} THEN {} ELSE Alike(t) \cup {t})
    /\ IF life = "open" /\ upstream = "up"
       THEN calls' = [calls EXCEPT ![t] = "sent"] /\ UNCHANGED conn
       ELSE /\ calls' = [calls EXCEPT ![t] = "failed"]
            /\ conn' = [conn EXCEPT ![t] = "dropped"]
    /\ UNCHANGED <<connVars, toTerminal, terminal, sender, carried, shown, observed, answerVars,
                   callback, asks>>

SenderTakes ==
    /\ sender /\ carried = Nobody /\ toTerminal # <<>>
    /\ carried' = Head(toTerminal) /\ toTerminal' = Tail(toTerminal)
    /\ UNCHANGED <<connVars, terminal, conn, sender, shown, callVars, answerVars, callback, asks>>

\* The message is sent, or the connection turns out to be closed and the sender ends.
SenderSends ==
    /\ sender /\ carried # Nobody
    /\ IF conn[terminal] = "attached"
       THEN /\ shown' = IF carried.kind = "ask" THEN shown \cup {carried.id} ELSE shown
            /\ UNCHANGED sender
       ELSE sender' = FALSE /\ UNCHANGED shown
    /\ carried' = Nobody
    /\ UNCHANGED <<connVars, toTerminal, terminal, conn, callVars, answerVars, callback, asks>>

\* Mutant of HandlerEnds: the messages of a terminal go with it.
HandlerClears(t) ==
    /\ conn[t] = "dropped" /\ ~HandlerBusy
    /\ conn' = [conn EXCEPT ![t] = "gone"]
    /\ terminal' = Nobody /\ sender' = FALSE /\ carried' = Nobody /\ shown' = {}
    /\ toTerminal' = <<>>
    /\ UNCHANGED <<connVars, callVars, answerVars, callback, asks>>

\* The finally of _handle_terminal: the sender is cancelled with what it carries.
HandlerEnds(t) ==
    /\ conn[t] = "dropped" /\ ~HandlerBusy
    /\ conn' = [conn EXCEPT ![t] = "gone"]
    /\ terminal' = Nobody /\ sender' = FALSE /\ carried' = Nobody /\ shown' = {}
    /\ UNCHANGED <<connVars, toTerminal, callVars, answerVars, callback, asks>>

-----------------------------------------------------------------------------
(* answers *)

Try(a, p) == attempt' = [attempt EXCEPT ![a][p] = "waiting"]

\* _run_server_request_callback: the orchestrator takes the request or has it refused.
RunCallback(a) ==
    /\ callback[a] = "ready"
    /\ \/ a \in responded /\ callback' = [callback EXCEPT ![a] = "over"] /\ UNCHANGED attempt
       \/ a \notin responded /\ callback' = [callback EXCEPT ![a] = "asked"] /\ UNCHANGED attempt
       \/ /\ a \notin responded /\ callback' = [callback EXCEPT ![a] = "refused"]
          /\ Try(a, "callback")
    /\ UNCHANGED <<connVars, termVars, callVars, intercepted, responded, answers, asks>>

\* The terminal answers what it was shown, and its handler has it resolved.
TerminalAnswers(a) ==
    /\ a \in shown /\ conn[terminal] = "attached" /\ ~HandlerBusy
    /\ attempt[a]["terminal"] = "none"
    /\ Try(a, "terminal")
    /\ UNCHANGED <<connVars, termVars, callVars, intercepted, responded, answers, callback, asks>>

\* Somebody answers in Lark, or the time is up, at any time after the request was taken.
LarkAnswers(a) ==
    /\ callback[a] = "asked" /\ attempt[a]["lark"] = "none"
    /\ Try(a, "lark")
    /\ UNCHANGED <<connVars, termVars, callVars, intercepted, responded, answers, callback, asks>>

LockHeld == \E a \in Asks, p \in Parties : attempt[a][p] \in Sending

Outcome(a, p, state) == attempt' = [attempt EXCEPT ![a][p] = state]

\* Mutant of Claim: the lock is not taken, and the id is added when the write is over.
ClaimUnlocked(a, p) ==
    /\ attempt[a][p] = "waiting"
    /\ IF a \notin intercepted \/ a \in responded THEN Outcome(a, p, "lost")
       ELSE IF life # "open" THEN Outcome(a, p, "failed")
       ELSE Outcome(a, p, "claimed")
    /\ UNCHANGED <<connVars, termVars, callVars, intercepted, responded, answers, callback, asks>>

\* _respond_with_payload gets the lock.  Without an upstream the send raises at once.
Claim(a, p) ==
    /\ attempt[a][p] = "waiting" /\ ~LockHeld
    /\ IF a \notin intercepted \/ a \in responded
       THEN Outcome(a, p, "lost") /\ UNCHANGED responded
       ELSE IF life # "open" THEN Outcome(a, p, "failed") /\ UNCHANGED responded
       ELSE Outcome(a, p, "claimed") /\ responded' = responded \cup {a}
    /\ UNCHANGED <<connVars, termVars, callVars, intercepted, answers, callback, asks>>

\* The message is written, once the connection is free.
Write(a, p) ==
    /\ attempt[a][p] = "claimed" /\ upstream = "up"
    /\ Outcome(a, p, "written")
    /\ answers' = [answers EXCEPT ![a] = @ + (IF asks[a] = "open" THEN 1 ELSE 0)]
    /\ UNCHANGED <<connVars, termVars, callVars, intercepted, responded, callback, asks>>

Drained(a, p) ==
    /\ attempt[a][p] = "written"
    /\ Outcome(a, p, "won")
    /\ UNCHANGED <<connVars, termVars, callVars, intercepted, responded, answers, callback, asks>>

\* The connection is closed: the send raises and the id is free again.
SendFails(a, p) ==
    /\ attempt[a][p] \in Sending /\ upstream # "up"
    /\ Outcome(a, p, "failed")
    /\ responded' = responded \ {a}
    /\ UNCHANGED <<connVars, termVars, callVars, intercepted, answers, callback, asks>>

-----------------------------------------------------------------------------
(* close; between its awaits the reader and the handlers go on *)

\* The upstream is taken away from later sends, the server closes the terminals and the
\* callbacks known so far are cancelled.
Close ==
    /\ life = "open" /\ life' = "closing"
    /\ conn' = DropTerminals
    /\ CancelCallbacks(Asks) /\ responded' = responded \ Freed(Asks)
    /\ UNCHANGED <<upstream, wire, reader, inHand, toTerminal, terminal, sender, carried, shown,
                   callVars, intercepted, answers, asks>>

\* Mutant of CloseUpstream: the handlers of the server are waited for before.
CloseServerFirst ==
    /\ life = "closing" /\ \A t \in Terminals : conn[t] \in {"idle", "gone"}
    /\ life' = "draining"
    /\ upstream' = IF upstream = "up" THEN "ended" ELSE upstream
    /\ UNCHANGED <<wire, reader, inHand, termVars, callVars, answerVars, callback, asks>>

CloseUpstream ==
    /\ life = "closing" /\ life' = "draining"
    /\ upstream' = IF upstream = "up" THEN "ended" ELSE upstream
    /\ UNCHANGED <<wire, reader, inHand, termVars, callVars, answerVars, callback, asks>>

StopReader ==
    /\ life = "draining" /\ life' = "waiting"
    /\ reader' = "over" /\ inHand' = Nobody
    /\ UNCHANGED <<upstream, wire, termVars, callVars, answerVars, callback, asks>>

CloseReturns ==
    /\ life = "waiting" /\ \A t \in Terminals : conn[t] \in {"idle", "gone"}
    /\ life' = "closed"
    /\ terminal' = Nobody /\ intercepted' = {} /\ responded' = {}
    /\ terminalRequests' = [n \in Ids |-> Nobody]
    /\ UNCHANGED <<upstream, wire, reader, inHand, toTerminal, conn, sender, carried, shown,
                   calls, observed, clashed, attempt, answers, callback, asks>>

-----------------------------------------------------------------------------

AppServer == Drop \/ (\E a \in Asks : Ask(a) \/ Settle(a)) \/ (\E t \in Terminals : Reply(t))
Terminal ==
    \/ \E t \in Terminals : Connect(t) \/ Disconnect(t) \/ Call(t)
    \/ \E a \in Asks : TerminalAnswers(a)
Reader == Read \/ Put \/ ReaderEnds
Closing == CloseUpstream \/ StopReader \/ CloseReturns
Answering(a, p) == Claim(a, p) \/ Write(a, p) \/ Drained(a, p) \/ SendFails(a, p)

Next ==
    \/ Start \/ AppServer \/ Terminal \/ Reader \/ SenderTakes \/ SenderSends \/ Close \/ Closing
    \/ \E t \in Terminals : HandlerEnds(t)
    \/ \E a \in Asks : RunCallback(a) \/ LarkAnswers(a) \/ (\E p \in Parties : Answering(a, p))

Spec == Init /\ [][Next]_vars

\* The event loop runs what is ready, closing a connection takes a bounded time, and an
\* attached terminal reads.  An app-server that does not read may keep a send waiting.
Fairness ==
    /\ WF_vars(Reader) /\ WF_vars(SenderTakes) /\ WF_vars(SenderSends) /\ WF_vars(Closing)
    /\ \A t \in Terminals : WF_vars(HandlerEnds(t))
    /\ \A a \in Asks : WF_vars(RunCallback(a))
    /\ \A a \in Asks, p \in Parties : WF_vars(Claim(a, p)) /\ WF_vars(SendFails(a, p))

FairSpec == Spec /\ Fairness

-----------------------------------------------------------------------------

\* An open request is sent at most one answer, whichever of terminal, Lark and refusal come
\* together, and whatever becomes of their sends (_respond_with_payload).
OneAnswer == \A a \in Asks : answers[a] <= 1

\* Lark is asked about a request only when the manager knows the thread it belongs to: the
\* answer that opened the thread was observed before, unless a request of another terminal
\* with the same id was under way together with it (_handle_upstream_message).
AskedInKnownThread ==
    \A a \in Asks : callback[a] # "none" => ThreadOf[a] \in observed \cup clashed

\* "Correlation is retained by CodexGateway" (codex_interactive.py): with or without such a
\* request.
CorrelationRetained == \A a \in Asks : callback[a] # "none" => ThreadOf[a] \in observed

\* The terminals are fed in order: what is carried comes before what is queued, and a
\* terminal is linked as long as its sender runs.
feedWaiting == IF carried = Nobody THEN toTerminal ELSE <<carried>> \o toTerminal
feedLink ==
    [t \in Terminals |->
        CASE conn[t] = "idle" -> "idle"
          [] conn[t] \in {"attached", "dropped"} /\ sender -> "on"
          [] OTHER -> "off"]
Feed == INSTANCE TerminalFeed WITH Messages <- Message, waiting <- feedWaiting, link <- feedLink
FeedSpec == Feed!Spec

\* A request that has arrived is offered to Lark; only the absence of a terminal to take
\* what came before it may hold it back (_read_upstream, slow or absent terminals).
Unread(a) == \E i \in DOMAIN wire : wire[i] = [kind |-> "ask", id |-> a]
ArrivedIsOffered ==
    \A a \in Asks :
        Unread(a) ~> callback[a] # "none" \/ life # "open" \/ terminal = Nobody

\* close returns, whoever is connected and whatever is being sent.
CloseEnds == life = "closing" ~> life = "closed"
=============================================================================
