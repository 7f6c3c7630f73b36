# A verification of the Lark agent bot

The program (`src/src/lark_bot`) is a local daemon between Codex app-servers, which ask for approvals and
input, and people, who answer in the native Codex TUI or in Lark. This directory models the part of it that
decides who answers what (the interaction table, the orchestrator, the gateways in front of the TUIs, and the
app-servers, terminals, Lark users and clocks that drive them), the two links to app-servers (client and gateway), the
life of a TUI session, the way into Lark (the outbox) and out of it (the long connection), and three smaller parts with
a protocol of their own (session locks, the probe, the cooldown). The modules are checked with TLC and, where it says so
below, proved with TLAPS.

## 1. Inventory

| component | state | operations | interacts with |
|---|---|---|---|
| Codex store (`modules/codex/codex_store.py`, `codex_schema.py`) | tables of sessions, interactions, seen events, outbox, audit | one transaction per method, with the write lock | called by orchestrator, router, outbox worker |
| Orchestrator (`codex_orchestrator.py`, `orchestration/`) | `_live` (requests this process can answer), `_interactive_sessions`, `_tasks`, the three tasks of `start` | `create_session`, `process_server_request`, `resolve_interaction`, `resolve_terminal_request`, `process_notification`, `expire_due_interactions`, `cancel_session`, `close_interactive_session`, monitor | store, app-server client, gateways (responders), outbox |
| App-server client (`app_server/app_server_client.py`) | process, pending calls, two bounded queues | `request`, `respond`, `respond_error`, `close`, `wait_closed` | the managed app-server over stdio |
| Gateway (`codex_gateway.py`) | intercepted and responded ids, callbacks, terminal, upstream, bounded queue to the terminal | `start`, forwards both ways, intercepts server requests, sends one response each, `close` | TUI, the session's own app-server, orchestrator |
| Interactive manager (`codex_interactive.py`) | process and gateway per session | `create_session`, `close_session`, `close` | gateway, orchestrator, the command `lark-bot codex` |
| Daemon (`server/daemon/app.py`) | worker tasks, degraded reason | HTTP API, Lark router task, outbox worker, expiry worker, restart | all of the above |
| Lark router, connection, client (`modules/lark/`) | seen events, queues of the child process, token | `route`, pump, send | store, orchestrator, Lark |
| Agent session service (`modules/agent/agent_service.py`) | reference-counted lock per session | `run_serialized` | adapters |
| Notification cooldown (`modules/notification/`, `storage/sqlite.py`) | history table | check, send, record | Lark client |
| Local probe (`codex_probe.py`) | an app-server and connections to it | acquire, talk, release | app-server |
| Claude, hook and event adapters, CLI, rendering, task runner | none to speak of | translation and one-shot commands | HTTP API |

What is hard: everything runs on one event loop, so handlers interleave at their awaits; five kinds of actor
close interactions (terminal, Lark, expiry, app-server, end of the session); the durable row, the in-memory
entry and the JSON-RPC response are three pieces of state updated one after the other; callbacks run later than
the messages that spawned them; app-servers die; the daemon restarts.

What makes each component correct:

* store: one verdict per interaction, the first; nothing pending in an ended session; ended sessions are final.
* orchestrator: what is pending can be answered; one "session ended" report per ended session; what is forwarded
  is what was decided, and the reverse.
* client: a caller gets its own answer or an error; nothing survives a close.
* manager: a process that runs, a gateway that is open and a row that is active have somebody who will end them.
* Lark connection: an event that was accepted is acted on, once, or the daemon says that it no longer listens.
* session lock: one operation per session, and a cancelled caller neither keeps the lock nor frees that of another.
* probe: what it acquires it gives back, whenever it is cancelled. cooldown: repeats come only from processes that run
  or record together.
* outbox: every notification is sent, at least once, and again only for a reason; a reply reaches the interaction
  its message asks about.
* gateway: one response per request; messages in order, to one terminal at a time; no request is lost between reader,
  callback and table; no interaction of a turn that is over; no refusal of a request that is still wanted; `close`
  returns.
* all together: every request comes to an end.

`PROJECT.json` lists the components with their status and the hazards, each at its line.

## 2. Modules

`InteractionLedger` is what the interaction table promises: a write-once ledger. An entry is opened, then closed
with a verdict that nothing changes. One step may close several entries (the end of a session).

`CodexStore` is the two tables. `sessions[s]` and `interactions[i]` are rows; the status `"absent"` is a key no
row has yet. There is one action per transaction the program runs, guarded by its WHERE clause; a
compare-and-swap that loses is no step. `StoreNext` lets any client call any of them, so what it shows holds
for every caller. Timestamps, names and summaries are left out.

`CodexOrchestrator` adds `live` (keys of `_live`) and `notices` (reports of ended sessions) and says what each
handler does between two awaits: `Accepts`/`OpenLive` are the two halves of `process_server_request`, `Decide` the
claim shared by `resolve_interaction`, `resolve_terminal_request` and `expire_due_interactions`, `EndSessions` a
claim that won, `RequestResolved`, `TurnStarted`, `TurnCompleted` the cases of `process_notification`. Keys are
naturals in the order of insertion because `_find_live_by_request_id` and `get_session_by_thread` return the first.
`OrchSpec` is the orchestrator alone: any of these runs, in any order, with any arguments, whoever asks. It is what
the rest of the program may rely on, and the middle layer of the proofs.

`CodexSystem` composes it with the tasks and the surroundings:

| variable | stands for |
|---|---|
| `hosts`, `turns`, `asks` | app-servers (host 0 is the managed one, host `s` that of TUI session `s`), their threads and turns, their requests and the replies each got (external) |
| `inbox` | messages on the way from an app-server; for the managed one, the client's two queues kept in one sequence: `ConsumeRequest` and `ConsumeNotification` each take the first message of their sort (`NextOfItsSort`), so either may overtake the other |
| `callbacks`, `responded`, `shown` | callback tasks and `_responded_ids` of a gateway; what its terminal shows |
| `creating`, `writing` | where `create_session`, and the coroutines that await a send, are suspended |
| `asker` | `_LiveInteraction.responder`: the app-server whose request an interaction is |
| `consumers`, `routing`, `restarts` | tasks that can end for good; restarts of the daemon |

A request carries its thread. A TUI is bound to the first thread it opens (`TuiThread`); what an app-server asks in another one
(`AskElsewhere`, threads `OtherThreads`) goes the same way through gateway and callback and meets the row of a session with a
different thread. An action is one run of a handler between awaits. `writing[w]` holds what the Lark router, the expiry worker,
the request consumer or a terminal's reader awaits; `FinishWrite` and `FailWrite` are its two ends.

`AppServerClient` opens up what `CodexSystem` shows as the link to host 0: startup task, reader, waiter, callers, the
queue of write operations behind `_write_lock`, the cleanup coordinator, and the process. `ops[o]` is a caller with
its id in `_pending` and its future; `Return` is the `finally` of `request`. `_lifecycle_lock` is never held over an
await, so it never makes anybody wait and its sections are single steps. What `CodexSystem` assumes of the link follows
from it: messages reach the two queues in order until the client dies (`Exit`), a send on a dead link raises
(`CanFail`), and `wait_closed` returns (`MonitorClosed`, justified by `ClosingEnds`).

`RpcLink` is what the client promises to those who call it: a link goes one way, calls are taken only while it is up,
and whatever makes it close releases everybody in that moment.

`NotificationOutbox` puts the outbox beside the same tables (it extends `CodexStore`): `outbox` is
`notification_outbox` by primary key, `worker` the coroutine `_outbox_worker` with the batch it listed, the row it is
sending and the message id Lark gave it, `posted` the messages in the chat, `seen` the table of events, `spool` the
files of `codex-hook`. A row waits until `next_attempt_at`, is due, then sent. The orchestrator is reduced to the
transactions it runs with the notifications it emits, in the names of `CodexSystem`'s handlers; threads and turns play no
part. `CodexSystem` leaves notifications out but for `notices`, so the two modules meet in the tables.

`DeliveryQueue` is what the outbox promises: an accepted item is owed until a copy of it was delivered, and is never
delivered after it was settled.

`Gateway` opens up what `CodexSystem` shows of a TUI's app-server, terminal and callbacks, for one gateway:

| variable | stands for |
|---|---|
| `upstream`, `wire` | the websocket to the app-server and what is buffered in it; `"lost"` raises `ConnectionClosed` in the reader, `"ended"` (an orderly close) only ends its loop |
| `reader`, `inHand`, `toTerminal` | `_read_upstream`, suspended in `_to_terminal.put` when the queue is full |
| `terminal`, `conn`, `sender`, `carried` | `_terminal`, the handlers of connections, the sender task and what it is sending |
| `calls`, `terminalRequests`, `observed` | requests of the terminals, `_terminal_requests` by JSON-RPC id (`IdOf`: terminals may use the same ones, and a later request takes the place of an earlier one), and the requests whose thread the manager was shown |
| `clashed` | history: requests that were under way at the same time under one id |
| `intercepted`, `responded`, `callback`, `attempt` | `_intercepted_ids`, `_responded_ids`, callback tasks, and the coroutines in `_respond_with_payload` |
| `asks`, `answers` | the app-server's view of its requests (external) |

`TerminalFeed` is what it promises to terminals: one feed, in order, none twice, one terminal at a time, at most one
message lost with each terminal that leaves. `CodexSystem` assumes of its TUI hosts that messages come in order, that a
callback runs later than its message, and that one answer wins: `FeedSpec`, `ArrivedIsOffered` and `OneAnswer`.

`InteractiveManager` is the life of TUI sessions: `Post` to `Deleted` are `_run_codex_tui` in the command, with its
timeouts and its being killed; `Spawned` to `Undo` the awaits of `create_session`; `CloseGateway`, `CloseProcess` those of
`close_session`; `Stop`, `Drained`, `CloseNext`, `Stopped` the shutdown (uvicorn waits for handlers, then the lifespan
closes the sessions in its snapshot); `Killed` a kill of the daemon, which leaves app-servers behind and remembers in
`cut` whose.

`LarkConnection` follows an event from Lark to the router: the child process and its queue, the pump and its queue, the
router task, the table of seen events, and the daemon's start, stop and kill. `SessionLock` is `run_serialized`, with
`asyncio.Lock` (waiters, wakeups, cancellation) modelled as the library behaves. `ProbeResources` is `run_local_probe` with
its three acquisitions (`_acquire_resource` shields each from cancellation and has a late cleanup). `NotificationCooldown` is `send_with_dedupe` of several processes over one row of `notification_state`:
`should_send` reads the clock (`Look`) and then the row (`Check`), `record_sent` reads the clock (`Stamp`) and then waits for
SQLite's write lock and overwrites the row (`Record`), so records may be committed in another order than that of their times.
Two history variables say what a sender could have known: `earlier[p]`, who had recorded when `p` looked, and `beside[p]`, who
was between clock and commit when `p` committed. These four and `InteractiveManager` share no state; `MCParts` puts them into
one run.

`CodexStoreProofs`, `CodexOrchestratorProofs`, `CodexSystemProofs`, `AppServerClientProofs`, `GatewayProofs`,
`NotificationOutboxProofs`, `SessionLockProofs` and `PartsProofs` (manager, Lark connection, probe, cooldown) hold the
theorems; `MCCodexSystem`,
`MCNotificationOutbox`, `MCGateway` and `MCParts` values for TLC.

| layer | module | implements | shown by |
|---|---|---|---|
| ledger of verdicts | `InteractionLedger` | | |
| tables | `CodexStore` | the ledger (`FirstResponseWins`) | run `outbox`, theorem `FirstResponse` |
| orchestrator | `CodexOrchestrator` | the tables (`StoreSpec`) | theorem `OrchImplementsStore` |
| daemon and surroundings | `CodexSystem` | the orchestrator (`OrchSpec`) | run `answered_managed`, theorem `SystemImplementsOrchestrator` |
| link | `RpcLink` | | |
| client | `AppServerClient` | the link (`LinkSpec`) | run `client`, theorem `ClientImplementsLink` |
| feed | `TerminalFeed` | | |
| gateway | `Gateway` | the feed (`FeedSpec`) | run `gateway`, theorem `GatewayFeeds` |
| at-least-once queue | `DeliveryQueue` | | |
| outbox, worker, Lark | `NotificationOutbox` | the queue (`QueueSpec`), the tables and the ledger | run `outbox`, theorems `Delivery`, `OutboxTables`, `OutboxFirstResponse` |

Definitions that begin with "Mutant of" are plausible bugs, kept next to what they alter; no specification uses
them. Each property has one that it catches.

## 3. Runs

| run | instance | shows |
|---|---|---|
| `interactive` | 1 TUI, 2 turns, a second thread, 2 approvals, terminal errors | the races for a request, late callbacks, two pending at once; refusals (`RefusalsAreDue`) |
| `restart` | 2 managed sessions, 1 request id, dying app-server, 1 restart | ids used again by the next app-server |
| `mixed` | 1 managed session, 1 TUI, user inputs | effects of one on the other |
| `answered_tui` | 1 TUI, 2 approvals, dying app-server | every request comes to an end |
| `answered_managed` | 1 managed session, 2 user inputs, failing startup, dying app-server | the same; expiry and death of the app-server; `OrchSpec`: no step of the tasks leaves the specification of the orchestrator |
| `client` | the handshake and 2 requests, 1 queue of 1 | start, calls, failures and close of the client in any order; the promise of the link, the handshake, and that calls and closing come to an end |
| `outbox` | 1 session, 2 interactions with one request id, 1 hook, 1 Lark event, 3 rows, 1 trouble | the delivery, its order, the correlation of replies, hooks seen once, liveness of the worker; the invariants of the tables (`TablesOK`) and the ledger (`FirstResponseWins`) |
| `gateway` | 2 terminals that number their requests alike, 1 request, queue of 1 | the feed; one answer however terminal, Lark, refusal, `serverRequest/resolved`, loss and close interleave; what arrives is offered; close returns |
| `parts` | 2 TUI sessions, all faults, 1 kill; 4 calls of the lock, 2 sessions; 2 Lark events, each delivered twice, queues of 1, 1 restart; probe with 3 resources, 2 cancellations; 3 processes that notify, a cooldown of 2 | the properties of the five small components |
| `two_tuis`, `terminal_error`, `hook_lost` | smallest that shows it | violations, section 6 |

Bounds. `MaxTurns` bounds turns per session (two: a callback can outlive its turn and meet the next one),
`MaxRestarts` restarts, `RequestIds` the requests of an app-server (each is used once per process life),
`Interactions` and `Sessions` the rows. Rows are never fewer than the requests that can be accepted. Two requests
are enough for one to be pending, refused or written while another is handled, and two sessions for one to be
ended by what happens to the other: no handler looks at more than one interaction and one session, except the ones that
take all of them. `Mortal` and `Faults` say what may go wrong in a run; `mixed` with a dying managed
app-server (`Mortal = {0}`, 2.1 million states) was checked once, the run has the cancellation of that session instead. Runs with
`Resumable = {}` exclude resumed threads, and runs that use `ApartIds` or one TUI exclude colliding ids: section 6 says
what happens otherwise. `OtherThreads` is one thread in `interactive` and empty where sessions, not refusals, are the question:
a request made there is refused and touches no row.

Deadlock is not checked: a system in which every session has ended and every bound is used up may stop.

Two requests are enough in `client` for an answer to come to the wrong one and for a write to wait behind another; the
`initialized` of the handshake is a write that waits for no answer, as a response is (`Replies`, empty in the run);
one queue of one, because the two queues are alike and overflow at any capacity is the same step; one unread line of
stdout, because the reader handles one line at a time and the rest of the pipe cannot be told from a slower server.
After the reader is gone the process prints nothing in the model, since nobody would notice.

In `outbox`, `MaxRows` bounds the table (three: a question, its news or a hook, and the end of the session, so that a
batch has an order and a retried row can fall behind), `MaxTroubles` the failed sends, the stops of the daemon and the
store calls that raise, together: one trouble anywhere is what the properties are about (`RepeatsAreExcused` counts
them, `QuestionBeforeNews` needs one to be excused). `Outcomes` are the statuses a session may end with; the choice
makes no difference to the outbox. The batch limit of 50 is never reached. The store's own invariants are checked here
with few rows; the theorems have them for all.

In `gateway`, a second terminal is one that comes after another has left, or is refused beside it; both have id 1, so the
request of the second may take the place of the first one's `thread/start`, before or after its answer is read; a queue of one makes
the reader wait, as any capacity does when it is used up; `MaxUnread` of two lets a request and its
`serverRequest/resolved` be read one after the other. One request is enough for three parties to answer it at once; with
two requests and one terminal, where the lock is contended between requests, the safety properties and `FeedSpec` were
checked once (4.8 million states) and are proved for any number.

In `parts` each behaviour is one of a single component (`part` says which, and what is fair is disabled in the others), so
that the bounds do not multiply. Two sessions, so that one is created or closed while `close` works on the other; four
calls of the lock, three of them of one session, so that one holds it, one was woken and one waits when a cancellation
comes; two events in queues of one, so that either queue overflows; two cancellations, the second of which meets the probe
while it recovers; three processes that notify, so that one comes after two that run together, and a clock that goes on for
the cooldown, so that a notification may be repeated with and without an excuse (up to twice the cooldown was checked
once, 1.4 million states).

No run uses symmetry: keys are ordered, or there is only one.

## 4. Fairness

`FairSpec` adds weak fairness of what the event loop runs (consumers, monitor, readers, callbacks, completion of
awaited sends), of `Expire` (the worker polls every second and time passes), of an app-server obeying an
interrupt, and of a call on a dead link raising. There are no clocks: `Expire` may come at any time, but for one thing that
the timeout (a second at least, half an hour by default) makes certain: what came before the request in the queue of
notifications, the start of its turn, has been read (`IsAnnounced`; `process_notification` awaits only `_emit`, which does not
suspend). It assumes nothing of people, of an app-server ending a turn or
of a TUI being closed. `asyncio` schedules every ready task, and all the waits are on sends or on timers.

`AppServerClient!FairSpec` adds weak fairness of the tasks of the client, of the timers (`Timeout`, and the kill
that ends a cleanup that waits too long) and of the child watcher. It assumes nothing of the process, not even that it
reads its stdin: a drain may hang for ever. That is why `CallsReturn` has a premise (no write hangs for ever) and
`ClosingEnds` has none.

`NotificationOutbox!FairSpec` adds weak fairness of the worker (the event loop runs it, and its wait is bounded by
`outbox_poll_seconds`), of time (a delay ends), and of Lark answering a send. It assumes nothing of people, of the
orchestrator or of a restart: `EveryRowIsSent` is stated for as long as the daemon and its worker live. That an attempt succeeds in the end is the bound `MaxTroubles`.

`Gateway!FairSpec`: the tasks of the gateway run when they are ready, and a terminal that is attached reads. It does not
assume that the app-server reads: `Write` and `Drained` are not fair, a send may hang with the response lock, and
`CloseEnds` holds because closing the connection makes it fail. `ManagerFairness`: handlers advance (each of their awaits has
a timeout), uvicorn and the lifespan go on, a gateway notices that its app-server died, a TUI without a connection exits and
its command then sends the `DELETE`; that a command is not killed is the exception in `SessionsEnd`. `LockFairness`: a woken
waiter is resumed and an operation ends; it is asked of the calls together, which is enough as each is made once (the same
in the client). `LarkFairness`: pump and router run.

## 5. What is proved

All proofs hold for every value of the constants that satisfies the named assumptions (keys are naturals; the actors
and the placeholder for "no value" are apart from everything else; the TUI sessions are sessions).

**Tables** (`CodexStoreProofs`): the type invariant and the other four parts of `TablesOK`, `TerminalIsFinal` and
`FirstResponseWins`. A step
of the store is one of five effects (a session alone changes, an interaction opens, one closes and its session is
refreshed, sessions end with all that is pending in them, a message is attached): lemma `StepEffects`. Each invariant
is then preserved effect by effect. `TypeOK` is inductive alone; `PendingHasActiveSession`, `PendingRequestUnique` and
`DecisionOnRecord` need `TypeOK`; `WaitingHasPending` also needs `PendingHasActiveSession`. `FirstResponse` maps every
effect to `Open(e)` or `Close(E)` of the ledger or to a stutter.

**Orchestrator** (`CodexOrchestratorProofs`): `OrchSpec` implements `StoreSpec`, so everything about the tables
carries over; and `PendingIsAnswerable` and `EndedOnce`, which relate the tables to `_live` and to the outbox. The
argument has two halves. `KeepsAnswers`: a handler that leaves a row pending leaves its entry, and one that opens a row
adds it. `Ends`: the sessions whose status turns terminal in a step are exactly those it reports. `EndedOnce` needs in
addition that no step leaves a terminal status, which is the store's `TerminalIsFinal`.

**System** (`CodexSystemProofs`): `SystemSpec` implements `OrchSpec`. Most actions are a handler or leave the
orchestrator's variables alone, once it is known that what they pass on are sessions, interactions, requests, threads and
turns. That knowledge is the type invariant `SystemTypeOK`, and it is what is inductive: the arguments come out of messages
on their way, out of suspended writes and out of the requests of an app-server, so the types of all of these have to be
carried along (`SafeStep` for a step that may concern the orchestrator, `QuietStep` for one that does not; `AsksGrow`
because what a suspended write refers to must go on existing). From the implementation follow, for the whole system,
`PendingIsAnswerable`, `EndedOnce`, `StoreSpec`, `TablesOK` and `FirstResponseWins`.

The invariants that relate the tables to messages on their way need more. A step is described once by what it does to the
requests of the app-servers and to the suspended writes (`StepKind`: a request is made, answered, withdrawn; a write begins,
goes through, is given up), and each invariant is proved against these descriptions. They all start from `Sane`: what is
open or answered belongs to an app-server that is up, and a row to the request and session it was opened for.

* `SystemReplyRecorded`. A suspended write holds a decision that is on record (`WrittenIsRecorded`): a write begins with
  the claim, and records do not change (`FirstResponseWins`).
* `SystemOneReply`. The managed link has no memory of what it answered; there a request is in one hand at a time
  (`OneHand`): queued, in a callback, pending in a row, or in one suspended write, and while it is in any of these it has no
  reply (behind a gateway: unless a terminal answers with an error, `Orderly`). Behind a gateway the argument is `responded`
  (`GatewayAnswersOnce`), and it also covers a terminal that answers with an error.
* `SystemForwarded`. What is on record and not forwarded yet is being written (`OwedIsSent`), and the write of a decision is
  given up only if the app-server no longer waits or the session ends. Needs that terminals do not answer with errors:
  otherwise the statement is false (finding `terminal_error`).
* `SystemCurrentTurn`. `TurnsSane` says in which order the inbox of a gateway holds what was said about turns (`Ordered`: a
  turn that was begun is open at the app-server or finishes later in the queue, and before the next one starts), that a
  callback that is to run belongs to its session, and which thread a row has (`Threaded`). The hypothesis `[]ThreadsApart`,
  no two sessions share a thread, is what section 6, item 4, is about. `SystemNothingResumed` discharges it where no TUI
  resumes a thread.
* `SystemTracked`. Whoever has a request that is open keeps it or passes it on: from the queue to a callback or a row, from a
  row to the write that its claim begins (`HandsStay`, `WritesStay`). A row is closed without a write only if the request is
  settled or the session ends. Besides `[]ThreadsApart` it needs `[]RequestsApart`, that no two app-servers use one id:
  otherwise what is resolved at one of them closes the row of another (finding `two_tuis`).
* `SystemRefused`: a request that waits is turned down only if its session is over or its TUI made it in another thread than
  its first (section 6, item 5; `ForeignThread`: no session is bound to such a thread, so what is asked there never
  gets a row). While a turn of a TUI is on it is on record, or the message that it begins is in the queue of the gateway
  before any open request of that turn, and no such request waits in a callback (`StartedFirst`). So the handler that is given an open
  request finds its session and its turn; `RequestFree` says that no pending row has its id, since an unhandled request has no
  row (`OneHand`) and others have other ids (`[]RequestsApart`). A refusal that is suspended stays justified
  (`RefusalIsOver`).

`SystemTrackedApart` and `SystemRefusedApart` discharge both hypotheses where no TUI resumes a thread (`Resumable = {}`) and
the ids of the app-servers differ (`IdsApart`), as in the run `mixed`. The runs of a single app-server satisfy
`RequestsApart` because nobody else asks.

**Client** (`AppServerClientProofs`): `AppServerClient` implements `RpcLink`, and `OwnAnswer`, `ClosedIsQuiet`,
`FirstCauseStands`, `HandshakeFirst` and the type invariant hold, for any number of callers. The inductive invariant `ClientInv` has
five parts:

* `OpsOK`, the operations by themselves: a future that is not done has an id, ids in `_pending` are not shared, and
  what a future holds is its own answer or a failure. `OwnAnswer` is a part of it.
* `LifeOK`: nobody waits once the client closes; the stages of startup, cleanup and `_lifecycle` fit together.
* `CleanOK`: what the coordinator has already done stays done (no task after the cancellations, no write after they were
  awaited, no process after it was reaped). With `LifeOK` it gives `ClosedIsQuiet`.
* `WritersOK`: a request in the queue of the write lock is registered in `_pending`.
* `WireOK`: an id that was sent, or that comes back in a line of stdout, belongs to the operation it was sent for or to
  nobody. That is what keeps `OwnAnswer` inductive, since ids are dropped while answers to them are under way.

`HandshakeFirst` needs a sixth part, `Hello`: as long as `initialize` is in the queue of the write lock it is alone there
and nothing was written; `initialized` enters the queue only when `initialize` is answered (`AnswersKnown` and
`LinesKnown`: what a caller holds, or is about to read, was answered by the server); anything else enters only once the
server was sent `initialized`, or is dead. A drain that ends "sent" therefore means sent, or a server that is gone.

A step of the client is described to the link by the calls it settles (`SettleOne`, or `ShutAll` when the client starts
to close), so that each action is proved safe and shown to be a step of the link in one lemma (`Safe`).

**Gateway** (`GatewayProofs`), for any number of terminals and requests, any capacity, and any thread structure:

* `OneAnswerIsSent`. The lock makes the attempts past the claim at most one (`OneSends`); an attempt that was claimed or
  written has its id in `_responded_ids` (`Taken`); what is resolved there without an attempt is settled at the app-server
  (`ResolvedIsSettled`); and a request that is open and was answered is taken (`AnsweredIsTaken`). The last needs that an id
  is given back only when the write has failed with the connection, or with a cancelled callback whose request is settled.
* `KnownThreadsOnly` follows a thread from the terminal's call to the callback: a call that was sent is in
  `_terminal_requests`, its answer is on the wire before any request in its thread (`AskIsLater`), so that the reader has
  shown it to the manager when it creates the callback. Its entry may have been overwritten under the same id; then both
  requests are in `clashed` (`AlikeClash`), which is the exception in `AskedInKnownThread` (section 6, item 6).
* `GatewayFeeds` maps queue, carried message and connections to `TerminalFeed`; it needs that the sender serves the
  terminal that is registered and that it carries nothing when it is gone (`Serving`).

**Outbox** (`NotificationOutboxProofs`), for any number of rows, interactions, hooks and events, any bound on troubles:

* A step of the store is one of a few effects on the rows of the interactions (`RowEffect`), a step of the worker one on
  the outbox, the chat and the counters (`Effect`, lemma `OutboxEffects`), and news is only appended (`Appending`). Each
  invariant below is proved against these effects, not against the actions.
* `Delivery`: the outbox implements `DeliveryQueue`. `Base` keeps the shape of the tables and of what the worker holds, and
  that a row marked as sent has a copy in the chat (`SentWasPosted`), so that settling follows a delivery.
* `OutboxTables` and `OutboxFirstResponse`: whatever notifications, replies, failures and restarts do to the tables is a
  transaction of the store (`UsesStore`), so the theorems about `CodexStore` carry over.
* `RepeatsExcused`: the copies of a row number at most its failed attempts plus the stops, and one more once it is marked,
  while the worker holds a copy it has not accounted for, or died over one (`CopiesPaid`, `Unpaid`). A hook is in the table
  once, because its key was recorded before its row was inserted (`Once`).
* `LarkAnswers`: news about an interaction exists only when it is closed (`NewsClosed`), and a closed row takes no message,
  so the message on a row is that of its question.
* `QuestionFirst`: while a question was neither posted nor tried in vain, it is before its news in the order in which the
  worker takes rows (`Ordered`, `Ahead`); the worker holds the first of its batch.

**Session lock** (`SessionLockProofs`): `SessionsExclude` and `TableKeepsUsed`, for any number of calls. The invariant says
that the calls of a session in use share one entry (`Shared`), that its count is the number of its users (`Counted`), so
that the last one to leave is the one that drops it, and that who holds a lock holds it alone (`Exclusive`).

**Parts** (`PartsProofs`). Manager: `NoneIsStray` is inductive with the stages that `create_session` and `close_session`
can be in (`Stages`, `Phases`), and `StoppedLeavesNothing` follows. Lark: `ActedOnOnce`, because what is routed is recorded
and not acted on yet (`RoutesRecorded`, `ActedIsSeen`). Probe: `NothingLeaks`, because what is open is owned, being
recovered, or has a late cleanup (`Kept`). Cooldown: `RepeatsAreConcurrent`. The row is as late as
whatever was recorded in it, but for what an older time overtook (`RowIsLatest`), and who may still overtake a record was
between its clock and its commit when that was committed (`LateIsBeside`); so a sender that may send has kept its distance, or
saw a row that was moved back (`MaySend`).

Proved and in no run, since a step further down says more or the type is all they say: the type invariants
(`OutboxTypeOK` among them), `TerminalIsFinal`, `FirstCauseStands`, `TableIsExact`, `ActedOnOnce`.

Every invariant and every action property of a passing run is stated by a theorem. Only model-checked is what liveness
under fairness says, which is beyond the prover: `RequestsAreAnswered`, `TimeoutInterruptsTurn`, `DeadServerEndsSession`,
`CallsReturn`, `ClosingEnds`, `EveryRowIsSent`, `ArrivedIsOffered`, `CloseEnds`, `SessionsEnd`, `EveryCallEnds`,
`AcceptedIsActedOn`, `DeafIsReported`.

## 6. Where the code and its documents disagree

Runs that show it:

1. `two_tuis`: requests are looked up by id across sessions, so independent TUIs take each other's interactions.
2. `terminal_error`: an error answer of a terminal bypasses the claim, and Lark can win afterwards without effect.
3. `hook_lost`: a hook is recorded as seen before its notification is stored; if the second fails, the spooled copy is
   deleted as a duplicate.

`PROJECT.json` quotes the lines. What the passing runs say of 1 and 2 is under the bounds that exclude them.

Met while modelling, without a run of their own; 4 to 9 name the instance with which TLC finds the violation, and the property:

4. A thread's turns are attributed to the oldest row that has it (`get_session_by_thread`), so a TUI that resumes a thread has
   its requests refused while its session runs; `src/README.md:143-144` lists "Resume a specific session through the Lark
   gateway." Instance: the one of `two_tuis` with `Resumable = {1}`; `RefusalsAreDue`. The passing runs exclude it.
5. A session is bound to the first thread its TUI opens (`bind_interactive_thread`, only while it starts), and what is asked in
   a later one is refused in an active session: no row, no Lark.
   `docs/superpowers/specs/2026-07-13-codex-tui-companion-design.md:73` says "Each structured approval or input request
   creates one durable interaction row." Instance: `interactive`; `RefusedOnlyIfOver`. The run contains the case and
   `RefusalsAreDue` names the exception.
6. The gateway remembers terminal requests by id alone, and every TUI numbers from the same start: a terminal that comes
   while a `thread/start` of the one before is not answered can take its entry away. The answer is then shown to the manager
   under the method of the other request, and the thread is never bound. `codex_interactive.py:144` says "Correlation is
   retained by CodexGateway." Instance: `gateway`; `CorrelationRetained`. The run contains the case and
   `AskedInKnownThread` names the exception.
7. The outbox worker sends a question whose interaction was closed while it waited. The TUI companion design (:65-66)
   says "Approval and input notifications are sent only if the interaction is still pending when due.", and that what the
   terminal resolves within the five seconds has its notification cancelled. Instance: `outbox`; `QuestionsStillPending`,
   a property that the code does not have. `EveryRowIsSent`, which passes, says what the code does: every row is sent, those
   of closed questions included.
8. Records of the cooldown may be committed in another order than that of their times, which moves the row back, and a later
   process repeats a notification within the cooldown. `src/README.md:17` says "Suppress duplicate notifications within a
   configurable cooldown using SQLite." Instance: `parts`; `RecordedSuppresses`. The run contains the case and
   `RepeatsAreConcurrent` names the exception.
9. An expired user input of a TUI is interrupted at the managed app-server, not at its own (`expire_due_interactions`).
   Instance: one TUI with kind `user_input`; `TimeoutInterruptsTurn` under `FairSpec`.
10. `docs/superpowers/specs/2026-07-13-codex-tui-companion-design.md:88` has a session whose app-server exits marked
   interrupted; `close_interactive_session` marks it cancelled.
11. A cancellation of the probe while its `finally` runs, or while it recovers from a first one, leaves sockets or the
   process behind (`hurried` in `ProbeResources` is the exception in `NothingLeaks`).
12. An app-server that closes its websocket in order ends the reader of the gateway but does not close the terminal;
   `SessionsEnd` is about one that dies.
13. A `POST interactive-sessions` that the command gives up after ten seconds leaves a session that nobody deletes until the
   daemon stops. A killed daemon leaves app-servers (and the child of the Lark connection) running.

## 7. Not modelled

* A kill of the daemon inside a handler (restarts happen at awaits).
* The content of requests, answers and notifications; whether an answer is well-formed (an invalid one changes
  nothing and is not a step). `AnswerDecisions` keeps what a well-formed one stands for.
* In `CodexSystem`, turns of a thread beside the first of a TUI (their notifications find no session and change nothing), and a
  later thread of a TUI that is the first of another one.
* In `Gateway`, an app-server that answers a terminal's request with an error (no thread, nothing asked in it).
* In `NotificationCooldown`, a clock that is set back.
* In `CodexSystem`, whether a Lark message was attached: `LarkAnswers` may take any pending interaction, the router
  only those whose question was sent; `NotificationOutbox` has that side of it.
* The queue `events` of the orchestrator: it wakes the outbox worker early, a lost event costs one poll.
* The task that reports an expiry worker in trouble (`runtime:degraded`), which is one more row of the outbox.
* Two requests of the app-server in one run of the gateway together with two terminals (see the bounds), tokens and
  malformed messages; `InteractiveManager` has no two sessions of one command.
* `AgentSessionService` has no caller in the program yet: its callers in `SessionLock` are those its tests show.
* The components marked `not_modelled` in `PROJECT.json`, and of those marked `partly` what their note says.
* Of the app-server client, the tail of stderr and the text of errors; `start` called twice shares one startup task
  and is one step here.

## 8. Plan

1. (done) `InteractionLedger`, `CodexStore`, `CodexOrchestrator`, `CodexSystem`, their runs, and the proofs of the three
   layers.
2. (done) `RpcLink`, `AppServerClient`, its run, and the proofs of the client.
3. (done) `DeliveryQueue`, `NotificationOutbox` and its runs.
4. (done) `TerminalFeed`, `Gateway`, its run and proofs.
5. (done) `InteractiveManager`, `SessionLock`, `LarkConnection`, `ProbeResources`, `NotificationCooldown`, the run `parts` and
   their proofs.
6. (done) The proofs of the outbox: delivery, repeats, correlation and order.
7. (done) In `CodexSystem`: one reply, the one on record, forwarded; pending interactions of the current turn; no request lost,
   none turned down without a reason.
8. Left: pure functions (answer parsing, turn status, canonical ids) against reference definitions.
