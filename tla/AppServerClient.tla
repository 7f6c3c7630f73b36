------------------------- MODULE AppServerClient -------------------------
(***************************************************************************)
(* AppServerClient: the JSON-RPC client of the managed app-server: its     *)
(* startup task, reader, waiter, write operations and cleanup coordinator, *)
(* the coroutines that call it, and the process at the other end.          *)
(*                                                                         *)
(* _lifecycle_lock is never held over an await, so it is never contended   *)
(* and each of its sections is one step; _write_lock is held while a write *)
(* drains.  An action runs a coroutine from one await to the next.         *)
(***************************************************************************)
EXTENDS Integers, Sequences

CONSTANTS
    Calls,          \* requests made by the orchestrator
    Replies,        \* respond and respond_error, which wait for no answer
    Initialize,     \* the request of the startup task
    Initialized,    \* the notification that follows it
    Queues,         \* _requests and _notifications
    Capacity,       \* their maxsize
    MaxUnread,      \* bound on the lines of stdout not read yet
    None

Requests == Calls \cup {Initialize}
Ops == Requests \cup Replies \cup {Initialized}

ASSUME OpsAssumption ==
    /\ Initialize # Initialized /\ {Initialize, Initialized} \cap (Calls \cup Replies) = {}
    /\ Calls \cap Replies = {}
    /\ Ops \cap {None, "none", "undone", "failed", "sent"} = {}
    /\ None \notin {"failed", "sent", "startup", "exited", "protocol"}
ASSUME CapacityAssumption == Capacity \in Nat \ {0} /\ MaxUnread \in Nat

VARIABLES
    lifecycle,  \* _lifecycle
    explicit,   \* _explicit_close
    error,      \* _terminal_error
    nextId,     \* _next_request_id
    ops,        \* what each caller has got to, see Op
    writers,    \* write operations in the order of _write_lock
    draining,   \* the first of them awaits its drain
    startup,    \* _startup_task: "none", "spawning", "calling", "ok", "failed"
    held,       \* _process is not None
    tasks,      \* those of "reader" and "waiter" that run
    cleanup,    \* where _cleanup_coordinator is
    queues,     \* length of each queue
    process,    \* "none", "up", "dead", then "reaped" once its return code is known
    wire,       \* the operations the process was sent, each with its id
    stdout,     \* lines it printed and nobody read
    answered    \* requests it answered

clientVars == <<lifecycle, explicit, error, nextId, ops, writers, draining, startup, held,
                tasks, cleanup, queues>>
peerVars == <<process, wire, stdout, answered>>
vars == <<clientVars, peerVars>>

(* An operation: its stage, its id in _pending while it is in that dict, what its *)
(* future holds and what the caller was told.                                     *)
Stage == {"idle", "writing", "waiting", "over"}
Told == {None, "sent", "failed"}
Op == [stage : Stage, id : Nat, future : {"none", "undone", "failed"} \cup Requests,
       told : Told \cup Requests]

Init ==
    /\ lifecycle = "new" /\ explicit = FALSE /\ error = None /\ nextId = 1
    /\ ops = [o \in Ops |-> [stage |-> "idle", id |-> 0, future |-> "none", told |-> None]]
    /\ writers = <<>> /\ draining = FALSE
    /\ startup = "none" /\ held = FALSE /\ tasks = {} /\ cleanup = "none"
    /\ queues = [q \in Queues |-> 0]
    /\ process = "none" /\ wire = {} /\ stdout = <<>> /\ answered = {}

-----------------------------------------------------------------------------
(* Helpers. Those that take p compute the operations after an effect on p.  *)

Closing == lifecycle \in {"closing", "closed"}

\* A caller returns or raises; request pops its id from _pending.
Return(p, o, told) ==
    [p EXCEPT ![o] = [stage |-> "over", id |-> 0, told |-> told,
                      future |-> IF @.future = "undone" THEN "failed" ELSE @.future]]

\* _fail_pending
FailPending(p) ==
    [o \in Ops |-> IF p[o].future = "undone" THEN [p[o] EXCEPT !.future = "failed"] ELSE p[o]]

BeginCleanup == cleanup' = IF cleanup = "none" THEN "begin" ELSE cleanup

\* _record_terminal_error: the first error stands, and nothing after a close.
RecordError(err, p) ==
    IF explicit \/ lifecycle = "closed"
    THEN ops' = p /\ UNCHANGED <<lifecycle, error, cleanup>>
    ELSE /\ error' = (IF error = None THEN err ELSE error)
         /\ ops' = IF error = None THEN FailPending(p) ELSE p
         /\ lifecycle' = "closing"
         /\ BeginCleanup

\* A result that changes the operations and nothing of the lifecycle.
Only(p) == ops' = p /\ UNCHANGED <<lifecycle, error, cleanup>>

-----------------------------------------------------------------------------
(* start *)

Start ==
    /\ lifecycle = "new"
    /\ lifecycle' = "starting" /\ startup' = "spawning"
    /\ UNCHANGED <<explicit, error, nextId, ops, writers, draining, held, tasks, cleanup,
                   queues, peerVars>>

\* An operation of a known caller enters the queue of the write lock.
Enqueue(o, future) ==
    /\ ops' = [ops EXCEPT ![o] = [stage |-> "writing", told |-> None, future |-> future,
                                  id |-> IF future = "none" THEN 0 ELSE nextId]]
    /\ nextId' = IF future = "none" THEN nextId ELSE nextId + 1
    /\ writers' = Append(writers, o)

\* The process factory returns; a close that came first wins.
Spawn ==
    /\ startup = "spawning"
    /\ process' = "up" /\ held' = TRUE
    /\ IF Closing
       THEN /\ startup' = "failed"
            /\ RecordError("startup", ops)
            /\ UNCHANGED <<nextId, writers, tasks>>
       ELSE /\ startup' = "calling"
            /\ tasks' = {"reader", "waiter"}
            /\ Enqueue(Initialize, "undone")
            /\ UNCHANGED <<lifecycle, error, cleanup>>
    /\ UNCHANGED <<explicit, draining, queues, wire, stdout, answered>>

SpawnFails ==
    /\ startup = "spawning"
    /\ startup' = "failed"
    /\ RecordError("startup", ops)
    /\ UNCHANGED <<explicit, nextId, writers, draining, held, tasks, queues, peerVars>>

\* _start_impl goes on after an await: the answer to initialize is there, a result
\* or an error, or it failed or timed out; "initialized" is written, or a write raised.
StartupResumes ==
    /\ startup = "calling"
    /\ LET o == ops[Initialize]
           n == ops[Initialized]
           Fails(p) == startup' = "failed" /\ RecordError("startup", p) /\ UNCHANGED writers
       IN
       \/ /\ o.stage = "waiting" /\ o.future = Initialize /\ ~ Closing
          /\ UNCHANGED <<lifecycle, error, cleanup, startup>>
          /\ ops' = [Return(ops, Initialize, Initialize)
                        EXCEPT ![Initialized] = [@ EXCEPT !.stage = "writing"]]
          /\ writers' = Append(writers, Initialized)
       \/ /\ o.stage = "waiting"
          /\ Fails(Return(ops, Initialize, "failed"))
       \/ /\ n.told = "sent" /\ ~ Closing
          /\ startup' = "ok" /\ lifecycle' = "running"
          /\ UNCHANGED <<error, cleanup, ops, writers>>
       \/ /\ "failed" \in {o.told, n.told} \/ (n.told = "sent" /\ Closing)
          /\ Fails(ops)
    /\ UNCHANGED <<explicit, nextId, draining, held, tasks, queues, peerVars>>

-----------------------------------------------------------------------------
(* request, respond and respond_error *)

\* Mutant of Call: the counter of ids stays as it is.
CallWithOldId(o) ==
    /\ ops[o].stage = "idle" /\ o \in Calls \cup Replies
    /\ lifecycle = "running" /\ process # "reaped"
    /\ ops' = [ops EXCEPT ![o] = [stage |-> "writing", told |-> None,
                                  future |-> IF o \in Calls THEN "undone" ELSE "none",
                                  id |-> IF o \in Calls THEN nextId ELSE 0]]
    /\ writers' = Append(writers, o)
    /\ UNCHANGED <<nextId, lifecycle, error, cleanup>>
    /\ UNCHANGED <<explicit, draining, startup, held, tasks, queues, peerVars>>

\* Mutant of Call: calls are taken as soon as there is a process.
CallWhileStarting(o) ==
    /\ ops[o].stage = "idle" /\ o \in Calls \cup Replies
    /\ lifecycle \in {"starting", "running"} /\ held /\ process # "reaped"
    /\ Enqueue(o, IF o \in Calls THEN "undone" ELSE "none")
    /\ UNCHANGED <<lifecycle, error, cleanup>>
    /\ UNCHANGED <<explicit, draining, startup, held, tasks, queues, peerVars>>

\* _ensure_available, then the registration in _pending and the write operation.
Call(o) ==
    /\ ops[o].stage = "idle" /\ o \in Calls \cup Replies
    /\ IF lifecycle = "running" /\ process # "reaped"
       THEN /\ Enqueue(o, IF o \in Calls THEN "undone" ELSE "none")
            /\ UNCHANGED <<lifecycle, error, cleanup>>
       ELSE /\ IF lifecycle = "running" THEN RecordError("exited", Return(ops, o, "failed"))
               ELSE Only(Return(ops, o, "failed"))
            /\ UNCHANGED <<nextId, writers>>
    /\ UNCHANGED <<explicit, draining, startup, held, tasks, queues, peerVars>>

\* Mutant of Write: the state is not looked at again under the lock.
WriteUnchecked(o) ==
    /\ writers # <<>> /\ o = Head(writers) /\ ~ draining
    /\ draining' = TRUE
    /\ wire' = IF process = "up" THEN wire \cup {<<o, ops[o].id>>} ELSE wire
    /\ UNCHANGED <<ops, writers, lifecycle, error, cleanup>>
    /\ UNCHANGED <<explicit, nextId, startup, held, tasks, queues, process, stdout, answered>>

\* _write_impl gets the lock; what it may write is decided again.
Write(o) ==
    /\ writers # <<>> /\ o = Head(writers) /\ ~ draining
    /\ IF Closing \/ process = "reaped"
       THEN /\ Only(Return(ops, o, "failed"))
            /\ writers' = Tail(writers)
            /\ UNCHANGED <<draining, wire>>
       ELSE /\ draining' = TRUE
            /\ wire' = IF process = "up" THEN wire \cup {<<o, ops[o].id>>} ELSE wire
            /\ UNCHANGED <<ops, writers, lifecycle, error, cleanup>>
    /\ UNCHANGED <<explicit, nextId, startup, held, tasks, queues, process, stdout, answered>>

\* The drain returns, or the pipe is broken.
DrainEnds(o) ==
    /\ writers # <<>> /\ o = Head(writers) /\ draining
    /\ \/ Only(IF o \in Requests THEN [ops EXCEPT ![o] = [@ EXCEPT !.stage = "waiting"]]
               ELSE Return(ops, o, "sent"))
       \/ /\ process \in {"dead", "reaped"}
          /\ RecordError("exited", Return(ops, o, "failed"))
    /\ draining' = FALSE /\ writers' = Tail(writers)
    /\ UNCHANGED <<explicit, nextId, startup, held, tasks, queues, peerVars>>

\* The awaited future is done.
CallReturns(o) ==
    /\ o \in Calls /\ ops[o].stage = "waiting" /\ ops[o].future # "undone"
    /\ Only(Return(ops, o, ops[o].future))
    /\ UNCHANGED <<explicit, nextId, writers, draining, startup, held, tasks, queues, peerVars>>

\* Mutant of Timeout: a request waits as long as it takes.
NoTimeout(o) == o = None /\ UNCHANGED vars

\* wait_for gives up, though the answer may just have come.
Timeout(o) ==
    /\ o \in Calls /\ ops[o].stage = "waiting"
    /\ Only(Return(ops, o, "failed"))
    /\ UNCHANGED <<explicit, nextId, writers, draining, startup, held, tasks, queues, peerVars>>

\* The caller is cancelled, its write operation and the drain with it.
Cancel(o) ==
    /\ o \in Calls \cup Replies /\ ops[o].stage \in {"writing", "waiting"}
    /\ Only(Return(ops, o, "failed"))
    /\ IF ops[o].stage = "waiting" THEN UNCHANGED <<writers, draining>>
       ELSE \E k \in 1 .. Len(writers) :
               /\ writers[k] = o
               /\ writers' = SubSeq(writers, 1, k - 1) \o SubSeq(writers, k + 1, Len(writers))
               /\ draining' = (draining /\ k # 1)
    /\ UNCHANGED <<explicit, nextId, startup, held, tasks, queues, peerVars>>

-----------------------------------------------------------------------------
(* The tasks that watch the process.                                         *)

\* _handle_response: the future in _pending under this id, unless it is done.
Deliver(id, o) ==
    [c \in Ops |-> IF ops[c].id = id /\ ops[c].future = "undone"
                   THEN [ops[c] EXCEPT !.future = o] ELSE ops[c]]

\* _read_stdout with _handle_envelope: an answer, a message for a queue, or a line
\* that is none of them; a queue that is full is an error of the protocol too.
ReadLine ==
    /\ "reader" \in tasks /\ stdout # <<>>
    /\ LET line == Head(stdout) IN
       CASE line[1] = "answer" -> Only(Deliver(line[2], line[3])) /\ UNCHANGED <<queues, tasks>>
         [] line[1] = "message" /\ queues[line[2]] < Capacity ->
              queues' = [queues EXCEPT ![line[2]] = @ + 1] /\ Only(ops) /\ UNCHANGED tasks
         [] OTHER -> RecordError("protocol", ops) /\ tasks' = tasks \ {"reader"} /\ UNCHANGED queues
    /\ stdout' = Tail(stdout)
    /\ UNCHANGED <<explicit, nextId, writers, draining, startup, held, process, wire, answered>>

\* End of file on stdout, or process.wait() returns.
TaskSeesExit(t) ==
    /\ t \in tasks
    /\ IF t = "reader" THEN stdout = <<>> /\ process \in {"dead", "reaped"}
       ELSE process = "reaped"
    /\ RecordError("exited", ops)
    /\ tasks' = tasks \ {t}
    /\ UNCHANGED <<explicit, nextId, writers, draining, startup, held, queues, peerVars>>

\* The orchestrator takes a message from a queue.
Take(q) ==
    /\ queues[q] > 0 /\ queues' = [queues EXCEPT ![q] = @ - 1]
    /\ UNCHANGED <<lifecycle, explicit, error, nextId, ops, writers, draining, startup, held,
                   tasks, cleanup, peerVars>>

-----------------------------------------------------------------------------
(* close and the cleanup coordinator.                                        *)

\* Mutant of Close: the callers that wait are not released.
CloseAndKeepWaiting ==
    /\ lifecycle # "closed" /\ ~ explicit
    /\ explicit' = TRUE /\ lifecycle' = "closing"
    /\ BeginCleanup
    /\ UNCHANGED <<error, ops, nextId, writers, draining, startup, held, tasks, queues, peerVars>>

\* A second close only waits for the cleanup.
Close ==
    /\ lifecycle # "closed" /\ ~ explicit
    /\ explicit' = TRUE /\ lifecycle' = "closing"
    /\ ops' = FailPending(ops)
    /\ BeginCleanup
    /\ UNCHANGED <<error, nextId, writers, draining, startup, held, tasks, queues, peerVars>>

StartupPending == startup \in {"spawning", "calling"}

\* Mutant of CancelTasks: a process that is being spawned is not waited for.
CancelAtOnce ==
    /\ cleanup = "begin"
    /\ cleanup' = (IF held THEN "drains" ELSE "end")
    /\ tasks' = {} /\ stdout' = <<>>
    /\ UNCHANGED <<lifecycle, explicit, error, nextId, ops, writers, draining, startup, held,
                   queues, process, wire, answered>>

\* A process that is being spawned is waited for; the reader and the waiter go.
CancelTasks ==
    /\ cleanup = "begin" /\ (held \/ ~ StartupPending)
    /\ cleanup' = (IF held THEN "drains" ELSE "end")
    /\ tasks' = {} /\ stdout' = <<>>
    /\ UNCHANGED <<lifecycle, explicit, error, nextId, ops, writers, draining, startup, held,
                   queues, process, wire, answered>>

\* stdin is closed, the process gets SIGTERM, drains are cancelled.
CancelDrains ==
    /\ cleanup = "drains" /\ cleanup' = "writes"
    /\ ops' = IF draining THEN Return(ops, Head(writers), "failed") ELSE ops
    /\ writers' = IF draining THEN Tail(writers) ELSE writers
    /\ draining' = FALSE
    /\ UNCHANGED <<lifecycle, explicit, error, nextId, startup, held, tasks, queues, peerVars>>

\* The write operations that were queued have all ended.
AwaitWrites ==
    /\ cleanup = "writes" /\ writers = <<>> /\ cleanup' = "reap"
    /\ UNCHANGED <<lifecycle, explicit, error, nextId, ops, writers, draining, startup, held,
                   tasks, queues, peerVars>>

\* process.wait() returns, after a kill if it took too long.
Reap ==
    /\ cleanup = "reap" /\ process = "reaped"
    /\ held' = FALSE /\ cleanup' = "end"
    /\ UNCHANGED <<lifecycle, explicit, error, nextId, ops, writers, draining, startup, tasks,
                   queues, peerVars>>

\* The startup task is waited for as well, then _mark_closed.
MarkClosed ==
    /\ cleanup = "end" /\ ~ StartupPending
    /\ cleanup' = "done" /\ lifecycle' = "closed"
    /\ UNCHANGED <<explicit, error, nextId, ops, writers, draining, startup, held, tasks, queues,
                   peerVars>>

-----------------------------------------------------------------------------
(* The process.                                                              *)

Sent(o) == \E m \in wire : m[1] = o

\* What it prints after the reader is gone concerns nobody.
Prints == process = "up" /\ "reader" \in tasks /\ Len(stdout) < MaxUnread

\* Any request it was sent, in any order, or never.
PeerAnswers(m) ==
    LET o == m[1] IN
    /\ o \in Requests \ answered /\ Prints
    /\ stdout' = Append(stdout, <<"answer", m[2], o>>)
    /\ answered' = answered \cup {o}
    /\ UNCHANGED <<clientVars, process, wire>>

\* A request or notification, or a line that is not JSON-RPC.
PeerSpeaks(line) ==
    /\ Prints /\ stdout' = Append(stdout, line)
    /\ UNCHANGED <<clientVars, process, wire, answered>>

\* It crashes, obeys SIGTERM, or is killed.
PeerDies ==
    /\ process = "up" /\ process' = "dead"
    /\ UNCHANGED <<clientVars, wire, stdout, answered>>

\* The child watcher of the event loop gets the return code.
Notice ==
    /\ process = "dead" /\ process' = "reaped"
    /\ UNCHANGED <<clientVars, wire, stdout, answered>>

-----------------------------------------------------------------------------
Peer ==
    \/ \E m \in wire : PeerAnswers(m)
    \/ \E q \in Queues : PeerSpeaks(<<"message", q>>)
    \/ PeerSpeaks(<<"garbage">>)
    \/ PeerDies

Startup == Spawn \/ SpawnFails \/ StartupResumes

Caller(o) == Write(o) \/ DrainEnds(o) \/ CallReturns(o) \/ Timeout(o)

Cleanup == CancelTasks \/ CancelDrains \/ AwaitWrites \/ Reap \/ MarkClosed

Next ==
    \/ Start \/ Close \/ Startup \/ Cleanup \/ Notice \/ Peer
    \/ ReadLine \/ (\E t \in tasks : TaskSeesExit(t)) \/ (\E q \in Queues : Take(q))
    \/ \E o \in Ops : Call(o) \/ Caller(o) \/ Cancel(o)

Spec == Init /\ [][Next]_vars

(* What the event loop runs; a cleanup that waits too long kills the process.  The *)
(* process owes nothing, not even to read what is written to it.  (An operation is *)
(* made once, so what is fair to some of them is fair to each.)                    *)
Fairness ==
    /\ WF_vars(Startup) /\ WF_vars(Cleanup) /\ WF_vars(Notice) /\ WF_vars(ReadLine)
    /\ \A t \in {"reader", "waiter"} : WF_vars(TaskSeesExit(t))
    /\ WF_vars(\E o \in Ops : Write(o)) /\ WF_vars(\E o \in Ops : CallReturns(o))
    /\ WF_vars(\E o \in Ops : Timeout(o))
    /\ WF_vars(cleanup = "reap" /\ PeerDies)

FairSpec == Spec /\ Fairness

-----------------------------------------------------------------------------
Lines == ({"answer"} \X Nat \X Requests) \cup ({"message"} \X Queues) \cup {<<"garbage">>}

ClientTypeOK ==
    /\ lifecycle \in {"new", "starting", "running", "closing", "closed"}
    /\ explicit \in BOOLEAN /\ draining \in BOOLEAN /\ held \in BOOLEAN
    /\ error \in {None, "startup", "exited", "protocol"}
    /\ nextId \in Nat
    /\ ops \in [Ops -> Op]
    /\ writers \in Seq(Ops) /\ (draining => writers # <<>>)
    /\ startup \in {"none", "spawning", "calling", "ok", "failed"}
    /\ tasks \subseteq {"reader", "waiter"}
    /\ cleanup \in {"none", "begin", "drains", "writes", "reap", "end", "done"}
    /\ queues \in [Queues -> 0 .. Capacity]
    /\ process \in {"none", "up", "dead", "reaped"}
    /\ answered \subseteq Requests
    /\ wire \subseteq Ops \X Nat
    /\ stdout \in Seq(Lines)

\* A caller gets the answer to its own request and no other: answers come in any
\* order, and one that comes after its caller gave up goes to nobody (_next_request_id,
\* _pending and the finally of request).
OwnAnswer == \A o \in Calls : ops[o].told \in Requests => ops[o].told = o

\* The server is spoken to in the order of the protocol: initialize, its answer,
\* initialized, and only then anything else, however early the callers come.
HandshakeFirst ==
    [][\A o \in Ops :
          Sent(o)' /\ ~ Sent(o) =>
              CASE o = Initialize  -> wire = {}
                [] o = Initialized -> Initialize \in answered
                [] OTHER -> Sent(Initialized)]_vars

\* A client that says it is closed left nothing behind: no process, no task, no write
\* and nobody who waits, whatever closed it and however far startup had got.
ClosedIsQuiet ==
    lifecycle = "closed" =>
        /\ process \in {"none", "reaped"} /\ ~ held
        /\ tasks = {} /\ ~ StartupPending
        /\ writers = <<>> /\ \A o \in Ops : ops[o].future # "undone"

\* The first cause stands: wait_closed raises the first terminal error, and an error
\* that close itself provokes is not recorded.
FirstCauseStands == [][explicit \/ error # None => UNCHANGED error]_vars

\* What the callers are promised, see RpcLink.
Link == INSTANCE RpcLink WITH
    Callers <- Requests,
    Handshake <- Initialize,
    phase <- IF lifecycle = "running" THEN "up" ELSE lifecycle,
    calls <- [o \in Requests |->
        IF ops[o].stage = "idle" THEN "idle"
        ELSE IF ops[o].future = "undone" THEN "open" ELSE "settled"]

LinkSpec == Link!Spec

\* Every call comes back, unless the server stops reading while it stays up: the
\* timeout of request covers the wait for the answer and not the write.  (A call is
\* made once, so the calls that came back are in the end all there were.)
CallsReturn == []<>(~ draining) => <>[](\A o \in Ops : ops[o].stage \in {"idle", "over"})

\* Once the client starts to close, or its process is dead, it gets there: also from the
\* middle of startup, with a write that never drains, or with a process that ignores
\* SIGTERM, and whoever notices the death first.
ClosingEnds ==
    (lifecycle = "closing" \/ (held /\ process = "dead")) ~> (lifecycle = "closed")
=============================================================================
