------------------------ MODULE NotificationOutbox ------------------------
(***************************************************************************)
(* The daemon and Lark: the outbox table, the worker that sends its rows,  *)
(* the table of events seen, and the interactions that people answer by    *)
(* replying to a message.  The orchestrator and the command                *)
(* `lark-bot codex-hook` fill the outbox, the router consumes replies; a   *)
(* restart keeps what is in the database, in the spool and in Lark.        *)
(* Threads and turns play no part here, the orchestrator is reduced to the *)
(* transactions it runs and the notifications it emits with them.  A batch *)
(* holds 50 rows at most; the instances have fewer.                        *)
(***************************************************************************)
EXTENDS CodexStore, Sequences

CONSTANTS
    Hooks,          \* callbacks of `lark-bot codex-hook`, each with an event id
    Events,         \* ids of the events that Lark pushes
    MaxRows,        \* bound on the rows of the outbox
    Outcomes,       \* the statuses a session may end with
    MaxTroubles     \* bound on failed sends, stops and store calls that raise

VARIABLES
    outbox,     \* notification_outbox, by primary key (AUTOINCREMENT)
    seen,       \* codex_event_dedupe
    hooks,      \* hooks[h]: "new" until its callback ran, "told" after
    spool,      \* the hooks that have a file in the spool directory
    posted,     \* posted[m]: the row that message m in the Lark chat shows
    worker,     \* _outbox_worker
    troubles    \* failed sends, stops of the daemon, store calls that raised

outboxVars == <<outbox, posted, worker>>
eventVars == <<seen, hooks, spool>>
vars == <<storeVars, outboxVars, eventVars, troubles>>

ASSUME EventsAssumption == Hooks \cap Events = {}
ASSUME OutboxAssumption ==
    /\ MaxRows \in Nat /\ MaxTroubles \in Nat
    /\ IsFiniteSet(Sessions) /\ IsFiniteSet(Hooks)
    /\ Interactions \subseteq Nat /\ Outcomes \subseteq TerminalStatus
    /\ Messages = 1 .. MaxRows + MaxTroubles
    /\ "lark" \in Actors

Rows == 1 .. Len(outbox)

\* A row waits for its next_attempt_at, is due, or has its sent_at.
NewRow(kind, x) == [kind |-> kind, about |-> x, state |-> "waiting", attempts |-> 0]

Off == [state |-> "off", batch |-> {}, item |-> 0, receipt |-> 0]
Idle(B) == [state |-> "idle", batch |-> B, item |-> 0, receipt |-> 0]
Dead == [state |-> "dead", batch |-> {}, item |-> 0, receipt |-> 0]
Sending(o, B) == [state |-> "sending", batch |-> B, item |-> o, receipt |-> 0]

Running == worker.state # "off"

Init ==
    /\ StoreInit
    /\ outbox = <<>>
    /\ seen = {}
    /\ hooks = [h \in Hooks |-> "new"]
    /\ spool = {}
    /\ posted = <<>>
    /\ worker = Off
    /\ troubles = [failures |-> 0, stops |-> 0, errors |-> 0]

Suffer(what) ==
    /\ troubles.failures + troubles.stops + troubles.errors < MaxTroubles
    /\ troubles' = [troubles EXCEPT ![what] = @ + 1]

StoreRaises == Suffer("errors")

\* enqueue_outbox
Enqueue(rows) ==
    /\ Len(outbox) + Len(rows) <= MaxRows
    /\ outbox' = outbox \o rows

-----------------------------------------------------------------------------
(* The orchestrator: a transaction and the notification emitted with it, in *)
(* one uninterrupted run of the event loop.  Should the daemon die between  *)
(* the two, the row it leaves is closed by reconcile_startup.               *)

NewSession(s) ==
    /\ Running
    /\ CreateSession(s)
    /\ UNCHANGED <<outboxVars, eventVars, troubles>>

\* process_server_request
Question(i, s, r, k) ==
    /\ Running
    /\ \A j \in Interactions : j < i => interactions[j].status # "absent"
    /\ OpenInteraction(i, s, r, k)
    /\ Enqueue(<<NewRow("question", i)>>)
    /\ UNCHANGED <<posted, worker, eventVars, troubles>>

\* The interaction is decided in a terminal or expires.
DecideElsewhere(i, d, a) ==
    /\ Running /\ a # "lark"
    /\ Resolve(i, d, a, IF a = "timeout" THEN "expired" ELSE "resolved")
    /\ UNCHANGED <<outboxVars, eventVars, troubles>>

\* The app-server withdraws the request; nothing is emitted.
Withdraw(i) ==
    /\ Running
    /\ CancelInteraction(i)
    /\ UNCHANGED <<outboxVars, eventVars, troubles>>

\* Mutant of TellResolved: the news is emitted before the claim.
TellAtOnce(i) ==
    /\ Running
    /\ interactions[i].status # "absent"
    /\ \A o \in Rows : outbox[o].kind = "news" => outbox[o].about # i
    /\ Enqueue(<<NewRow("news", i)>>)
    /\ UNCHANGED <<storeVars, posted, worker, eventVars, troubles>>

\* The responder returned and the session is still active: "interaction resolved".
TellResolved(i) ==
    /\ Running
    /\ interactions[i].status \in {"resolved", "expired"}
    /\ Active(interactions[i].session)
    /\ \A o \in Rows : outbox[o].kind = "news" => outbox[o].about # i
    /\ Enqueue(<<NewRow("news", i)>>)
    /\ UNCHANGED <<storeVars, posted, worker, eventVars, troubles>>

EndSession(s, status) ==
    /\ Running
    /\ ClaimTerminal({s}, status, "cancelled")
    /\ Enqueue(<<NewRow("session", s)>>)
    /\ UNCHANGED <<posted, worker, eventVars, troubles>>

-----------------------------------------------------------------------------
(* Hooks. *)

\* ingest_hook; the callback may not hear the answer, and then spools the event too.
Ingest(h, heard) ==
    /\ Running /\ hooks[h] = "new" /\ h \notin seen
    /\ hooks' = [hooks EXCEPT ![h] = "told"]
    /\ spool' = IF heard THEN spool ELSE spool \cup {h}
    /\ seen' = seen \cup {h}
    /\ Enqueue(<<NewRow("hook", h)>>)
    /\ UNCHANGED <<storeVars, posted, worker, troubles>>

\* record_event_once commits, enqueue_outbox raises, the callback gets a 500.
IngestBreaks(h) ==
    /\ Running /\ hooks[h] = "new" /\ h \notin seen
    /\ StoreRaises
    /\ hooks' = [hooks EXCEPT ![h] = "told"]
    /\ spool' = spool \cup {h}
    /\ seen' = seen \cup {h}
    /\ UNCHANGED <<storeVars, outboxVars>>

\* The callback cannot reach the daemon.
SpoolHook(h) ==
    /\ hooks[h] = "new"
    /\ hooks' = [hooks EXCEPT ![h] = "told"]
    /\ spool' = spool \cup {h}
    /\ UNCHANGED <<storeVars, outboxVars, seen, troubles>>

-----------------------------------------------------------------------------
(* The daemon starts and stops. *)

Listed(kind, S) ==
    {[n \in DOMAIN q |-> NewRow(kind, q[n])] :
         q \in {p \in [1 .. Cardinality(S) -> S] : \A m, n \in DOMAIN p : p[m] = p[n] => m = n}}

\* DaemonRuntime.start: _drain_spool, orchestrator.start, the workers.  A file stays
\* in the spool when unlink fails.
Start ==
    /\ ~ Running
    /\ spool' \in SUBSET spool /\ seen' = seen \cup spool
    /\ ReconcileStartup
    /\ \E a \in Listed("hook", spool \ seen),
          b \in Listed("session", {s \in Sessions : Active(s)}) : Enqueue(a \o b)
    /\ worker' = Idle({})
    /\ UNCHANGED <<hooks, posted, troubles>>

\* _drain_spool catches no sqlite3.Error: the daemon does not start.
StartBreaks(h) ==
    /\ ~ Running /\ h \in spool \ seen
    /\ StoreRaises
    /\ seen' = seen \cup {h}
    /\ UNCHANGED <<storeVars, outboxVars, hooks, spool>>

\* close, a kill or a crash, even between the two updates that follow a send.
Stop ==
    /\ Running
    /\ Suffer("stops")
    /\ worker' = Off
    /\ \/ UNCHANGED storeVars
       \/ /\ worker.receipt # 0 /\ outbox[worker.item].kind \in {"question", "news"}
          /\ AttachMessage(outbox[worker.item].about, worker.receipt)
    /\ UNCHANGED <<outbox, posted, eventVars>>

-----------------------------------------------------------------------------
(* _outbox_worker *)

Fresh(o) == outbox[o].attempts = 0

\* Time passes; rows that were never tried have the same delay.
Elapse(o) ==
    /\ outbox[o].state = "waiting"
    /\ Fresh(o) => \A p \in 1 .. o - 1 : Fresh(p) => outbox[p].state # "waiting"
    /\ outbox' = [outbox EXCEPT ![o] = [@ EXCEPT !.state = "due"]]
    /\ UNCHANGED <<storeVars, posted, worker, eventVars, troubles>>

\* Mutant of DueRows: ... WHERE attempt_count = 0.
NewRows(now) == {o \in now : outbox[o].state = "due" /\ outbox[o].attempts = 0}

DueRows(now) == {o \in now : outbox[o].state = "due"}

\* Mutant of NextUp: the query has no ORDER BY.
AnyOf(B) == B

\* ORDER BY next_attempt_at, id: a retried row comes anywhere among the others.
NextUp(B) == {o \in B : Fresh(o) => \A p \in B : Fresh(p) => o <= p}

ListDue ==
    /\ worker = Idle({}) /\ DueRows(Rows) # {}
    /\ worker' = Idle(DueRows(Rows))
    /\ UNCHANGED <<storeVars, outbox, posted, eventVars, troubles>>

\* list_due_outbox raises outside of the try statement: the task ends.
ListBreaks ==
    /\ worker = Idle({})
    /\ StoreRaises
    /\ worker' = Dead
    /\ UNCHANGED <<storeVars, outbox, posted, eventVars>>

Send(o) ==
    /\ worker.state = "idle" /\ o \in NextUp(worker.batch)
    /\ worker' = Sending(o, worker.batch \ {o})
    /\ UNCHANGED <<storeVars, outbox, posted, eventVars, troubles>>

\* Lark (external) posts the message and names it in its answer.
LarkPosts ==
    /\ worker.state = "sending" /\ worker.receipt = 0
    /\ Len(posted) + 1 \in Messages
    /\ posted' = Append(posted, worker.item)
    /\ worker' = [worker EXCEPT !.receipt = Len(posted) + 1]
    /\ UNCHANGED <<storeVars, outbox, eventVars, troubles>>

\* attach_lark_message_id, for a row with an interaction_id.
Attach(o, m) ==
    LET i == outbox[o].about IN
    IF outbox[o].kind \in {"question", "news"} /\ Pending(i) /\ interactions[i].message = NoValue
    THEN AttachMessage(i, m)
    ELSE UNCHANGED storeVars

\* record_outbox_failure
Retried(row) == [row EXCEPT !.state = "waiting", !.attempts = @ + 1]
Reschedule(o) == outbox' = [outbox EXCEPT ![o] = Retried(outbox[o])]

\* Mutant of Acknowledge: only a row whose message was attached is marked.
AcknowledgeAttached ==
    /\ worker.receipt # 0
    /\ Attach(worker.item, worker.receipt)
    /\ outbox' = IF outbox[worker.item].kind = "question" /\ interactions' = interactions THEN outbox
                 ELSE [outbox EXCEPT ![worker.item] = [@ EXCEPT !.state = "sent"]]
    /\ worker' = Idle(worker.batch)
    /\ UNCHANGED <<posted, eventVars, troubles>>

\* The send returned: attach_lark_message_id, mark_outbox_sent.
Acknowledge ==
    /\ worker.receipt # 0
    /\ Attach(worker.item, worker.receipt)
    /\ outbox' = [outbox EXCEPT ![worker.item] = [@ EXCEPT !.state = "sent"]]
    /\ worker' = Idle(worker.batch)
    /\ UNCHANGED <<posted, eventVars, troubles>>

\* mark_outbox_sent raises, before or after attach_lark_message_id did.
MarkBreaks ==
    /\ worker.receipt # 0
    /\ StoreRaises
    /\ Attach(worker.item, worker.receipt) \/ UNCHANGED storeVars
    /\ Reschedule(worker.item)
    /\ worker' = Idle(worker.batch)
    /\ UNCHANGED <<posted, eventVars>>

\* Mutant of SendFails: a row that could not be sent is marked all the same.
FailAndMark ==
    /\ worker.state = "sending"
    /\ Suffer("failures")
    /\ outbox' = [outbox EXCEPT ![worker.item] = [@ EXCEPT !.state = "sent"]]
    /\ worker' = Idle(worker.batch)
    /\ UNCHANGED <<storeVars, posted, eventVars>>

\* Lark refuses the message, or its answer never arrives.
SendFails ==
    /\ worker.state = "sending"
    /\ Suffer("failures")
    /\ Reschedule(worker.item)
    /\ worker' = Idle(worker.batch)
    /\ UNCHANGED <<storeVars, posted, eventVars>>

\* ... and record_outbox_failure raises: the task ends, nobody notices.
RescheduleBreaks ==
    /\ worker.state = "sending"
    /\ StoreRaises
    /\ worker' = Dead
    /\ UNCHANGED <<storeVars, outbox, posted, eventVars>>

-----------------------------------------------------------------------------
(* LarkControlRouter: somebody replies to message m.  An event that comes   *)
(* again, or after the interaction was closed, changes nothing.             *)

Answerable(m) == {i \in Interactions : Pending(i) /\ interactions[i].message = m}

Reply(e, m, d) ==
    /\ Running /\ e \notin seen
    /\ seen' = seen \cup {e}
    /\ \/ UNCHANGED storeVars       \* not pending, or no answer
       \/ \E i \in Answerable(m) : Resolve(i, d, "lark", "resolved")
    /\ UNCHANGED <<outboxVars, hooks, spool, troubles>>

-----------------------------------------------------------------------------

Orchestrator ==
    \/ \E s \in Sessions : NewSession(s)
    \/ \E s \in Sessions, status \in Outcomes : EndSession(s, status)
    \/ \E i \in Interactions :
          \/ \E s \in Sessions, r \in Requests, k \in Kinds : Question(i, s, r, k)
          \/ \E d \in Decisions, a \in Actors : DecideElsewhere(i, d, a)
          \/ Withdraw(i)
          \/ TellResolved(i)

Callback ==
    \E h \in Hooks :
        \/ \E heard \in BOOLEAN : Ingest(h, heard)
        \/ IngestBreaks(h)
        \/ SpoolHook(h)
        \/ StartBreaks(h)

Worker ==
    \/ ListDue \/ Acknowledge \/ SendFails \/ MarkBreaks \/ ListBreaks \/ RescheduleBreaks
    \/ \E o \in Rows : Send(o)

Router == \E e \in Events, m \in DOMAIN posted, d \in Decisions : Reply(e, m, d)

Next ==
    \/ Orchestrator \/ Callback \/ Worker \/ Router \/ LarkPosts \/ Start \/ Stop
    \/ \E o \in Rows : Elapse(o)

Spec == Init /\ [][Next]_vars

\* The event loop runs the worker, time passes, and Lark answers; attempts that fail
\* are bounded by MaxTroubles, so Lark takes a message in the end.
FairSpec ==
    /\ Spec
    /\ WF_vars(ListDue) /\ WF_vars(LarkPosts) /\ WF_vars(Acknowledge)
    /\ WF_vars(\E o \in Rows : Send(o))
    /\ \A o \in 1 .. MaxRows : WF_vars(o \in Rows /\ Elapse(o))

-----------------------------------------------------------------------------
(* Properties. *)

RowsOf(kinds, S) ==
    [kind : kinds, about : S, state : {"waiting", "due", "sent"}, attempts : Nat]

OutboxRow ==
    RowsOf({"question", "news"}, Interactions) \cup RowsOf({"session"}, Sessions)
        \cup RowsOf({"hook"}, Hooks)

\* The tables, the worker and the chat keep to their shape.
OutboxTypeOK ==
    /\ outbox \in Seq(OutboxRow) /\ Len(outbox) <= MaxRows
    /\ posted \in Seq(Rows) /\ DOMAIN posted \subseteq Messages
    /\ seen \subseteq Hooks \cup Events /\ spool \subseteq Hooks
    /\ hooks \in [Hooks -> {"new", "told"}]
    /\ worker \in [state : {"off", "idle", "sending", "dead"}, batch : SUBSET Rows,
                   item : Rows \cup {0}, receipt : DOMAIN posted \cup {0}]
    /\ troubles \in [failures : Nat, stops : Nat, errors : Nat]

CopiesOf(o) == {m \in DOMAIN posted : posted[m] = o}

\* A hook is notified once, though the same event may come by HTTP and by the spool.
HookOnce ==
    \A o, p \in Rows :
        outbox[o].kind = "hook" /\ outbox[p].kind = "hook" /\ outbox[o].about = outbox[p].about
            => o = p

\* The chat is told a thing again only for a reason: each copy of a notification
\* beyond the first is paid for by an attempt on record as failed or by a stop of the
\* daemon, and the two ways a hook may come by end in one notification.
RepeatsAreExcused ==
    /\ \A o \in Rows : Cardinality(CopiesOf(o)) <= 1 + outbox[o].attempts + troubles.stops
    /\ HookOnce

\* A reply reaches the interaction that its message asks about: the message id on
\* a row is that of a message with the question of that row, never of the news of
\* its end, and an interaction decided from Lark has had such a message.
LarkAnswersWhatItAsked ==
    \A i \in Interactions : LET m == interactions[i].message IN
        /\ m # NoValue => /\ m \in DOMAIN posted
                          /\ outbox[posted[m]].kind = "question"
                          /\ outbox[posted[m]].about = i
        /\ interactions[i].actor = "lark" => m # NoValue

\* The chat does not read "resolved" before the question, unless an attempt to post
\* the question failed.
QuestionBeforeNews ==
    \A m \in DOMAIN posted : outbox[posted[m]].kind = "news" =>
        \E o \in Rows :
            /\ outbox[o].kind = "question" /\ outbox[o].about = outbox[posted[m]].about
            /\ outbox[o].attempts > 0 \/ \E n \in CopiesOf(o) : n < m

\* The outbox delivers at least once and never after a row is marked as sent.
Queue == INSTANCE DeliveryQueue
    WITH Items <- 1 .. MaxRows,
         status <- [o \in 1 .. MaxRows |->
             IF o \notin Rows THEN "none"
             ELSE IF outbox[o].state = "sent" THEN "settled" ELSE "owed"],
         copies <- [o \in 1 .. MaxRows |-> Cardinality(CopiesOf(o))]

QueueSpec == Queue!Spec

\* A row was sent; if it is a question, its interaction is over or has a message to
\* reply to.
Heard(o) ==
    /\ outbox[o].state = "sent"
    /\ outbox[o].kind = "question" /\ Pending(outbox[o].about)
           => interactions[outbox[o].about].message # NoValue

\* Every row is sent in the end, as long as the daemon and its worker live, and who
\* still waits for an answer then has a message that people can reply to.  (The rows are
\* bounded, so there is a time after which all that came are sent.)
EveryRowIsSent ==
    worker.state \in {"idle", "sending"}
        ~> (worker.state \in {"off", "dead"} \/ \A o \in Rows : Heard(o))

\* "Approval and input notifications are sent only if the interaction is still pending when
\* due" (2026-07-13-codex-tui-companion-design.md): the worker takes a question up only while
\* its interaction is pending (_outbox_worker looks at the row of the outbox alone).
QuestionsStillPending ==
    [][LET o == worker'.item IN
       worker.state = "idle" /\ worker'.state = "sending" /\ outbox[o].kind = "question"
           => Pending(outbox[o].about)]_vars

\* A file leaves the spool only when its event is in the outbox.
SpoolIsDelivered ==
    [][\A h \in spool \ spool' :
          \E o \in DOMAIN outbox' : outbox'[o].kind = "hook" /\ outbox'[o].about = h]_vars
=============================================================================
