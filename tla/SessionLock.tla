--------------------------- MODULE SessionLock ---------------------------
(***************************************************************************)
(* AgentSessionService: one asyncio.Lock per session, created by the first *)
(* call, shared by those that come while it is in use, and dropped from    *)
(* the table by the last.  Callers may be cancelled at any time.           *)
(*                                                                         *)
(* _lock_guard is never held over an await, so nobody ever waits for it    *)
(* and its sections are parts of a step.  What remains are the awaits of   *)
(* the session's lock, whose waiters, wakeups and cancellations are        *)
(* asyncio's and modelled from it.                                         *)
(***************************************************************************)
EXTENDS Integers, FiniteSets

CONSTANTS
    Tasks,          \* calls of run_serialized
    LockSessions,   \* session ids
    SessionOf,      \* the session of each call
    NoEntry

ASSUME LockAssumption ==
    /\ IsFiniteSet(Tasks) /\ NoEntry \notin Tasks
    /\ SessionOf \in [Tasks -> LockSessions]

VARIABLES
    stage,      \* stage[t]: where call t is, see Stages
    entry,      \* entry[t]: the _SessionLock it uses, named after the call that created it
    table,      \* _locks
    users,      \* users[e]: the field users of e
    locked,     \* locked[e]: whether its lock is held
    ticket,     \* ticket[t]: when t queued for the lock
    tickets     \* how many did

lockVars == <<stage, entry, table, users, locked, ticket, tickets>>

(* A call that waits has a future in the lock's queue.  "woken": the future has a   *)
(* result and the task is scheduled; "cancelled": the future was cancelled;         *)
(* "stopped": cancelled after it was woken.                                         *)
Queued == {"waiting", "woken", "cancelled", "stopped"}
InUse == Queued \cup {"running"}
Stages == InUse \cup {"idle", "done"}

LockTypeOK ==
    /\ stage \in [Tasks -> Stages]
    /\ entry \in [Tasks -> Tasks \cup {NoEntry}]
    /\ table \in [LockSessions -> Tasks \cup {NoEntry}]
    /\ users \in [Tasks -> Nat] /\ locked \in [Tasks -> BOOLEAN]
    /\ ticket \in [Tasks -> Nat] /\ tickets \in Nat

LockInit ==
    /\ stage = [t \in Tasks |-> "idle"]
    /\ entry = [t \in Tasks |-> NoEntry]
    /\ table = [s \in LockSessions |-> NoEntry]
    /\ users = [t \in Tasks |-> 0]
    /\ locked = [t \in Tasks |-> FALSE]
    /\ ticket = [t \in Tasks |-> 0] /\ tickets = 0

Queue(e) == {t \in Tasks : entry[t] = e /\ stage[t] \in Queued}

\* Lock._wake_up_first, after t left the queue: the first future gets a result
\* unless it has one or was cancelled.
FirstInQueue(t, e) == {u \in Queue(e) \ {t} : \A w \in Queue(e) \ {t} : ticket[u] <= ticket[w]}
WakeFirst(t, e) ==
    stage' = [u \in Tasks |->
        IF u = t THEN "done"
        ELSE IF u \in FirstInQueue(t, e) /\ stage[u] = "waiting" THEN "woken" ELSE stage[u]]

-----------------------------------------------------------------------------

\* The first half of run_serialized, and Lock.acquire up to its await: a lock is
\* taken at once if it is free and nobody who was not cancelled queues for it.
Enter(t) ==
    /\ stage[t] = "idle"
    /\ LET s == SessionOf[t]
           e == IF table[s] = NoEntry THEN t ELSE table[s]
       IN /\ entry' = [entry EXCEPT ![t] = e]
          /\ table' = [table EXCEPT ![s] = e]
          /\ users' = [users EXCEPT ![e] = @ + 1]
          /\ IF ~locked[e] /\ \A u \in Queue(e) : stage[u] = "cancelled"
             THEN /\ stage' = [stage EXCEPT ![t] = "running"]
                  /\ locked' = [locked EXCEPT ![e] = TRUE]
                  /\ UNCHANGED <<ticket, tickets>>
             ELSE /\ stage' = [stage EXCEPT ![t] = "waiting"]
                  /\ ticket' = [ticket EXCEPT ![t] = tickets]
                  /\ tickets' = tickets + 1
                  /\ UNCHANGED locked

\* Lock.acquire, after its await.
Resume(t) ==
    /\ stage[t] = "woken"
    /\ stage' = [stage EXCEPT ![t] = "running"]
    /\ locked' = [locked EXCEPT ![entry[t]] = TRUE]
    /\ UNCHANGED <<entry, table, users, ticket, tickets>>

\* Mutant of Forget: the entry is dropped as soon as its lock is free.
ForgetFree(t) ==
    /\ users' = [users EXCEPT ![entry[t]] = @ - 1]
    /\ table' = IF ~locked'[entry[t]] THEN [table EXCEPT ![SessionOf[t]] = NoEntry] ELSE table

\* The finally of run_serialized.
Forget(t) ==
    /\ users' = [users EXCEPT ![entry[t]] = @ - 1]
    /\ table' = IF users'[entry[t]] = 0 /\ ~locked'[entry[t]]
                THEN [table EXCEPT ![SessionOf[t]] = NoEntry] ELSE table

\* The operation returns, raises or is cancelled: the lock is released.
Finish(t) ==
    /\ stage[t] = "running"
    /\ locked' = [locked EXCEPT ![entry[t]] = FALSE]
    /\ WakeFirst(t, entry[t])
    /\ Forget(t)
    /\ UNCHANGED <<entry, ticket, tickets>>

\* Somebody cancels a call that waits.
Cancel(t) ==
    /\ stage[t] \in {"waiting", "woken"}
    /\ stage' = [stage EXCEPT ![t] = IF @ = "waiting" THEN "cancelled" ELSE "stopped"]
    /\ UNCHANGED <<entry, table, users, locked, ticket, tickets>>

\* Mutant of Withdraw: a cancelled call leaves without waking the next.
WithdrawQuietly(t) ==
    /\ stage[t] \in {"cancelled", "stopped"}
    /\ UNCHANGED locked
    /\ stage' = [stage EXCEPT ![t] = "done"]
    /\ Forget(t)
    /\ UNCHANGED <<entry, ticket, tickets>>

\* The cancelled call runs: it leaves the queue and passes on a wakeup it cannot use.
Withdraw(t) ==
    /\ stage[t] \in {"cancelled", "stopped"}
    /\ UNCHANGED locked
    /\ IF locked[entry[t]] THEN stage' = [stage EXCEPT ![t] = "done"]
       ELSE WakeFirst(t, entry[t])
    /\ Forget(t)
    /\ UNCHANGED <<entry, ticket, tickets>>

LockNext == \E t \in Tasks : Enter(t) \/ Resume(t) \/ Finish(t) \/ Cancel(t) \/ Withdraw(t)

LockSpec == LockInit /\ [][LockNext]_lockVars

\* Tasks that are scheduled run, and operations come to an end.  (A task makes one call, so
\* what is fair to some of them is fair to each.)
LockFairness == WF_lockVars(\E t \in Tasks : Resume(t) \/ Finish(t) \/ Withdraw(t))

-----------------------------------------------------------------------------

\* Operations of one session are never in progress together, whoever is cancelled and
\* whenever the entry of the session is dropped and made again (AgentSessionService).
MutualExclusion ==
    \A t, u \in Tasks :
        stage[t] = "running" /\ stage[u] = "running" /\ SessionOf[t] = SessionOf[u] => t = u

\* The table holds an entry for exactly the sessions in use, and all their calls share
\* it: none leaks, and none is dropped under a call that still needs it.
TableIsExact ==
    \A s \in LockSessions :
        LET callers == {t \in Tasks : SessionOf[t] = s /\ stage[t] \in InUse}
        IN /\ (table[s] = NoEntry) = (callers = {})
           /\ \A t \in callers : entry[t] = table[s]

\* Every call comes to an end: no wakeup is lost between a release and the cancellation
\* of the one that was woken.
EveryCallEnds == \A t \in Tasks : stage[t] \in InUse ~> stage[t] = "done"
=============================================================================
