-------------------------- MODULE LarkConnection --------------------------
(***************************************************************************)
(* The way of a Lark event into the daemon: the child process that holds   *)
(* the long connection, its queue, the pump that empties it, the queue     *)
(* events, and the router, which records an event as seen before it acts   *)
(* on it.  Lark may deliver an event again, at any time.                   *)
(*                                                                         *)
(* What the router does to interactions is in CodexSystem.  A child that   *)
(* outlives a killed daemon takes events that nobody sees; they are not    *)
(* shown, no more than those that never left Lark.                         *)
(***************************************************************************)
EXTENDS Naturals, Sequences

CONSTANTS
    Events,         \* events of Lark, by event_id
    QueueCapacity,  \* capacity of both queues
    MaxDeliveries,  \* bound on how often an event is delivered
    MaxLives,       \* bound on how often the daemon is started
    NoEvent

ASSUME LarkAssumption ==
    /\ NoEvent \notin Events
    /\ QueueCapacity \in Nat \ {0} /\ MaxDeliveries \in Nat /\ MaxLives \in Nat

VARIABLES
    daemon,         \* "down", "up", "closing"
    lives,          \* how often it was started
    child,          \* whether the child runs
    deliveries,     \* deliveries[e]: how often e was delivered
    childQueue,     \* _child_queue
    pump,           \* _pump: "none", "getting", "holding" a payload, "checking" the child, "over"
    held,           \* the payload
    events,         \* events
    terminalError,  \* whether terminal_error is set
    router,         \* _route_lark: "none", "waiting", "routing", "over"
    routed,         \* the event it is routing
    degraded,       \* whether degraded_reason is set
    seen,           \* record_event_once, kept in the database
    accepted,       \* events that got into the queue of this child
    actedOn,        \* events the router has acted on, in order
    interrupted     \* events it had recorded and was kept from acting on

storeVars == <<seen, actedOn, interrupted>>
queueVars == <<child, deliveries, childQueue, accepted>>
pumpVars == <<pump, held, terminalError>>
routerVars == <<router, routed, degraded>>
larkVars == <<daemon, lives, events, queueVars, pumpVars, routerVars, storeVars>>

LarkTypeOK ==
    /\ daemon \in {"down", "up", "closing"} /\ lives \in Nat
    /\ child \in BOOLEAN /\ deliveries \in [Events -> Nat]
    /\ childQueue \in Seq(Events) /\ events \in Seq(Events) /\ actedOn \in Seq(Events)
    /\ Len(childQueue) <= QueueCapacity /\ Len(events) <= QueueCapacity
    /\ pump \in {"none", "getting", "holding", "checking", "over"}
    /\ router \in {"none", "waiting", "routing", "over"}
    /\ held \in Events \cup {NoEvent} /\ routed \in Events \cup {NoEvent}
    /\ terminalError \in BOOLEAN /\ degraded \in BOOLEAN
    /\ seen \subseteq Events /\ accepted \subseteq Events /\ interrupted \subseteq Events

LarkInit ==
    /\ daemon = "down" /\ lives = 0 /\ child = FALSE
    /\ deliveries = [e \in Events |-> 0]
    /\ childQueue = <<>> /\ pump = "none" /\ held = NoEvent
    /\ events = <<>> /\ terminalError = FALSE
    /\ router = "none" /\ routed = NoEvent /\ degraded = FALSE
    /\ seen = {} /\ accepted = {} /\ actedOn = <<>> /\ interrupted = {}

-----------------------------------------------------------------------------
(* the child *)

\* A full queue loses the event, and Lark is not told (on_message, on_reaction).
Arrive(e) ==
    /\ child /\ deliveries[e] < MaxDeliveries
    /\ deliveries' = [deliveries EXCEPT ![e] = @ + 1]
    /\ IF Len(childQueue) < QueueCapacity
       THEN childQueue' = Append(childQueue, e) /\ accepted' = accepted \cup {e}
       ELSE UNCHANGED <<childQueue, accepted>>
    /\ UNCHANGED <<daemon, lives, child, events, pumpVars, routerVars, storeVars>>

ChildDies ==
    /\ child /\ child' = FALSE
    /\ UNCHANGED <<daemon, lives, deliveries, childQueue, accepted, events, pumpVars, routerVars,
                   storeVars>>

-----------------------------------------------------------------------------
(* _pump: the queue is read in a thread *)

PumpGets ==
    /\ pump = "getting"
    /\ IF childQueue = <<>>
       THEN pump' = "checking" /\ UNCHANGED <<held, childQueue>>
       ELSE pump' = "holding" /\ held' = Head(childQueue) /\ childQueue' = Tail(childQueue)
    /\ UNCHANGED <<daemon, lives, child, deliveries, accepted, events, terminalError, routerVars,
                   storeVars>>

PumpEnds == pump' = "over" /\ terminalError' = TRUE

PumpChecks ==
    /\ pump = "checking"
    /\ IF child THEN pump' = "getting" /\ UNCHANGED terminalError ELSE PumpEnds
    /\ UNCHANGED <<daemon, lives, held, events, queueVars, routerVars, storeVars>>

\* Mutant of PumpForwards: what finds the queue full is dropped.
PumpDrops ==
    /\ pump = "holding" /\ held' = NoEvent
    /\ events' = IF Len(events) < QueueCapacity THEN Append(events, held) ELSE events
    /\ pump' = "getting" /\ UNCHANGED terminalError
    /\ UNCHANGED <<daemon, lives, queueVars, routerVars, storeVars>>

PumpForwards ==
    /\ pump = "holding" /\ held' = NoEvent
    /\ IF Len(events) < QueueCapacity
       THEN events' = Append(events, held) /\ pump' = "getting" /\ UNCHANGED terminalError
       ELSE PumpEnds /\ UNCHANGED events
    /\ UNCHANGED <<daemon, lives, queueVars, routerVars, storeVars>>

-----------------------------------------------------------------------------
(* _route_lark *)

RouterFails == router' = "over" /\ degraded' = TRUE

\* The next event is recorded; one that was recorded before is skipped.
RouterTakes ==
    /\ router = "waiting" /\ events # <<>>
    /\ events' = Tail(events)
    /\ IF Head(events) \in seen
       THEN UNCHANGED <<router, routed, seen>>
       ELSE router' = "routing" /\ routed' = Head(events) /\ seen' = seen \cup {Head(events)}
    /\ UNCHANGED <<daemon, lives, queueVars, pumpVars, degraded, actedOn, interrupted>>

RouterActs ==
    /\ router = "routing" /\ router' = "waiting" /\ routed' = NoEvent
    /\ actedOn' = Append(actedOn, routed)
    /\ UNCHANGED <<daemon, lives, events, queueVars, pumpVars, degraded, seen, interrupted>>

\* route raises: the router is over, and says so.
RouterRaises ==
    /\ router = "routing" /\ RouterFails /\ routed' = NoEvent
    /\ interrupted' = interrupted \cup {routed}
    /\ UNCHANGED <<daemon, lives, events, queueVars, pumpVars, seen, actedOn>>

\* Mutant of RouterReports: the router looks for the error of the pump when it has an event.
RouterLooksLate ==
    /\ router = "waiting" /\ events # <<>> /\ terminalError
    /\ RouterFails
    /\ UNCHANGED <<daemon, lives, events, queueVars, pumpVars, routed, storeVars>>

\* It has waited for half a second, in vain, and finds that the pump is over.
RouterReports ==
    /\ router = "waiting" /\ events = <<>> /\ terminalError
    /\ RouterFails
    /\ UNCHANGED <<daemon, lives, events, queueVars, pumpVars, routed, storeVars>>

-----------------------------------------------------------------------------
(* DaemonRuntime, as far as Lark is concerned *)

LarkStart ==
    /\ daemon = "down" /\ lives < MaxLives
    /\ daemon' = "up" /\ lives' = lives + 1
    /\ child' = TRUE /\ childQueue' = <<>> /\ accepted' = {}
    /\ pump' = "getting" /\ held' = NoEvent /\ events' = <<>> /\ terminalError' = FALSE
    /\ router' = "waiting" /\ routed' = NoEvent /\ degraded' = FALSE
    /\ UNCHANGED <<deliveries, storeVars>>

\* What is being routed when the router stops.
Interrupt ==
    /\ interrupted' = interrupted \cup ({routed} \ {NoEvent})
    /\ router' = "over" /\ routed' = NoEvent

\* close cancels the router, then stops the child and waits for it.
LarkCloses ==
    /\ daemon = "up" /\ daemon' = "closing"
    /\ Interrupt
    /\ UNCHANGED <<lives, events, queueVars, pumpVars, degraded, seen, actedOn>>

\* The child has stopped, and the pump is cancelled with what it holds.
PumpStops ==
    /\ daemon = "closing" /\ daemon' = "down"
    /\ child' = FALSE /\ pump' = "over" /\ held' = NoEvent
    /\ UNCHANGED <<lives, deliveries, childQueue, accepted, events, terminalError, routerVars,
                   storeVars>>

LarkKilled ==
    /\ daemon # "down" /\ daemon' = "down"
    /\ Interrupt
    /\ child' = FALSE /\ pump' = "over" /\ held' = NoEvent
    /\ UNCHANGED <<lives, deliveries, childQueue, accepted, events, terminalError, degraded, seen,
                   actedOn>>

-----------------------------------------------------------------------------

Pump == PumpGets \/ PumpChecks \/ PumpForwards
Router == RouterTakes \/ RouterActs \/ RouterReports

LarkNext ==
    \/ \E e \in Events : Arrive(e)
    \/ ChildDies \/ Pump \/ Router \/ RouterRaises
    \/ LarkStart \/ LarkCloses \/ PumpStops \/ LarkKilled

LarkSpec == LarkInit /\ [][LarkNext]_larkVars

\* The event loop runs what is ready, and routing an event comes to an end.
LarkFairness == WF_larkVars(Pump) /\ WF_larkVars(Router)

-----------------------------------------------------------------------------

\* An event is acted on at most once, however often it is delivered, and across restarts
\* (record_event_once).
ActedOnOnce == \A i, j \in DOMAIN actedOn : actedOn[i] = actedOn[j] => i = j

\* An event that has got into the queue is acted on, or the daemon reports that it no longer
\* listens.  The exception: it was recorded before, and a stop or an error came between that
\* and the action (LarkControlRouter.route).
ActedOn(e) == \E i \in DOMAIN actedOn : actedOn[i] = e
AcceptedIsActedOn ==
    \A e \in Events :
        e \in accepted ~> ActedOn(e) \/ e \in interrupted \/ degraded \/ daemon # "up"

\* A daemon that has gone deaf says so: the error of the pump reaches the health report
\* through the router (terminal_error, degraded_reason).
DeafIsReported == daemon = "up" /\ ~child ~> degraded \/ daemon # "up"
=============================================================================
