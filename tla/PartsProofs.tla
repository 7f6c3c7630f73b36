--------------------------- MODULE PartsProofs ---------------------------
(***************************************************************************)
(* Proofs about four small components: the life of the TUI sessions, the   *)
(* way of a Lark event into the daemon, the resources of the probe, and    *)
(* the cooldown of notifications.                                          *)
(***************************************************************************)
EXTENDS InteractiveManager, LarkConnection, ProbeResources, NotificationCooldown, TLAPS

-----------------------------------------------------------------------------
(* InteractiveManager: for any number of commands, no app-server, gateway or *)
(* row is left without somebody who will end it.                            *)

\* A session that was not asked for does not exist; one that is being created is not in the
\* table and has no open gateway; and close_session closes the gateway first.
Stages(c) ==
    /\ cli[c] = "idle" =>
          /\ creating[c] = "none" /\ closing[c] = "none" /\ c \notin sessions
          /\ process[c] = "none" /\ gateway[c] = "none" /\ row[c] = "none"
    /\ Creating(c) => closing[c] = "none" /\ c \notin sessions /\ gateway[c] \in {"none", "closed"}
    /\ creating[c] = "spawning" => process[c] = "none" /\ row[c] = "none"
    /\ closing[c] = "process" => gateway[c] = "closed"

\* What the daemon has finished with in each of its phases.
Phases ==
    /\ life = "down" => sessions = {} /\ \A c \in Clis : ~Creating(c) /\ ~Closing(c)
    /\ life = "closing" => sessions \subseteq todo /\ \A c \in Clis : ~Creating(c)

ManagerInv == ManagerTypeOK /\ NoneIsStray /\ Phases /\ \A c \in Clis : Stages(c)

\* It holds at first.
LEMMA ManagerInitInv == ManagerInit => ManagerInv
BY SMT DEF ManagerInit, ManagerInv, ManagerTypeOK, NoneIsStray, Phases, Stages, Owned, Creating, Closing, Underway,
    CliStates, CreateStages

USE DEF ManagerInv, ManagerTypeOK, NoneIsStray, Phases, Stages, Owned, Creating, Closing, Underway, CliStates,
    CreateStages, serverVars

\* The command preserves it.
LEMMA CliStep == ASSUME ManagerInv, NEW c \in Clis, Cli(c) PROVE ManagerInv'
<1>1. CASE Post(c)
  BY <1>1, SMT DEF Post
<1>2. CASE Answered(c)
  BY <1>2, SMT DEF Answered
<1>3. CASE TimesOut(c)
  BY <1>3, SMT DEF TimesOut
<1>4. CASE TuiExits(c)
  BY <1>4, SMT DEF TuiExits
<1>5. CASE Delete(c)
  BY <1>5, SMT DEF Delete
<1>6. CASE Deleted(c)
  BY <1>6, SMT DEF Deleted
<1>7. CASE CliKilled(c)
  BY <1>7, SMT DEF CliKilled
<1> QED BY <1>1, <1>2, <1>3, <1>4, <1>5, <1>6, <1>7 DEF Cli

\* The handlers of the daemon preserve it.
LEMMA HandlerStep == ASSUME ManagerInv, NEW c \in Clis, Handler(c) PROVE ManagerInv'
<1>1. CASE Spawned(c)
  BY <1>1, SMT DEF Spawned, Advance
<1>2. CASE Listening(c)
  BY <1>2, SMT DEF Listening, Advance
<1>3. CASE GatewayStarts(c)
  BY <1>3, SMT DEF GatewayStarts, Advance
<1>4. CASE Undo(c)
  BY <1>4, SMT DEF Undo, Advance, EndRow, StopProcess
<1>5. CASE CloseGateway(c)
  BY <1>5, SMT DEF CloseGateway
<1>6. CASE CloseProcess(c)
  BY <1>6, SMT DEF CloseProcess, EndRow, StopProcess
<1> QED BY <1>1, <1>2, <1>3, <1>4, <1>5, <1>6 DEF Handler

\* So do app-servers and gateways.
LEMMA ServerStep == ASSUME ManagerInv, NEW c \in Clis, ServerEnds(c) \/ GatewayLoses(c) PROVE ManagerInv'
<1>1. CASE ServerEnds(c)
  BY <1>1, SMT DEF ServerEnds
<1>2. CASE GatewayLoses(c)
  BY <1>2, SMT DEF GatewayLoses
<1> QED BY <1>1, <1>2

\* And start, shutdown and death of the daemon.
LEMMA DaemonStep == ASSUME ManagerInv, Daemon PROVE ManagerInv'
<1>1. CASE Start
  BY <1>1, SMT DEF Start
<1>2. CASE Stop
  BY <1>2, SMT DEF Stop
<1>3. CASE Drained
  BY <1>3, SMT DEF Drained
<1>4. CASE Stopped
  BY <1>4, SMT DEF Stopped
<1>5. CASE Killed
  BY <1>5, ManagerAssumption, SMT DEF Killed
<1>6. ASSUME NEW c \in Clis, CloseNext(c) PROVE ManagerInv'
  BY <1>6, SMT DEF CloseNext
<1> QED BY <1>1, <1>2, <1>3, <1>4, <1>5, <1>6 DEF Daemon

HIDE DEF ManagerInv, ManagerTypeOK, NoneIsStray, Phases, Stages, Owned, Creating, Closing, Underway, CliStates,
    CreateStages, serverVars

\* The invariant is inductive.
LEMMA ManagerInvKept == ManagerInv /\ [ManagerNext]_managerVars => ManagerInv'
<1> SUFFICES ASSUME ManagerInv, [ManagerNext]_managerVars PROVE ManagerInv'
  OBVIOUS
<1>1. CASE UNCHANGED managerVars
  BY <1>1, SMT DEF managerVars, ManagerInv, ManagerTypeOK, NoneIsStray, Phases, Stages, Owned, Creating, Closing, serverVars
<1>2. CASE ManagerNext
  BY <1>2, CliStep, HandlerStep, ServerStep, DaemonStep DEF ManagerNext
<1> QED BY <1>1, <1>2

\* It holds in every state.
LEMMA ManagerInvHolds == ManagerSpec => []ManagerInv
<1> QED BY ManagerInitInv, ManagerInvKept, PTL DEF ManagerSpec

(* The state of the manager is always of its type (InteractiveSessionManager). *)
THEOREM ManagerTypeCorrect == ManagerSpec => []ManagerTypeOK
<1>1. ManagerInv => ManagerTypeOK
  BY DEF ManagerInv
<1> QED BY <1>1, ManagerInvHolds, PTL

(* For any number of sessions and faults: whatever runs has an owner that will end it     *)
(* (InteractiveSessionManager, DaemonRuntime.close).                                      *)
THEOREM NoneIsEverStray == ManagerSpec => []NoneIsStray
<1>1. ManagerInv => NoneIsStray
  BY DEF ManagerInv
<1> QED BY <1>1, ManagerInvHolds, PTL

(* A daemon that has stopped has reaped every session (the comment in commands/app.py).   *)
THEOREM ShutdownReaps == ManagerSpec => []StoppedLeavesNothing
<1>1. ManagerInv => StoppedLeavesNothing
  <2> SUFFICES ASSUME ManagerInv, life = "down", NEW c \in Clis \ cut
               PROVE  process[c] # "up" /\ gateway[c] # "open" /\ row[c] # "active"
    BY DEF StoppedLeavesNothing
  <2>1. ~Owned(c)
    BY DEF ManagerInv, Phases, Owned
  <2>2. gateway[c] \notin {"open", "lost"} /\ process[c] # "up" /\ row[c] # "active"
    BY <2>1 DEF ManagerInv, NoneIsStray
  <2> QED BY <2>2
<1> QED BY <1>1, ManagerInvHolds, PTL

-----------------------------------------------------------------------------
(* LarkConnection *)

\* What was acted on had been recorded, and what is being routed was recorded just before.
HoldsPayload == pump = "holding" => held \in Events
RoutesRecorded ==
    router = "routing" => routed \in seen /\ \A i \in DOMAIN actedOn : actedOn[i] # routed
ActedIsSeen == \A i \in DOMAIN actedOn : actedOn[i] \in seen

LarkInv == LarkTypeOK /\ HoldsPayload /\ RoutesRecorded /\ ActedIsSeen /\ ActedOnOnce

USE DEF LarkInv, LarkTypeOK, HoldsPayload, RoutesRecorded, ActedIsSeen

\* An empty queue is one.
LEMMA EmptyQueue ==
    /\ <<>> \in Seq(Events) /\ Len(<<>>) = 0 /\ Len(<<>>) <= QueueCapacity
    /\ \A i \in DOMAIN <<>> : FALSE
<1>1. <<>> \in Seq(Events) /\ Len(<<>>) = 0 /\ \A i \in DOMAIN <<>> : FALSE
  OBVIOUS
<1> QED BY <1>1, LarkAssumption

\* The invariant holds at first.
LEMMA LarkInitInv == LarkInit => LarkInv
<1> SUFFICES ASSUME LarkInit PROVE LarkInv
  OBVIOUS
<1>1. deliveries \in [Events -> Nat] /\ lives \in Nat
  BY DEF LarkInit
<1>2. childQueue = <<>> /\ events = <<>> /\ actedOn = <<>>
  BY DEF LarkInit
<1>3. LarkTypeOK
  BY <1>1, <1>2, EmptyQueue DEF LarkInit
<1>4. ActedIsSeen /\ ActedOnOnce
  BY <1>2, EmptyQueue DEF ActedOnOnce
<1> QED BY <1>3, <1>4 DEF LarkInit

\* A queue with room takes one more.
LEMMA RoomFor ==
    ASSUME NEW q \in Seq(Events), NEW e \in Events, Len(q) < QueueCapacity
    PROVE  Append(q, e) \in Seq(Events) /\ Len(Append(q, e)) <= QueueCapacity
BY LarkAssumption

\* And what is taken from it leaves a shorter one.
LEMMA ShorterQueue ==
    ASSUME NEW q \in Seq(Events), q # <<>>, Len(q) <= QueueCapacity
    PROVE  Head(q) \in Events /\ Tail(q) \in Seq(Events) /\ Len(Tail(q)) <= QueueCapacity
BY LarkAssumption

\* The child, and the pump while it does not forward, preserve it.
LEMMA ChildInv ==
    ASSUME LarkInv, \/ \E e \in Events : Arrive(e)
                    \/ ChildDies \/ PumpGets \/ PumpChecks
    PROVE  LarkInv'
<1>1. ASSUME NEW e \in Events, Arrive(e) PROVE LarkInv'
  <2>1. deliveries' \in [Events -> Nat] /\ child' = child /\ accepted' \subseteq Events
    BY <1>1 DEF Arrive
  <2>2. childQueue' \in Seq(Events) /\ Len(childQueue') <= QueueCapacity
    BY <1>1, RoomFor DEF Arrive
  <2>3. UNCHANGED <<daemon, lives, events, pumpVars, routerVars, storeVars>>
    BY <1>1 DEF Arrive
  <2> QED BY <2>1, <2>2, <2>3, SMTT(30) DEF pumpVars, routerVars, storeVars, ActedOnOnce
<1>2. CASE ChildDies
  <2>1. /\ child' \in BOOLEAN
        /\ UNCHANGED <<daemon, lives, deliveries, childQueue, accepted, events, pumpVars,
                       routerVars, storeVars>>
    BY <1>2 DEF ChildDies
  <2> QED BY <2>1, SMTT(30) DEF pumpVars, routerVars, storeVars, ActedOnOnce
<1>3. CASE PumpGets
  BY <1>3, ShorterQueue DEF PumpGets, routerVars, storeVars, ActedOnOnce
<1>4. CASE PumpChecks
  BY <1>4, ZenonT(60) DEF PumpChecks, PumpEnds, queueVars, routerVars, storeVars, ActedOnOnce
<1> QED BY <1>1, <1>2, <1>3, <1>4

\* So does the forwarding of a payload.
LEMMA ForwardInv == ASSUME LarkInv, PumpForwards PROVE LarkInv'
BY RoomFor DEF PumpForwards, PumpEnds, queueVars, routerVars, storeVars, ActedOnOnce

\* The router preserves it: it acts on what it has just recorded, and on nothing else.
LEMMA RouterInv ==
    ASSUME LarkInv, RouterTakes \/ RouterActs \/ RouterRaises \/ RouterReports PROVE LarkInv'
<1>1. CASE RouterTakes
  <2>1. events # <<>> /\ Head(events) \in Events /\ events' \in Seq(Events) /\ Len(events') <= QueueCapacity
    BY <1>1, ShorterQueue DEF RouterTakes
  <2>2. actedOn' = actedOn /\ seen \subseteq seen'
    BY <1>1 DEF RouterTakes
  <2> QED BY <1>1, <2>1, <2>2 DEF RouterTakes, queueVars, pumpVars, ActedOnOnce
<1>2. CASE RouterActs
  <2>1. routed \in Events /\ routed \in seen /\ \A i \in DOMAIN actedOn : actedOn[i] # routed
    BY <1>2 DEF RouterActs
  <2>2. actedOn' = Append(actedOn, routed) /\ actedOn' \in Seq(Events) /\ seen' = seen
    BY <1>2, <2>1 DEF RouterActs
  <2>3. \A i \in DOMAIN actedOn' : /\ i \in DOMAIN actedOn \/ i = Len(actedOn) + 1
                                   /\ i \in DOMAIN actedOn => actedOn'[i] = actedOn[i]
                                   /\ i = Len(actedOn) + 1 => actedOn'[i] = routed
    BY <2>1, <2>2
  <2>4. ActedIsSeen' /\ ActedOnOnce'
    BY <2>1, <2>2, <2>3 DEF ActedOnOnce
  <2> QED BY <1>2, <2>2, <2>4 DEF RouterActs, queueVars, pumpVars
<1>3. CASE RouterRaises
  BY <1>3 DEF RouterRaises, RouterFails, queueVars, pumpVars, ActedOnOnce
<1>4. CASE RouterReports
  BY <1>4 DEF RouterReports, RouterFails, queueVars, pumpVars, storeVars, ActedOnOnce
<1> QED BY <1>1, <1>2, <1>3, <1>4

\* And so do the starts, stops and kills of the daemon.
LEMMA LarkDaemonInv ==
    ASSUME LarkInv, LarkStart \/ LarkCloses \/ PumpStops \/ LarkKilled PROVE LarkInv'
<1>1. CASE LarkStart
  <2>1. childQueue' = <<>> /\ events' = <<>>
    BY <1>1 DEF LarkStart
  <2>2. childQueue' \in Seq(Events) /\ Len(childQueue') <= QueueCapacity
    BY <2>1, EmptyQueue
  <2>3. events' \in Seq(Events) /\ Len(events') <= QueueCapacity
    BY <2>1, EmptyQueue
  <2>4. lives' \in Nat /\ UNCHANGED <<deliveries, storeVars>>
    BY <1>1 DEF LarkStart
  <2>5. /\ daemon' = "up" /\ child' = TRUE /\ accepted' = {} /\ pump' = "getting"
        /\ held' = NoEvent /\ terminalError' = FALSE /\ router' = "waiting"
        /\ routed' = NoEvent /\ degraded' = FALSE
    BY <1>1 DEF LarkStart
  <2>6. LarkTypeOK'
    BY <2>2, <2>3, <2>4, <2>5 DEF storeVars
  <2> QED BY <2>4, <2>5, <2>6 DEF storeVars, ActedOnOnce
<1>2. CASE LarkCloses
  BY <1>2 DEF LarkCloses, Interrupt, queueVars, pumpVars, ActedOnOnce
<1>3. CASE PumpStops
  BY <1>3 DEF PumpStops, routerVars, storeVars, ActedOnOnce
<1>4. CASE LarkKilled
  BY <1>4 DEF LarkKilled, Interrupt, ActedOnOnce
<1> QED BY <1>1, <1>2, <1>3, <1>4

\* Every behaviour has it.
LEMMA LarkInvHolds == LarkSpec => []LarkInv
<1>1. LarkInv /\ [LarkNext]_larkVars => LarkInv'
  <2> SUFFICES ASSUME LarkInv, [LarkNext]_larkVars PROVE LarkInv'
    OBVIOUS
  <2>1. CASE LarkNext
    BY <2>1, ChildInv, ForwardInv, RouterInv, LarkDaemonInv DEF LarkNext, Pump, Router
  <2>2. CASE UNCHANGED larkVars
    BY <2>2 DEF larkVars, queueVars, pumpVars, routerVars, storeVars, ActedOnOnce
  <2> QED BY <2>1, <2>2
<1> QED BY <1>1, LarkInitInv, PTL DEF LarkSpec

\* The queues of Lark events never hold more than they may.
THEOREM LarkTypeCorrect == LarkSpec => []LarkTypeOK
<1>1. LarkInv => LarkTypeOK
  OBVIOUS
<1> QED BY <1>1, LarkInvHolds, PTL

\* An event is acted on at most once, however often it is delivered and across restarts.
THEOREM NoEventTwice == LarkSpec => []ActedOnOnce
<1>1. LarkInv => ActedOnOnce
  OBVIOUS
<1> QED BY <1>1, LarkInvHolds, PTL

HIDE DEF LarkInv, LarkTypeOK, HoldsPayload, RoutesRecorded, ActedIsSeen

-----------------------------------------------------------------------------
(* ProbeResources *)

\* What was acquired is owned, is being dealt with, or is left to a callback.
Kept ==
    \A r \in Resources : resource[r] \in {"pending", "open"} =>
        \/ r \in owned \cup late \/ hurried
        \/ r = at /\ point \in {"acquiring", "recovering", "cancelling", "cleaning"}

ProbeInv == ProbeTypeOK /\ Kept /\ NothingLeaks

USE DEF ProbeInv, ProbeTypeOK, Kept, Resources, Points, NothingLeaks

\* The invariant holds at first, and every step preserves it.
LEMMA ProbeInvHolds == ProbeSpec => []ProbeInv
<1>1. ProbeInit => ProbeInv
  <2> SUFFICES ASSUME ProbeInit PROVE ProbeInv
    OBVIOUS
  <2>1. \A r \in Resources : resource[r] = "none"
    BY DEF ProbeInit
  <2>2. Kept /\ NothingLeaks
    BY <2>1
  <2>3. 1 \in Resources
    BY ProbeAssumption
  <2>4. resource \in [Resources -> {"none", "pending", "open", "failed", "closed"}]
    BY DEF ProbeInit
  <2>5. ProbeTypeOK
    BY <2>3, <2>4 DEF ProbeInit
  <2> QED BY <2>2, <2>5
<1>2. ProbeInv /\ [ProbeNext]_probeVars => ProbeInv'
  <2> SUFFICES ASSUME ProbeInv, [ProbeNext]_probeVars PROVE ProbeInv'
    OBVIOUS
  <2> USE ProbeAssumption
  <2>1. CASE ProbeStart
    BY <2>1 DEF ProbeStart, Acquire
  <2>2. CASE Acquired
    <3>1. CASE resource[at] = "open" /\ at # 1 /\ at < Last
      <4>1. /\ at' = at + 1 /\ at' \in Resources /\ point' = "acquiring"
            /\ resource' = [resource EXCEPT ![at + 1] = "pending"]
            /\ owned' = owned \cup {at} /\ UNCHANGED <<late, cancels, hurried>>
        BY <2>2, <3>1 DEF Acquired, Acquire
      <4>2. \A r \in Resources : r # at + 1 => resource'[r] = resource[r]
        BY <4>1
      <4>3. ProbeTypeOK'
        BY <4>1
      <4>4. Kept'
        BY <4>1, <4>2
      <4> QED BY <4>1, <4>3, <4>4
    <3>2. CASE resource[at] = "open" /\ (at = 1 \/ ~(at < Last))
      BY <2>2, <3>2 DEF Acquired
    <3>3. CASE resource[at] = "failed"
      BY <2>2, <3>3 DEF Acquired
    <3> QED BY <2>2, <3>1, <3>2, <3>3 DEF Acquired
  <2>3. CASE Listened
    BY <2>3 DEF Listened, Acquire
  <2>4. CASE Probed
    BY <2>4 DEF Probed
  <2>5. CASE Recovered
    BY <2>5 DEF Recovered
  <2>6. CASE Expired
    BY <2>6 DEF Expired
  <2>7. CASE Cleaned
    BY <2>7 DEF Cleaned
  <2>8. CASE Released
    BY <2>8 DEF Released
  <2>9. CASE Returned
    BY <2>9 DEF Returned
  <2>10. CASE Cancelled
    <3>1. /\ cancels' = cancels + 1 /\ point' \in Points /\ hurried' \in BOOLEAN
          /\ UNCHANGED <<at, resource, owned, late>>
      BY <2>10 DEF Cancelled
    <3>2. ProbeTypeOK'
      BY <3>1
    <3>3. hurried' \/ (hurried' = hurried /\ point = "acquiring" /\ point' = "recovering")
          \/ (hurried' = hurried /\ point \in {"listening", "probing"} /\ point' = "closing")
      BY <2>10 DEF Cancelled
    <3>4. Kept' /\ NothingLeaks'
      BY <3>1, <3>3
    <3> QED BY <3>2, <3>4
  <2>11. ASSUME NEW r \in Resources, Settled(r) \/ LateCleanup(r) PROVE ProbeInv'
    BY <2>11 DEF Settled, LateCleanup
  <2>12. CASE UNCHANGED probeVars
    BY <2>12 DEF probeVars
  <2> QED BY <2>1, <2>2, <2>3, <2>4, <2>5, <2>6, <2>7, <2>8, <2>9, <2>10, <2>11, <2>12
         DEF ProbeNext, Probe
<1> QED BY <1>1, <1>2, PTL DEF ProbeSpec

\* The probe acquires no more than it has places for, one after the other.
THEOREM ProbeTypeCorrect == ProbeSpec => []ProbeTypeOK
<1>1. ProbeInv => ProbeTypeOK
  OBVIOUS
<1> QED BY <1>1, ProbeInvHolds, PTL

\* A probe that is over has given back what it acquired, for any number of connections.
THEOREM ProbeGivesBack == ProbeSpec => []NothingLeaks
<1>1. ProbeInv => NothingLeaks
  OBVIOUS
<1> QED BY <1>1, ProbeInvHolds, PTL

HIDE DEF ProbeInv, ProbeTypeOK, Kept, Resources, Points, NothingLeaks

-----------------------------------------------------------------------------
(* NotificationCooldown *)

\* x read the clock before q did, and wrote after q.
Overtook(x, q) == phase[x] = "recorded" /\ x \in beside[q] /\ stamp[x] < stamp[q]

\* The time in the row is not before any that was recorded in it, but for those overtaken.
RowIsLatest ==
    \A q \in Those("recorded") : stamp[q] <= lastSent \/ \E x \in Senders : Overtook(x, q)
\* Whoever may still overtake q is known to q.
LateIsBeside ==
    \A x \in Those("recording"), q \in Those("recorded") :
        stamp[x] < stamp[q] => x \in beside[q]
StampsInOrder ==
    /\ lastSent <= now
    /\ \A q \in Senders :
        /\ stamp[q] <= now
        /\ Notified(q) => sentAt[q] <= now
        /\ phase[q] \in {"recording", "recorded"} => sentAt[q] <= stamp[q]
EarlierRecorded == \A p \in Senders : earlier[p] \subseteq Those("recorded")
\* With stamps for the times at Lark: a sender that may send has kept the distance.
MaySend ==
    \A p, q \in Senders :
        phase[p] = "checked" /\ q \in earlier[p] =>
            stamp[p] - stamp[q] >= Cooldown \/ MovedBack(p, q)

CooldownInv ==
    /\ CooldownTypeOK /\ RowIsLatest /\ LateIsBeside /\ StampsInOrder
    /\ EarlierRecorded /\ MaySend /\ RepeatsAreConcurrent

USE DEF CooldownInv, CooldownTypeOK, RowIsLatest, LateIsBeside, StampsInOrder, EarlierRecorded,
        MaySend, RepeatsAreConcurrent, Notified, Overtook, MovedBack, Those, SendPhases, Times, Never

\* The invariant holds at first, and every step preserves it.
LEMMA CooldownInvHolds == CooldownSpec => []CooldownInv
<1>1. CooldownInit => CooldownInv
  BY CooldownAssumption DEF CooldownInit
<1>2. CooldownInv /\ [CooldownNext]_cooldownVars => CooldownInv'
  <2> SUFFICES ASSUME CooldownInv, [CooldownNext]_cooldownVars PROVE CooldownInv'
    OBVIOUS
  <2> USE CooldownAssumption
  <2>1. CASE Tick
    BY <2>1 DEF Tick
  <2>2. ASSUME NEW p \in Senders, Look(p) PROVE CooldownInv'
    <3> USE <2>2 DEF Look, Move
    <3>1. CooldownTypeOK'
      OBVIOUS
    <3>2. RowIsLatest'
      OBVIOUS
    <3>3. LateIsBeside'
      OBVIOUS
    <3>4. StampsInOrder'
      OBVIOUS
    <3>5. EarlierRecorded'
      OBVIOUS
    <3>6. MaySend'
      OBVIOUS
    <3>7. RepeatsAreConcurrent'
      OBVIOUS
    <3> QED BY <3>1, <3>2, <3>3, <3>4, <3>5, <3>6, <3>7
  <2>3. ASSUME NEW p \in Senders, Check(p) PROVE CooldownInv'
    <3> USE <2>3 DEF Check, Move
    <3>1. CooldownTypeOK'
      OBVIOUS
    <3>2. RowIsLatest'
      OBVIOUS
    <3>3. LateIsBeside'
      OBVIOUS
    <3>4. StampsInOrder'
      OBVIOUS
    <3>5. EarlierRecorded'
      OBVIOUS
    <3>6. MaySend'
      OBVIOUS
    <3>7. RepeatsAreConcurrent'
      OBVIOUS
    <3> QED BY <3>1, <3>2, <3>3, <3>4, <3>5, <3>6, <3>7
  <2>4. ASSUME NEW p \in Senders, Notify(p) PROVE CooldownInv'
    <3> USE <2>4 DEF Notify, Move
    <3>1. CooldownTypeOK'
      OBVIOUS
    <3>2. RowIsLatest'
      OBVIOUS
    <3>3. LateIsBeside'
      OBVIOUS
    <3>4. StampsInOrder'
      OBVIOUS
    <3>5. EarlierRecorded'
      OBVIOUS
    <3>6. MaySend'
      OBVIOUS
    <3>7. RepeatsAreConcurrent'
      OBVIOUS
    <3> QED BY <3>1, <3>2, <3>3, <3>4, <3>5, <3>6, <3>7
  <2>5. ASSUME NEW p \in Senders, NotifyFails(p) PROVE CooldownInv'
    BY <2>5 DEF NotifyFails, Move
  <2>6. ASSUME NEW p \in Senders, Stamp(p) PROVE CooldownInv'
    <3> USE <2>6 DEF Stamp, Move
    <3>1. CooldownTypeOK'
      OBVIOUS
    <3>2. RowIsLatest'
      OBVIOUS
    <3>3. LateIsBeside'
      OBVIOUS
    <3>4. StampsInOrder'
      OBVIOUS
    <3>5. EarlierRecorded'
      OBVIOUS
    <3>6. MaySend'
      OBVIOUS
    <3>7. RepeatsAreConcurrent'
      OBVIOUS
    <3> QED BY <3>1, <3>2, <3>3, <3>4, <3>5, <3>6, <3>7
  <2>7. ASSUME NEW p \in Senders, Record(p) PROVE CooldownInv'
    <3> USE <2>7 DEF Record, Move
    <3>1. CooldownTypeOK'
      OBVIOUS
    <3>2. RowIsLatest'
      OBVIOUS
    <3>3. LateIsBeside'
      OBVIOUS
    <3>4. StampsInOrder'
      OBVIOUS
    <3>5. EarlierRecorded'
      OBVIOUS
    <3>6. MaySend'
      OBVIOUS
    <3>7. RepeatsAreConcurrent'
      OBVIOUS
    <3> QED BY <3>1, <3>2, <3>3, <3>4, <3>5, <3>6, <3>7
  <2>8. ASSUME NEW p \in Senders, RecordFails(p) PROVE CooldownInv'
    <3> USE <2>8 DEF RecordFails, Move
    <3>1. CooldownTypeOK'
      OBVIOUS
    <3>2. RowIsLatest'
      OBVIOUS
    <3>3. LateIsBeside'
      OBVIOUS
    <3>4. StampsInOrder'
      OBVIOUS
    <3>5. EarlierRecorded'
      OBVIOUS
    <3>6. MaySend'
      OBVIOUS
    <3>7. RepeatsAreConcurrent'
      OBVIOUS
    <3> QED BY <3>1, <3>2, <3>3, <3>4, <3>5, <3>6, <3>7
  <2>9. CASE UNCHANGED cooldownVars
    BY <2>9 DEF cooldownVars
  <2> QED BY <2>1, <2>2, <2>3, <2>4, <2>5, <2>6, <2>7, <2>8, <2>9 DEF CooldownNext, Send
<1> QED BY <1>1, <1>2, PTL DEF CooldownSpec

\* The row never holds a time that is yet to come.
THEOREM CooldownTypeCorrect == CooldownSpec => [](CooldownTypeOK /\ lastSent <= now)
<1>1. CooldownInv => CooldownTypeOK /\ lastSent <= now
  OBVIOUS
<1> QED BY <1>1, CooldownInvHolds, PTL

\* A sender repeats what was recorded when it looked only where a third one's older time was
\* committed over it, for any number of senders and any cooldown.
THEOREM CooldownKeepsDistance == CooldownSpec => []RepeatsAreConcurrent
<1>1. CooldownInv => RepeatsAreConcurrent
  OBVIOUS
<1> QED BY <1>1, CooldownInvHolds, PTL
=============================================================================
