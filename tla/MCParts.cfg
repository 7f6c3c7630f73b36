CONSTANTS
    Clis = {c1, c2}
    Faults = {"spawn", "listen", "gateway", "server", "cli"}
    MaxKills = 1
    Tasks = {1, 2, 3, 4}
    LockSessions = {1, 2}
    SessionOf <- MCSessionOf
    NoEntry = NoEntry
    Events = {e1, e2}
    QueueCapacity = 1
    MaxDeliveries = 2
    MaxLives = 2
    NoEvent = NoEvent
    Last = 3
    MaxCancels = 2
    Senders = {p1, p2, p3}
    Cooldown = 2
    MaxTime = 2
SPECIFICATION FairSpec
CHECK_DEADLOCK FALSE
INVARIANTS NoneIsStray StoppedLeavesNothing MutualExclusion NothingLeaks RepeatsAreConcurrent
PROPERTIES SessionsEnd EveryCallEnds AcceptedIsActedOn DeafIsReported
