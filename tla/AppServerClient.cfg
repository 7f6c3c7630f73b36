CONSTANTS
    Calls = {c1, c2}
    Replies = {}
    Initialize = Initialize
    Initialized = Initialized
    Queues = {requests}
    Capacity = 1
    MaxUnread = 1
    None = None
SPECIFICATION FairSpec
CHECK_DEADLOCK FALSE
INVARIANTS OwnAnswer ClosedIsQuiet
PROPERTIES HandshakeFirst LinkSpec CallsReturn ClosingEnds
