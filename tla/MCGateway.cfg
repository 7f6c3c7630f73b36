CONSTANTS
    Terminals = {t1, t2}
    Ids = {1}
    IdOf <- MCIdOf
    Method <- MCMethod
    Asks = {a1}
    ThreadOf <- MCThreadOf
    Capacity = 1
    MaxUnread = 2
    Nobody = Nobody
SPECIFICATION FairSpec
CHECK_DEADLOCK FALSE
INVARIANTS OneAnswer AskedInKnownThread
PROPERTIES FeedSpec ArrivedIsOffered CloseEnds
