CONSTANTS
    Sessions = {1}
    Interactive = {}
    Interactions = {1, 2}
    Requests = {"a", "b"}
    Kinds = {"user_input"}
    Threads = {1}
    Turns <- MCTurns
    Actors = {"lark", "terminal", "timeout"}
    Messages = {}
    NoValue = NoValue
    RequestIds <- SameIds
    MaxTurns = 1
    MaxRestarts = 0
    Resumable = {}
    OtherThreads = {}
    Mortal = {0}
    Faults = {"rpc_error"}
SPECIFICATION FairSpec
CHECK_DEADLOCK FALSE
PROPERTIES RequestsAreAnswered TimeoutInterruptsTurn DeadServerEndsSession OrchSpec
