CONSTANTS
    Sessions = {1}
    Interactive = {1}
    Interactions = {1, 2}
    Requests = {"a", "b"}
    Kinds = {"exec_approval"}
    Threads = {1}
    Turns <- MCTurns
    Actors = {"lark", "terminal", "timeout"}
    Messages = {}
    NoValue = NoValue
    RequestIds <- SameIds
    MaxTurns = 1
    MaxRestarts = 0
    Resumable = {}
    OtherThreads = {}
    Mortal = {1}
    Faults = {}
SPECIFICATION FairSpec
CHECK_DEADLOCK FALSE
PROPERTIES RequestsAreAnswered
