CONSTANTS
    Sessions = {1, 2}
    Interactive = {}
    Interactions = {1, 2}
    Requests = {"a"}
    Kinds = {"exec_approval"}
    Threads = {1, 2}
    Turns <- MCTurns
    Actors = {"lark", "terminal", "timeout"}
    Messages = {}
    NoValue = NoValue
    RequestIds <- SameIds
    MaxTurns = 1
    MaxRestarts = 1
    Resumable = {}
    OtherThreads = {}
    Mortal = {0}
    Faults = {}
SPECIFICATION SystemSpec
CHECK_DEADLOCK FALSE
INVARIANTS PendingIsAnswerable EndedOnce
