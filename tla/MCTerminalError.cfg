CONSTANTS
    Sessions = {1}
    Interactive = {1}
    Interactions = {1}
    Requests = {"a"}
    Kinds = {"exec_approval"}
    Threads = {1}
    Turns <- MCTurns
    Actors = {"lark", "terminal", "timeout"}
    Messages = {}
    NoValue = NoValue
    RequestIds <- SameIds
    MaxTurns = 1
    MaxRestarts = 0
    Resumable = {}
    OtherThreads = {}
    Mortal = {}
    Faults = {"terminal_error"}
SPECIFICATION SystemSpec
CHECK_DEADLOCK FALSE
INVARIANTS RecordedIsForwarded
