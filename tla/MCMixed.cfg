CONSTANTS
    Sessions = {1, 2}
    Interactive = {2}
    Interactions = {1, 2}
    Requests = {"a", "c"}
    Kinds = {"user_input"}
    Threads = {1, 2}
    Turns <- MCTurns
    Actors = {"lark", "terminal", "timeout"}
    Messages = {}
    NoValue = NoValue
    RequestIds <- ApartIds
    MaxTurns = 1
    MaxRestarts = 0
    Resumable = {}
    OtherThreads = {}
    Mortal = {}
    Faults = {}
SPECIFICATION SystemSpec
CHECK_DEADLOCK FALSE
INVARIANTS OpenIsTracked RecordedIsForwarded
