CONSTANTS
    Sessions = {1}
    Interactive = {1}
    Interactions = {1, 2}
    Requests = {"a", "b"}
    Kinds = {"exec_approval"}
    Threads = {1, 9}
    Turns <- MCTurns
    Actors = {"lark", "terminal", "timeout"}
    Messages = {}
    NoValue = NoValue
    RequestIds <- SameIds
    MaxTurns = 2
    MaxRestarts = 0
    Resumable = {}
    OtherThreads = {9}
    Mortal = {}
    Faults = {"terminal_error"}
SPECIFICATION SystemSpec
CHECK_DEADLOCK FALSE
INVARIANTS AtMostOneReply ReplyIsRecorded PendingOfCurrentTurn
PROPERTIES RefusalsAreDue
