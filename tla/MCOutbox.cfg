CONSTANTS
    Sessions = {s1}
    Interactions = {1, 2}
    Requests = {"a"}
    Kinds = {"user_input"}
    Threads = {}
    Turns = {}
    Actors = {"lark", "timeout"}
    Messages <- MCMessages
    NoValue = NoValue
    Hooks = {h1}
    Events = {e1}
    Outcomes = {"cancelled"}
    MaxRows = 3
    MaxTroubles = 1
SPECIFICATION FairSpec
CHECK_DEADLOCK FALSE
INVARIANTS TablesOK RepeatsAreExcused LarkAnswersWhatItAsked QuestionBeforeNews
PROPERTIES FirstResponseWins QueueSpec EveryRowIsSent
