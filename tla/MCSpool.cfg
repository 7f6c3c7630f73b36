CONSTANTS
    Sessions = {s1}
    Interactions = {1}
    Requests = {"a"}
    Kinds = {"user_input"}
    Threads = {}
    Turns = {}
    Actors = {"lark", "timeout"}
    Messages <- MCMessages
    NoValue = NoValue
    Hooks = {h1}
    Events = {e1}
    Outcomes = {"cancelled"}
    MaxRows = 3
    MaxTroubles = 1
SPECIFICATION Spec
CHECK_DEADLOCK FALSE
PROPERTIES SpoolIsDelivered
