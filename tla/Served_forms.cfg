SPECIFICATION FormsSpec
CONSTANTS
    Actors = {server, p1}
    Callers = {p1}
    Server = server
    Targets = {"release", "memory"}
    MinEvidence = 2
    ReadLimit = 2
INVARIANT FormsAnswered
CHECK_DEADLOCK FALSE
