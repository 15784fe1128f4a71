SPECIFICATION ChildSpec
CONSTANTS
    MaxRequests = 2
    Stoppers = {s1}
    MaxStrays = 1
    Prompts = {a, b}
    DockerStoppers = {s, t}
    MaxEvents = 3
    MaxText = 3
CHECK_DEADLOCK FALSE
INVARIANTS
    FramesAreKept
    ReplyIsWhole
    ShownIsWhole
PROPERTIES
    ImplementsRpc
    EveryRequestSettles
    StopReturns
