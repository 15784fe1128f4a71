SPECIFICATION FairSpec
CONSTANTS
    Callers = {c1, c2}
    Models = {m0}
    DefaultModel = m0
    None = None
    Keys = {k1}
    Rpcs = {r1, r2}
    ReadFaults = FALSE
    Untimed = {r2}
PROPERTIES
    CallsSettle
    CrashIsResolved
    ImplementsConversations
