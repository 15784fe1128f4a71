SPECIFICATION OutsideSpec
CONSTANTS
    None = None
    MaxCalls = 3
    Externals = {x1, x2}
    Prias = {y1, y2}
    Ensures = {e1}
    Stops = {s1}
    MaxRows = 3
    Uses = {a, b}
    Ttl = 1
    MaxClock = 3
    MaxVersion = 1
    Tasks = {t1, t2}
    Runs = {r1}
    MaxJobs = 2
    Plans = {p, q}
    Unparsable = {1}
    MaxEdits = 2
    MaxVisits = 2
    Loads = {l1, l2}
    Streams = {v1, v2}
    MaxStreams = 2
    Desktops = {d1, d2, d3}
    Instanced = {d2, d3}
    Requests = {q1, q2}
    MaxSlots = 2
    MaxRequests = 3
    MaxRestarts = 1
    StatusFails = TRUE
    Sessions = {c1, c2}
    Processes = {k1, k2}
    Handlers = {h1, h2, h3}
    MaxControls = 2
SYMMETRY Symmetry
INVARIANTS
    MethodMatchesUser
    ActsForItsOwn
    IndexesUnite
    CodesAreSpent
    SingleBox
    RetiredTokenUnused
    RemovedIsQuiet
    UsersStopFirst
    PageCatchesUp
    PortsAreKept
    SessionsAreCounted
CHECK_DEADLOCK FALSE
