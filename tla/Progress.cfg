SPECIFICATION Spec
CONSTANTS
    None = None
    Users = {u1}
    Calls = {k1, k2}
    WorkspaceIds = {a}
    RpcIds = {c}
    Handled = {a, c}
    Reliable = {c}
    Sweeps = {w1}
    Hooks = {h1, h2, h3}
    Unfit = {h3}
    Clients = {c1}
    Lines = {l1, l2}
    Wired = {"router", "identity", "heartbeats", "creds", "tokens", "acl"}
    Requests = {r1, r2}
    SlackMessages = {m3, m4}
    DiscordMessages = {m1, m2}
    MaxTurns = 1
INVARIANTS
    EndedOnce
PROPERTIES
    RequestsAnswered
    StaleIsReaped
    EmissionEnds
    LineIsAnswered
    StreamIsClosed
CHECK_DEADLOCK FALSE
