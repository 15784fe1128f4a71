SPECIFICATION Spec
CONSTANTS
    MaxCalls = 3
    Externals = {ext}
    Prias = {p1}
    None = None
CHECK_DEADLOCK FALSE
INVARIANT SingleUse
