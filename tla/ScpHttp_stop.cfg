SPECIFICATION Spec
CONSTANTS
    Requests = {r1, r2}
PROPERTY StopResolves
CHECK_DEADLOCK FALSE
