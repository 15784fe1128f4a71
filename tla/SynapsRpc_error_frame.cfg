SPECIFICATION Spec
CONSTANTS
    MaxRequests = 1
    Stoppers = {s1}
    MaxStrays = 1
CHECK_DEADLOCK FALSE
PROPERTIES
    ErrorFrameIsSurvived
