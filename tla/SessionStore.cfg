SPECIFICATION FairSpec
CONSTANTS
    MaxOps = 3
    Keys = {k1, k2}
    Sids = {s1}
    None = None
    ReadFaults = FALSE
CHECK_DEADLOCK FALSE
PROPERTIES
    ImplementsAtomicStore
    OpsSettle
