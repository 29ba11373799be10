CONSTANTS
    s0 = s0
    BATT = BATT
    TEMP = TEMP
    f1 = f1
    f2 = f2
    t1 = t1
    t2 = t2
    NoThread = NoThread
    Sensors = {s0}
    Kinds = {BATT, TEMP}
    Files = {f1}
    Threads = {t1}
    RawCodes = {0, 1}
    ReadSizes = {2, 64}
    MaxTs = 3
    ThreadFile <- OwnFile
    Lookup <- Tables
SPECIFICATION Spec
INVARIANT FaultLeavesSession
