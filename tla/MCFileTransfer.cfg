SPECIFICATION FairSpec
CONSTANTS
    t1 = t1
    t2 = t2
    n1 = n1
    Transfers = {t1, t2}
    Names = {n1}
    NameOf <- MCNameOf
    Contents <- Edited
    Original <- XX
    WIRE_CAP = 1
    MAX_SAME = 1
    MaxEdits = 1
    MaxFaults = 1
    None = None
INVARIANTS  NoOrphanPart FailsForCause
PROPERTIES SentArrives SendReturns
CHECK_DEADLOCK FALSE
