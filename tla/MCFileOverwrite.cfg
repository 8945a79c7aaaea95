SPECIFICATION Spec
CONSTANTS
    t1 = t1
    t2 = t2
    n1 = n1
    Transfers = {t1, t2}
    Names = {n1}
    NameOf <- MCNameOf
    Contents <- Edited
    Original <- XX
    WIRE_CAP = 1
    MAX_SAME = 1
    MaxEdits = 0
    MaxFaults = 0
    None = None

PROPERTIES NeverOverwrites
CHECK_DEADLOCK FALSE
