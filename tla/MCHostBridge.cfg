SPECIFICATION FairSpec
CONSTANTS
    x = x
    y = y
    i = i
    j = j
    f1 = f1
    Texts = {x, y}
    Images = {i, j}
    Copied = {x, j}
    Received = {x, y, i}
    Picked = {j}
    Fetchers = {f1}
    HASH_CAP = 1
    HISTORY_LIMIT = 2
    MaxCopies = 1
    MaxRemote = 2
    MaxCommands = 1
    MaxFaults = 1
    None = None
INVARIANTS   ListedIsSavable SendingIsCurrent
  
CHECK_DEADLOCK FALSE
