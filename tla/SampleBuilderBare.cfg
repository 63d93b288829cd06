CONSTANTS
    t1 = t1
    t2 = t2
    h1 = h1
    h2 = h2
    Targets = {t1, t2}
    Hashes = {h1, h2}
    Layouts <- BareLayouts
    Sizes = 2
    MaxTime = 3
    MaxEvents = 2
    MaxChanges = 1
SPECIFICATION FairSpec
PROPERTY RecordConsumed
