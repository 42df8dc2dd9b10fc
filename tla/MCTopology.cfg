SPECIFICATION FairSpec
CONSTANTS
    Shards = {s1, s2}
    MaxCreates = 2
    MaxDeletes = 1
    MaxFaults = 1
INVARIANTS RootCurrent GrowthCurrent
PROPERTIES EveryoneConverges
CHECK_DEADLOCK FALSE
