SPECIFICATION Spec
CONSTANTS
    Kinds = {"Shard", "FrontProxy"}
    MaxGeneration = 2
    MaxEvents = 2
CHECK_DEADLOCK FALSE
PROPERTIES
    EventuallyTruthful
    FinalizersKept
    CacheUntouched
    DeletionCompletes
