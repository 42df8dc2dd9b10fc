SPECIFICATION FairSpec
CONSTANTS
    Kinds = {"Shard", "FrontProxy", "CacheServer"}
    OwnCerts <- OneOwnCert
    ProxyCerts <- OneProxyCert
    UserBundle = FALSE
    UserMount = "none"
    MaxEdits = 0
    MaxUser = 0
    MaxIssues = 2
    MaxFaults = 1
INVARIANTS InputCurrent RolloutCurrent
PROPERTIES EventuallyServed
CHECK_DEADLOCK FALSE
