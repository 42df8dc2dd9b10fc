SPECIFICATION Spec
CONSTANTS
    Kinds = {"Shard", "RootShard", "FrontProxy", "VirtualWorkspace", "CacheServer"}
    OwnCerts <- OneOwnCert
    ProxyCerts <- OneProxyCert
    UserBundle = TRUE
    UserMount = "Secret"
    MaxEdits = 1
    MaxUser = 1
    MaxIssues = 1
    MaxFaults = 1
INVARIANTS StrictPublish InputCurrent RolloutCurrent AvailabilityReported
CHECK_DEADLOCK FALSE
