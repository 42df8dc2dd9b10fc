SPECIFICATION FairSpec
CONSTANTS
    c1 = c1
    c2 = c2
    r1 = r1
    r2 = r2
    Targets = {t1, t2}
    Clusters = {c1, c2}
    Roles = {r1, r2}
    NoCluster = NoCluster
    NilAuth = NilAuth
    Authorizations <- SomeAuthorizations
    MaxEdits = 2
    MaxFaults = 1
INVARIANTS RecordInv NoOrphans
PROPERTIES ImplementsProtocol Converges RecordedDeletionCompletes
CHECK_DEADLOCK FALSE
