SPECIFICATION Spec
CONSTANTS
    Objects = {"o1", "o2"}
    Kinds = {"Shard", "CacheServer", "FrontProxy"}
    MaxEdits = 2
    MaxOutside = 1
INVARIANTS NeverRejected ResourcesExplained Idempotent CertificateCurrent
PROPERTIES OthersKept
