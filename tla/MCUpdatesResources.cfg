SPECIFICATION Spec
CONSTANTS
    Objects = {"o1", "o2"}
    Kinds = {"Shard"}
    MaxEdits = 1
    MaxOutside = 0
INVARIANT SpecApplied
