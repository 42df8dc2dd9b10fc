SPECIFICATION Spec
CONSTANTS
    Names <- SomeNames
    Parts <- Dashes
    Situations <- OwnCA
    Editable <- NoEdits
    MaxEdits = 0
INVARIANTS Current
CHECK_DEADLOCK FALSE
