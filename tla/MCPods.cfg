SPECIFICATION Spec
CONSTANTS
    Names <- SomeNames
    Parts <- Dashes
    Situations <- SomeSituations
    Editable <- SomeEdits
    MaxEdits = 1
INVARIANTS FilesMounted Current WorkspaceCurrent ClientTrust Connected OneWriter
PROPERTIES Settles
CHECK_DEADLOCK FALSE
