SPECIFICATION FairSpec
CONSTANTS
    MaxEdits = 1
    MaxIssues = 2
    MaxFaults = 1
INVARIANTS AvailableIsCurrent NeverForgotten
PROPERTIES BecomesAvailable
CHECK_DEADLOCK FALSE
