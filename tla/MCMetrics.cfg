SPECIFICATION MetricsSpec
CONSTANTS
    Tracked <- SomeObjects
    GaugePhases <- SomePhases
    MaxChanges = 2
    MaxFaults = 1
INVARIANTS GaugesOfOneList
PROPERTIES GaugesCatchUp
