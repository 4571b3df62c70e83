\* Every driver, under ssccli and under any other program.
SPECIFICATION FairSpec
CONSTANTS
    Opens = {open1, open2}
    Closes = {close1}
    NoCall = none
    NoValue = nothing
    Measurements <- SomeMeasurements
    Readings <- SomeReadings
    Mount <- Turned
    MaxInFlight = 2
    CallsFail = TRUE
INVARIANTS
    TypeOK
    HandlerDiscipline
    NothingBeforeOpenReturns
    SensorLeftDisabled
PROPERTIES
    MeasurementsHeard
    ReturnsPassedOn
    OutputsWhenOpened
    CliEnds
CHECK_DEADLOCK FALSE
