\* A sensor is opened, closed and let go.
SPECIFICATION FairSpec
CONSTANTS
    Opens = {open1}
    Closes = {close1}
    NoCall = none
    NoValue = nothing
    Measurements <- SomeMeasurements
    Readings <- SomeReadings
    Mount <- Turned
    MaxInFlight = 2
    CallsFail = FALSE
PROPERTIES
    DriverClientReleased
CHECK_DEADLOCK FALSE
