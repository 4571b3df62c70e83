\* A sensor is opened, closed and let go while callbacks are still queued.
SPECIFICATION Spec
CONSTANTS
    Opens = {open1}
    Closes = {close1}
    NoCall = none
    NoValue = nothing
    Measurements <- SomeMeasurements
    Readings <- SomeReadings
    Mount <- Turned
    MaxInFlight = 2
    CallsFail = FALSE
INVARIANTS
    NoFreedSensorUsed
CHECK_DEADLOCK FALSE
