\* Matrices along the axes, empty, zero and twelve-value reports.
SPECIFICATION Spec
CONSTANTS
    One = 2
    Reports <- AxisReports
    Readings <- SomeReadings
INVARIANTS
    TypeOK
    FirmwareOrIdentity
    MagnitudeKept
