\* A measurement of the last opening confirms the next one.
SPECIFICATION Spec
CONSTANTS
    InitTask = init
    OpenTasks = {open1, open2}
    CloseTasks = {close1}
    NoTask = none
    MaxRetries = 2
    Attributes <- GoodAttributes
    Faults = {}
    MaxInFlight = 2
INVARIANTS
    OpenMeansEnabled
CHECK_DEADLOCK FALSE
