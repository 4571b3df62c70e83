\* A close overtakes the report an open waits for.
SPECIFICATION FairSpec
CONSTANTS
    InitTask = init
    OpenTasks = {open1}
    CloseTasks = {close1}
    NoTask = none
    MaxRetries = 2
    Attributes <- GoodAttributes
    Faults = {}
    MaxInFlight = 2
PROPERTIES
    OpenReturns
CHECK_DEADLOCK FALSE
