\* The DSP rejects a request of the initialisation.
SPECIFICATION FairSpec
CONSTANTS
    InitTask = init
    OpenTasks = {open1}
    CloseTasks = {}
    NoTask = none
    MaxRetries = 2
    Attributes <- GoodAttributes
    Faults = {"reject"}
    MaxInFlight = 2
PROPERTIES
    InitReturns
CHECK_DEADLOCK FALSE
