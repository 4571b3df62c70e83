\* A request fails on the host and its report still comes.
SPECIFICATION Spec
CONSTANTS
    InitTask = init
    OpenTasks = {open1}
    CloseTasks = {}
    NoTask = none
    MaxRetries = 2
    Attributes <- GoodAttributes
    Faults = {"abort"}
    MaxInFlight = 2
INVARIANTS
    NoReturnedTaskUsed
CHECK_DEADLOCK FALSE
