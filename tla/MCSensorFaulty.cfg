\* Everything the environment may do wrong.
SPECIFICATION Spec
CONSTANTS
    InitTask = init
    OpenTasks = {open1}
    CloseTasks = {close1}
    NoTask = none
    MaxRetries = 3
    Attributes <- GoodAttributes
    Faults = {"abort", "reject", "foreign", "garbled"}
    MaxInFlight = 2
INVARIANTS
    NoServiceMeansExhausted
    ReadyOnlyAfterService
    NobodyWaitsInVain
PROPERTIES
    UsesClient
CHECK_DEADLOCK FALSE
