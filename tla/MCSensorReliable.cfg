\* Two opens and two closes over a service that answers everything.
SPECIFICATION FairSpec
CONSTANTS
    InitTask = init
    OpenTasks = {open1, open2}
    CloseTasks = {close1, close2}
    NoTask = none
    MaxRetries = 2
    Attributes <- AllAttributes
    Faults = {}
    MaxInFlight = 2
INVARIANTS
    TypeOK
    ListenerDiscipline
    OneStepInFlight
    FirstOpenMeansEnabled
PROPERTIES
    ImplementsApi
    InitReturns
    OpenReturnsUnlessClosed
    CloseReturns
    ClientReleased
CHECK_DEADLOCK FALSE
