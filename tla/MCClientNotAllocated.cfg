\* The QMI client cannot be allocated.
SPECIFICATION Spec
CONSTANTS
    Sends = {s1}
    Faults = {"allocate"}
INVARIANTS
    NothingLeft
