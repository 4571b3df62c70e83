\* Everything may fail.
SPECIFICATION FairSpec
CONSTANTS
    Sends = {s1, s2, s3}
    Faults <- AllFaults
INVARIANTS
    TypeOK
    ReferencesHeld
    UsableWhileUsed
    UsedClientLeavesNothing
PROPERTIES
    ImplementsLife
