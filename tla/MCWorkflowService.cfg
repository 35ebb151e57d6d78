SPECIFICATION FairSpec
CONSTANTS
    Owners = {o1, o2}
    Connections = {c1}
    Requests <- MCRequests
    MaxWorkers = 1
    MaxJournal = 1
    NoConnection = NoConnection
    NoOwner = NoOwner
INVARIANTS
    ServiceSound
PROPERTIES
    ClosedIsFinal
    ServiceProceeds
CHECK_DEADLOCK FALSE
