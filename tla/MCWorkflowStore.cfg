SPECIFICATION Spec
CONSTANTS
    Callers = {p1, p2}
    NoCaller = NoCaller
    RequestIds = {r1, r2}
    Transitions <- MCTransitions
    Batches <- MCBatches
    Imported <- MCImported
    Authorized <- MCAuthorized
    MaxRecords = 5
    MaxAppendRecords = 2
    MaxOperations = 2
SYMMETRY Symmetry
INVARIANTS
    TypeOK
    StoreVerifies
    ReportsTruthful
    NoForks
PROPERTY
    ImplementsCompareAndAppend
CHECK_DEADLOCK FALSE
