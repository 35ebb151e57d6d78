CONSTANTS
    p1 = p1
    p2 = p2
    o1 = o1
    o2 = o2
    Callers = {p1, p2}
    Objects = {o1, o2}
    ObjectOf <- ApartOf
    ObserverOf <- MCObserverOf
    Actors <- MCActors
    KindOf <- MCKindOf
    Scopes = {"s"}
    CaseGrants <- MCGrants
    Ids = {i1, i2}
    Contents = {"yes", "no"}
    NoContent = "none"
    Plan <- MCPlan
    Uses <- BridgeUses
    Answers <- BridgeAnswers
    Evaluators = {"pat", "eve"}
    NoCaller = NoCaller
    NoActor = NoActor
    NoId = NoId
SYMMETRY IdSymmetry
SPECIFICATION Spec
INVARIANTS
    TypeOK
    StoreVerifies
    EnteredAtMostOnce
    ReportsTruthful
    ObservationKept
PROPERTIES
    ImplementsCaseProtocol
CHECK_DEADLOCK FALSE
