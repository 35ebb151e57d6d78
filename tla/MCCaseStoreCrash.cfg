CONSTANTS
    p1 = p1
    p2 = p2
    o1 = o1
    o2 = o2
    Callers = {p1}
    Objects = {o1}
    ObjectOf <- AloneOf
    ObserverOf <- OneObserver
    Actors <- MCActors
    KindOf <- MCKindOf
    Scopes = {"s"}
    CaseGrants <- MCGrants
    Ids = {i1, i2}
    Contents = {"yes", "no"}
    NoContent = "none"
    Plan <- MCPlan
    Uses <- AloneUses
    Answers <- BridgeAnswers
    Evaluators = {"pat", "eve"}
    NoCaller = NoCaller
    NoActor = NoActor
    NoId = NoId
SPECIFICATION RestartSpec
PROPERTIES
    CrashIsRecoverable
CHECK_DEADLOCK FALSE
