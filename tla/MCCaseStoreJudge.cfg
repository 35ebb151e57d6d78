CONSTANTS
    p1 = p1
    p2 = p2
    o1 = o1
    o2 = o2
    Callers = {p1, p2}
    Objects = {o1, o2}
    ObjectOf <- ApartOf
    ObserverOf <- MCObserverOf
    Actors <- MCActors
    KindOf <- MCKindOf
    Scopes = {"s"}
    CaseGrants <- MCGrants
    Ids = {i1, i2, i3}
    Contents = {"yes", "no"}
    NoContent = "none"
    Plan <- MCPlan
    Uses <- JudgeUses
    Answers <- JudgeAnswers
    Evaluators = {"pat", "eve"}
    NoCaller = NoCaller
    NoActor = NoActor
    NoId = NoId
SYMMETRY IdSymmetry
SPECIFICATION Spec
INVARIANTS
    ApprovalEarned
CHECK_DEADLOCK FALSE
