SPECIFICATION EndSpec
CONSTANTS
    Runners = {"p1", "p2"}
    Cancellers = {"c"}
    Intents = {i1, i2}
    RequestOf <- MCRequestOf
    Observer = "tess"
    Plan <- MCPlan
    Tokens = {"t"}
    TokenOf <- MCTokenOf
    Answers <- RunnerAnswers
    Evaluators = {"eve"}
    NoToken = NoToken
    NoThread = NoThread
    NoIntent = NoIntent
    Actors <- MCActors
    KindOf <- MCKindOf
    Scopes = {"s"}
    CaseGrants <- MCGrants
    Ids = {i1, i2}
    Contents = {"yes", "no"}
    NoContent = "none"
    NoCaller = NoCaller
    NoActor = NoActor
    NoId = NoId
    NoGroup = NoGroup
    NoBound = NoBound
    NoCursor = NoCursor
INVARIANTS
    RunsSound
    LimitsHold
    PagesExact
PROPERTIES
    EverythingEnds
CHECK_DEADLOCK FALSE
